------------------------------- MODULE Wal -------------------------------
(***************************************************************************)
(* One segment of the write-ahead log (core/wal/wal.go) as a value:        *)
(*   file    the complete records the file holds, in order                 *)
(*   synced  how many of them the last fsync covered                       *)
(*   buf     the records held by the bufio.Writer                          *)
(*   torn    the file ends with a first part of the record Head(buf)       *)
(*   bad     the file holds the remains of a record a crash cut short      *)
(* A record is [key, val].  Lengths are counted in records; the byte       *)
(* offset of a boundary is zero exactly when no record and no remains      *)
(* precede it.                                                             *)
(***************************************************************************)
EXTENDS Lww, Sequences

Record == [key : Key, val : Value]

Segment == [file : Seq(Record), synced : Nat, buf : Seq(Record),
            torn : BOOLEAN, bad : BOOLEAN]

\* A segment whose file is opened with the records f, all of them on disk.
Opened(f, bad) ==
  [file |-> f, synced |-> Len(f), buf |-> << >>, torn |-> FALSE, bad |-> bad]

\* NewWal on an empty directory.
EmptySegment == Opened(<< >>, FALSE)

\* Everything written so far, in order: what the file holds after a bufio Flush.
Flushed(seg) == seg.file \o seg.buf
Flush(seg) ==
  [file |-> Flushed(seg), synced |-> seg.synced, buf |-> << >>,
   torn |-> FALSE, bad |-> seg.bad]

\* File.Sync.
Sync(seg) == [seg EXCEPT !.synced = Len(seg.file)]

(***************************************************************************)
(* Publish: bufio.Writer.Write of header and payload.  The record fits in  *)
(* the buffer; or the buffer was exactly full and is written out first; or *)
(* it overflows and is written out together with a first part of the       *)
(* record; or the record's rest is larger than the buffer and is written   *)
(* directly.                                                               *)
(***************************************************************************)
Fits(seg, r) == [seg EXCEPT !.buf = Append(seg.buf, r)]
Overflows(seg, r) ==
  LET out == Flush(seg) IN
    { [out EXCEPT !.buf = <<r>>],
      [out EXCEPT !.buf = <<r>>, !.torn = TRUE],
      [out EXCEPT !.file = Append(out.file, r)] }

Publish(seg, r, mayOverflow) ==
  {Fits(seg, r)} \cup (IF mayOverflow THEN Overflows(seg, r) ELSE {})

\* PrepareSnapshot for one segment: flush (no fsync) and take the position.
Boundary(seg) == Len(Flushed(seg))

(***************************************************************************)
(* clearSegment.  A boundary of zero bytes truncates the whole file,       *)
(* whatever was appended since; otherwise what follows the boundary is     *)
(* copied to a new, fsynced file that replaces the old one.                *)
(***************************************************************************)
ZeroBoundary(seg, off) == off = 0 /\ ~seg.bad

\* Mutation: the whole segment is dropped, as before the boundary existed.
TrailingNothing(seg, off) == << >>

Trailing(seg, off) ==
  IF ZeroBoundary(seg, off) THEN << >>
  ELSE SubSeq(Flushed(seg), off + 1, Len(Flushed(seg)))

clearSegment(seg, off) == Opened(Trailing(seg, off), FALSE)

\* The keys whose records a zero boundary throws away.
CutByZero(seg, off) ==
  IF ZeroBoundary(seg, off)
  THEN {k \in Key : \E i \in DOMAIN Flushed(seg) : Flushed(seg)[i].key = k}
  ELSE {}

(***************************************************************************)
(* A crash loses the buffer and keeps a prefix of the file no shorter than *)
(* what was fsynced (the whole file when only the process dies); the next  *)
(* record may survive in part.                                             *)
(***************************************************************************)
Crashed(seg, kept, cutShort) ==
  Opened(SubSeq(seg.file, 1, kept), seg.bad \/ cutShort)

(***************************************************************************)
(* setResults over one segment: per key, the first of the records with the *)
(* largest timestamp, without its node name.                               *)
(***************************************************************************)
\* Mutation: the record read last wins, whatever its timestamp.
ReplayWinnersLast(k, log) ==
  {i \in DOMAIN log : log[i].key = k /\ \A j \in DOMAIN log : log[j].key = k => j <= i}

ReplayWinners(k, log) ==
  {i \in DOMAIN log :
     /\ log[i].key = k
     /\ \A j \in DOMAIN log :
          log[j].key = k => \/ log[j].val.ts < log[i].val.ts
                            \/ log[j].val.ts = log[i].val.ts /\ i <= j}

Replayed(k, log) ==
  IF ReplayWinners(k, log) = {} THEN NoVal
  ELSE [log[CHOOSE i \in ReplayWinners(k, log) : TRUE].val EXCEPT !.node = 0]
=============================================================================
