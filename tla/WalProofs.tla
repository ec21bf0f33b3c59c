---------------------------- MODULE WalProofs ----------------------------
(***************************************************************************)
(* What the operations on a log segment keep: flushing, publishing and     *)
(* clearing never reorder records, and never lose one that follows the     *)
(* boundary; replaying finds the newest record of a key.                   *)
(***************************************************************************)
EXTENDS Wal, Integers, SequenceTheorems, WellFoundedInduction, TLAPS

\* Sequences of records, as the proofs below need them.
LEMMA RecordSeq ==
  ASSUME NEW f \in Seq(Record)
  PROVE  /\ Len(f) \in Nat /\ DOMAIN f = 1 .. Len(f)
         /\ f \o << >> = f
         /\ \A i \in 1 .. Len(f) : f[i] \in Record /\ f[i].key \in Key /\ f[i].val \in Value
<1>1. \A i \in 1 .. Len(f) : f[i] \in Record
  BY ElementOfSeq
<1> QED
  BY <1>1, LenProperties, ConcatEmptySeq DEF Record

\* Concatenation keeps the first sequence as a prefix.
LEMMA ConcatPrefix ==
  ASSUME NEW f \in Seq(Record), NEW b \in Seq(Record)
  PROVE  /\ f \o b \in Seq(Record)
         /\ Len(f \o b) = Len(f) + Len(b)
         /\ \A i \in 1 .. Len(f) : (f \o b)[i] = f[i]
OBVIOUS

\* Writing a record behind a buffer: buffered and flushed later, or flushed first.
LEMMA ConcatAppend ==
  ASSUME NEW f \in Seq(Record), NEW b \in Seq(Record), NEW r \in Record
  PROVE  /\ f \o b \in Seq(Record) /\ Append(f \o b, r) \in Seq(Record)
         /\ Append(b, r) \in Seq(Record) /\ <<r>> \in Seq(Record) /\ << >> \in Seq(Record)
         /\ f \o Append(b, r) = Append(f \o b, r)
         /\ (f \o b) \o <<r>> = Append(f \o b, r)
         /\ Append(f \o b, r) \o << >> = Append(f \o b, r)
         /\ Len(f \o b) >= Len(f) /\ Len(Append(f \o b, r)) >= Len(f)
<1> DEFINE a == f \o b
<1>1. /\ a \in Seq(Record) /\ f \o Append(b, r) = Append(a, r) /\ Len(a) >= Len(f)
      /\ Append(b, r) \in Seq(Record) /\ <<r>> \in Seq(Record) /\ << >> \in Seq(Record)
  OBVIOUS
<1> HIDE DEF a
<1>2. Append(a, r) \in Seq(Record) /\ Len(Append(a, r)) = Len(a) + 1
  BY <1>1
<1>3. a \o <<r>> = Append(a, r)
  BY <1>1, AppendIsConcat, Zenon
<1>4. Append(a, r) \o << >> = Append(a, r)
  BY <1>2, RecordSeq, Zenon
<1>5. Len(a) \in Nat /\ Len(f) \in Nat
  BY <1>1
<1>6. Len(Append(a, r)) >= Len(f)
  BY <1>1, <1>2, <1>5
<1> QED
  BY <1>1, <1>2, <1>3, <1>4, <1>6, Zenon DEF a

\* Flush appends the buffered records behind those of the file.
LEMMA FlushedRecords ==
  ASSUME NEW seg \in Segment
  PROVE  /\ Flushed(seg) = seg.file \o seg.buf
         /\ Flushed(seg) \in Seq(Record)
         /\ Len(Flushed(seg)) = Len(seg.file) + Len(seg.buf)
         /\ \A i \in 1 .. Len(seg.file) : Flushed(seg)[i] = seg.file[i]
<1>1. seg.file \in Seq(Record) /\ seg.buf \in Seq(Record)
  BY DEF Segment
<1>2. Flushed(seg) = seg.file \o seg.buf
  BY DEF Flushed, Flush
<1>3. /\ seg.file \o seg.buf \in Seq(Record)
      /\ Len(seg.file \o seg.buf) = Len(seg.file) + Len(seg.buf)
      /\ \A i \in 1 .. Len(seg.file) : (seg.file \o seg.buf)[i] = seg.file[i]
  BY <1>1, ConcatPrefix, Zenon
<1> QED
  BY <1>2, <1>3, Zenon

\* A segment that is opened is well-formed and has everything on disk.
LEMMA OpenedType ==
  ASSUME NEW f \in Seq(Record), NEW bad \in BOOLEAN
  PROVE  /\ Opened(f, bad) \in Segment
         /\ Opened(f, bad).file = f /\ Opened(f, bad).synced = Len(f)
         /\ Flushed(Opened(f, bad)) = f
<1>1. Opened(f, bad) \in Segment
  BY RecordSeq DEF Opened, Segment
<1>2. Flushed(Opened(f, bad)) = f \o << >>
  BY DEF Opened, Flushed, Flush
<1> QED
  BY <1>1, <1>2, RecordSeq DEF Opened

\* PrepareSnapshot leaves a well-formed segment with the same records.
LEMMA FlushType ==
  ASSUME NEW seg \in Segment
  PROVE  /\ Flush(seg) \in Segment
         /\ Flush(seg).synced = seg.synced
         /\ Flush(seg).file = Flushed(seg)
         /\ Flushed(Flush(seg)) = Flushed(seg)
<1>1. Flushed(seg) \in Seq(Record)
  BY FlushedRecords, Zenon
<1>2. Flush(seg) = [file |-> Flushed(seg), synced |-> seg.synced, buf |-> << >>,
                    torn |-> FALSE, bad |-> seg.bad]
  BY DEF Flush, Flushed
<1>3. Flush(seg) \in Segment
  BY <1>1, <1>2 DEF Segment
<1>4. Flushed(Flush(seg)) = Flushed(seg) \o << >>
  BY <1>2, Zenon DEF Flushed, Flush
<1> QED
  BY <1>1, <1>2, <1>3, <1>4, RecordSeq

\* File.Sync after a flush covers every record.
LEMMA SyncType ==
  ASSUME NEW seg \in Segment
  PROVE  /\ Sync(Flush(seg)) \in Segment
         /\ Sync(Flush(seg)).file = Flushed(seg)
         /\ Sync(Flush(seg)).synced = Len(Flushed(seg))
         /\ Flushed(Sync(Flush(seg))) = Flushed(seg)
<1>1. /\ Flush(seg) \in Segment /\ Flush(seg).file = Flushed(seg)
      /\ Flushed(seg) \in Seq(Record) /\ Len(Flushed(seg)) \in Nat
  BY FlushType, FlushedRecords, RecordSeq, Zenon
<1>2. Sync(Flush(seg)) = [Flush(seg) EXCEPT !.synced = Len(Flushed(seg))]
  BY <1>1 DEF Sync
<1>3. Sync(Flush(seg)) \in Segment
  BY <1>1, <1>2, Zenon DEF Segment
<1>4. /\ Sync(Flush(seg)).file = Flush(seg).file
      /\ Sync(Flush(seg)).buf = Flush(seg).buf
      /\ Sync(Flush(seg)).synced = Len(Flushed(seg))
  BY <1>1, <1>2 DEF Segment
<1>5. Flushed(Sync(Flush(seg))) = Flushed(Flush(seg))
  BY <1>4, Zenon DEF Flushed, Flush
<1> QED
  BY <1>1, <1>3, <1>4, <1>5, FlushType

\* However the buffer overflows, Publish appends exactly one record and leaves
\* what is in the file where it is.
LEMMA PublishAppends ==
  ASSUME NEW seg \in Segment, NEW r \in Record, NEW may \in BOOLEAN,
         NEW new \in Publish(seg, r, may)
  PROVE  /\ new \in Segment
         /\ new.synced = seg.synced
         /\ Len(new.file) >= Len(seg.file)
         /\ Flushed(new) = Append(Flushed(seg), r)
<1>1. /\ seg.file \in Seq(Record) /\ seg.buf \in Seq(Record)
      /\ seg.synced \in Nat /\ seg.bad \in BOOLEAN /\ seg.torn \in BOOLEAN
  BY DEF Segment
<1> DEFINE all == seg.file \o seg.buf
<1>2. /\ all \in Seq(Record) /\ Len(all) >= Len(seg.file)
      /\ Append(all, r) \in Seq(Record) /\ Len(Append(all, r)) >= Len(seg.file)
      /\ all \o <<r>> = Append(all, r)
      /\ Append(all, r) \o << >> = Append(all, r)
      /\ seg.file \o Append(seg.buf, r) = Append(all, r)
      /\ Append(seg.buf, r) \in Seq(Record)
      /\ <<r>> \in Seq(Record) /\ << >> \in Seq(Record)
  BY <1>1, ConcatAppend, Zenon
<1>3. Flushed(seg) = all
  BY DEF Flushed, Flush
<1> HIDE DEF all
<1>4. CASE new = Fits(seg, r)
  <2>1. new = [file |-> seg.file, synced |-> seg.synced, buf |-> Append(seg.buf, r),
               torn |-> seg.torn, bad |-> seg.bad]
    BY <1>4, Zenon DEF Fits, Segment
  <2> QED
    BY <2>1, <1>1, <1>2, <1>3 DEF Flushed, Flush, Segment
<1>5. CASE new \in Overflows(seg, r)
  <2>1. \/ new = [file |-> all, synced |-> seg.synced, buf |-> <<r>>,
                  torn |-> FALSE, bad |-> seg.bad]
        \/ new = [file |-> all, synced |-> seg.synced, buf |-> <<r>>,
                  torn |-> TRUE, bad |-> seg.bad]
        \/ new = [file |-> Append(all, r), synced |-> seg.synced, buf |-> << >>,
                  torn |-> FALSE, bad |-> seg.bad]
    BY <1>5, Zenon DEF Overflows, Flush, Flushed, all
  <2>2. ASSUME NEW f \in Seq(Record), NEW b \in Seq(Record), NEW t \in BOOLEAN,
               new = [file |-> f, synced |-> seg.synced, buf |-> b, torn |-> t, bad |-> seg.bad]
        PROVE  new \in Segment /\ new.synced = seg.synced /\ new.file = f /\ Flushed(new) = f \o b
    BY <2>2, <1>1 DEF Segment, Flushed, Flush
  <2> QED
    BY <2>1, <2>2, <1>2, <1>3, Zenon
<1> QED
  BY <1>4, <1>5 DEF Publish

\* clearSegment leaves a well-formed, fsynced segment.
LEMMA ClearType ==
  ASSUME NEW seg \in Segment, NEW off \in Nat
  PROVE  /\ Trailing(seg, off) \in Seq(Record)
         /\ clearSegment(seg, off) \in Segment
         /\ clearSegment(seg, off).file = Trailing(seg, off)
         /\ clearSegment(seg, off).synced = Len(Trailing(seg, off))
         /\ Flushed(clearSegment(seg, off)) = Trailing(seg, off)
<1> DEFINE all == Flushed(seg)
<1>1. all \in Seq(Record)
  BY FlushedRecords, Zenon
<1>2. Trailing(seg, off) = IF ZeroBoundary(seg, off) THEN << >> ELSE SubSeq(all, off + 1, Len(all))
  BY DEF Trailing
<1> HIDE DEF all
<1>3. \A i \in off + 1 .. Len(all) : all[i] \in Record
  BY <1>1, RecordSeq
<1>4. SubSeq(all, off + 1, Len(all)) \in Seq(Record)
  BY <1>1, <1>3, RecordSeq, SubSeqProperties
<1>5. Trailing(seg, off) \in Seq(Record)
  BY <1>2, <1>4
<1> QED
  BY <1>5, OpenedType, Zenon DEF clearSegment

\* Flushing and clearing leave no more records fsynced than the file holds.
LEMMA SyncedWithinFile ==
  ASSUME NEW seg \in Segment, seg.synced <= Len(seg.file), NEW off \in Nat
  PROVE  /\ Flush(seg).synced <= Len(Flush(seg).file)
         /\ clearSegment(seg, off).synced <= Len(clearSegment(seg, off).file)
<1> DEFINE f == Len(seg.file)
           b == Len(seg.buf)
           n == Len(Flush(seg).file)
           y == seg.synced
<1>1. f \in Nat /\ b \in Nat /\ y \in Nat
  BY RecordSeq DEF Segment
<1>2. y <= f /\ n = f + b /\ Flush(seg).synced = y
  BY FlushType, FlushedRecords, Zenon
<1> HIDE DEF f, b, n, y
<1>3. y <= n
  BY <1>1, <1>2
<1>4. /\ Trailing(seg, off) \in Seq(Record)
      /\ clearSegment(seg, off).file = Trailing(seg, off)
      /\ clearSegment(seg, off).synced = Len(Trailing(seg, off))
  BY ClearType, Zenon
<1> DEFINE t == Len(Trailing(seg, off))
<1>5. t \in Nat
  BY <1>4, RecordSeq
<1> HIDE DEF t
<1>6. t <= t
  BY <1>5
<1>7. clearSegment(seg, off).synced <= Len(clearSegment(seg, off).file)
  BY <1>4, <1>6, Zenon DEF t
<1> QED
  BY <1>2, <1>3, <1>7, Zenon DEF n

\* A record behind the boundary survives clearSegment, or the boundary is zero
\* and its key is one of those CutByZero names.
LEMMA ClearKeepsTrailing ==
  ASSUME NEW seg \in Segment, NEW off \in Nat,
         NEW i \in DOMAIN Flushed(seg), i > off
  PROVE  \/ Flushed(seg)[i].key \in CutByZero(seg, off)
         \/ \E j \in 1 .. Len(Trailing(seg, off)) : Trailing(seg, off)[j] = Flushed(seg)[i]
<1>1. Flushed(seg) \in Seq(Record) /\ i \in 1 .. Len(Flushed(seg))
  BY FlushedRecords, RecordSeq, Zenon
<1>2. CASE ZeroBoundary(seg, off)
  <2>1. Flushed(seg)[i].key \in Key
    BY <1>1, RecordSeq
  <2> QED
    BY <1>2, <2>1 DEF CutByZero
<1>3. CASE ~ZeroBoundary(seg, off)
  <2>1. Trailing(seg, off) = SubSeq(Flushed(seg), off + 1, Len(Flushed(seg)))
    BY <1>3 DEF Trailing
  <2>2. /\ i - off \in 1 .. Len(Trailing(seg, off))
        /\ Trailing(seg, off)[i - off] = Flushed(seg)[i]
    BY <1>1, <2>1
  <2> QED
    BY <2>2
<1> QED
  BY <1>2, <1>3

\* A crash keeps the first records of the file.
LEMMA CrashedType ==
  ASSUME NEW seg \in Segment, NEW kept \in Nat, kept <= Len(seg.file),
         NEW short \in BOOLEAN
  PROVE  /\ Crashed(seg, kept, short) \in Segment
         /\ Crashed(seg, kept, short).synced = kept
         /\ Len(Crashed(seg, kept, short).file) = kept
         /\ \A i \in 1 .. kept : Crashed(seg, kept, short).file[i] = seg.file[i]
         /\ Flushed(Crashed(seg, kept, short)) = Crashed(seg, kept, short).file
<1>1. seg.file \in Seq(Record)
  BY DEF Segment
<1> DEFINE f == SubSeq(seg.file, 1, kept)
<1>2. f \in Seq(Record) /\ Len(f) = kept /\ \A i \in 1 .. kept : f[i] = seg.file[i]
  BY <1>1
<1> DEFINE b == seg.bad \/ short
<1>3. Crashed(seg, kept, short) = Opened(f, b)
  BY DEF Crashed
<1>4. b \in BOOLEAN
  OBVIOUS
<1> HIDE DEF f, b
<1>5. /\ Opened(f, b) \in Segment /\ Opened(f, b).file = f
      /\ Opened(f, b).synced = Len(f) /\ Flushed(Opened(f, b)) = f
  BY <1>2, <1>4, OpenedType, Zenon
<1> QED
  BY <1>2, <1>3, <1>5, Zenon

-----------------------------------------------------------------------------
(* Replay.                                                                 *)

\* Replay answers a record of the key from the log, or nothing.
LEMMA ReplayedFromLog ==
  ASSUME NEW k \in Key, NEW log \in Seq(Record)
  PROVE  \/ Replayed(k, log) = NoVal
         \/ /\ Replayed(k, log) \in Value
            /\ \E i \in 1 .. Len(log) : log[i].key = k /\ log[i].val.ts = Replayed(k, log).ts
<1>1. CASE ReplayWinners(k, log) = {}
  BY <1>1 DEF Replayed
<1>2. CASE ReplayWinners(k, log) # {}
  <2> DEFINE w == CHOOSE i \in ReplayWinners(k, log) : TRUE
  <2>1. w \in ReplayWinners(k, log)
    BY <1>2
  <2> HIDE DEF w
  <2>2. w \in 1 .. Len(log) /\ log[w].key = k
    BY <2>1 DEF ReplayWinners
  <2>3. Replayed(k, log) = [log[w].val EXCEPT !.node = 0]
    BY <1>2 DEF Replayed, w
  <2>4. log[w].val \in Value
    BY <2>2, RecordSeq
  <2>5. 0 \in NodeID
    BY LwwConstants DEF NodeID
  <2> QED
    BY <2>2, <2>3, <2>4, <2>5 DEF Value
<1> QED
  BY <1>1, <1>2

\* A non-empty set of naturals has a least element.
LEMMA LeastNat ==
  ASSUME NEW T, T \subseteq Nat, T # {}
  PROVE  \E x \in T : \A y \in T : x <= y
<1>1. \E x \in T : \A y \in T : ~(<<y, x>> \in OpToRel(<, Nat))
  BY WFMin, NatLessThanWellFounded
<1>2. PICK x \in T : \A y \in T : ~(<<y, x>> \in OpToRel(<, Nat))
  BY <1>1
<1>3. \A y \in T : ~(y < x)
  BY <1>2, Zenon DEF OpToRel
<1>4. \A y \in T : x <= y
  BY <1>3
<1> QED
  BY <1>4

\* If the log holds a record of the key, one of them wins: Replay forgets no key.
LEMMA ReplayWinnerExists ==
  ASSUME NEW k \in Key, NEW log \in Seq(Record),
         NEW i \in 1 .. Len(log), log[i].key = k
  PROVE  ReplayWinners(k, log) # {}
<1> DEFINE T == {j \in 1 .. Len(log) : log[j].key = k}
           D == {MaxTs - log[j].val.ts : j \in T}
<1>1. DOMAIN log = 1 .. Len(log) /\ Len(log) \in Nat
  BY RecordSeq
<1>2. MaxTs \in Nat
  BY LwwConstants
<1>3. \A j \in T : log[j].val.ts \in 1 .. MaxTs
  BY RecordSeq DEF Value, Timestamp
<1>4. D \subseteq Nat /\ D # {}
  <2>1. \A j \in T : MaxTs - log[j].val.ts \in Nat
    BY <1>2, <1>3
  <2>2. i \in T
    OBVIOUS
  <2> QED
    BY <2>1, <2>2, Zenon
<1>5. PICK d \in D : \A e \in D : d <= e
  BY <1>4, LeastNat, Zenon
<1>6. PICK m \in T : d = MaxTs - log[m].val.ts
  OBVIOUS
<1>7. \A j \in T : log[j].val.ts <= log[m].val.ts
  <2> TAKE j \in T
  <2>1. MaxTs - log[m].val.ts <= MaxTs - log[j].val.ts
    BY <1>5, <1>6
  <2> QED
    BY <2>1, <1>2, <1>3
<1> DEFINE F == {j \in T : log[j].val.ts = log[m].val.ts}
<1>8. F \subseteq Nat /\ F # {}
  BY <1>1
<1>9. PICK w \in F : \A j \in F : w <= j
  BY <1>8, LeastNat, Zenon
<1>10. \A j \in T : \/ log[j].val.ts < log[w].val.ts
                    \/ log[j].val.ts = log[w].val.ts /\ w <= j
  BY <1>3, <1>7, <1>9
<1>11. w \in ReplayWinners(k, log)
  BY <1>1, <1>10 DEF ReplayWinners
<1> QED
  BY <1>11

\* Replay answers a version at least as new as any record of the key.
LEMMA ReplayedNewest ==
  ASSUME NEW k \in Key, NEW log \in Seq(Record),
         NEW i \in 1 .. Len(log), log[i].key = k
  PROVE  Replayed(k, log) \in Value /\ Replayed(k, log).ts >= log[i].val.ts
<1> DEFINE w == CHOOSE j \in ReplayWinners(k, log) : TRUE
<1>1. w \in ReplayWinners(k, log)
  BY ReplayWinnerExists
<1>2. Replayed(k, log) = [log[w].val EXCEPT !.node = 0]
  BY ReplayWinnerExists DEF Replayed
<1> HIDE DEF w
<1>3. DOMAIN log = 1 .. Len(log)
  BY RecordSeq
<1>4. /\ w \in 1 .. Len(log)
      /\ log[i].val.ts < log[w].val.ts \/ log[i].val.ts = log[w].val.ts
  BY <1>1, <1>3 DEF ReplayWinners
<1>5. log[w].val \in Value /\ log[i].val \in Value /\ 0 \in NodeID
  BY <1>4, RecordSeq, LwwConstants DEF NodeID
<1>6. Replayed(k, log) \in Value /\ Replayed(k, log).ts = log[w].val.ts
  BY <1>2, <1>5 DEF Value
<1>7. log[w].val.ts \in Nat /\ log[i].val.ts \in Nat
  BY <1>5, LwwConstants DEF Value, Timestamp
<1> QED
  BY <1>4, <1>6, <1>7
=============================================================================
