-------------------------- MODULE CoverProofs --------------------------
(***************************************************************************)
(* The steps of goroutines, of the background sync and of Range keep       *)
(* SnapshotCovers.  DurabilityProofs completes the proof.                  *)
(***************************************************************************)
EXTENDS StorageProofs

-----------------------------------------------------------------------------
(* Records in a log.                                                       *)

\* A record is not lost when the log grows or more of it counts.
LEMMA HoldsMonotone ==
  ASSUME NEW log \in Seq(Record), NEW new \in Seq(Record),
         Len(log) <= Len(new), \A i \in 1 .. Len(log) : new[i] = log[i],
         NEW k \in Key, NEW from \in Nat, NEW n \in Nat, NEW ts \in Nat, NEW m \in Nat, n <= m,
         Holds(log, k, from, n, ts)
  PROVE  Holds(new, k, from, m, ts)
<1>1. /\ Len(log) \in Nat /\ DOMAIN log = 1 .. Len(log)
      /\ Len(new) \in Nat /\ DOMAIN new = 1 .. Len(new)
  BY RecordSeq, Zenon
<1>2. PICK i \in 1 .. Len(log) : i > from /\ i <= n /\ log[i].key = k /\ log[i].val.ts >= ts
  BY <1>1, Zenon DEF Holds
<1>3. i \in DOMAIN new /\ new[i] = log[i] /\ i <= m
  BY <1>1, <1>2
<1> QED
  BY <1>2, <1>3, Zenon DEF Holds

\* A smaller boundary, and the whole log, hold as much.
LEMMA HoldsWider ==
  ASSUME NEW log \in Seq(Record), NEW k \in Key, NEW from \in Nat, NEW n \in Nat, NEW ts \in Nat,
         Holds(log, k, from, n, ts)
  PROVE  Holds(log, k, 0, n, ts) /\ Holds(log, k, from, Len(log), ts)
<1>1. Len(log) \in Nat /\ DOMAIN log = 1 .. Len(log)
  BY RecordSeq, Zenon
<1>2. PICK i \in 1 .. Len(log) : i > from /\ i <= n /\ log[i].key = k /\ log[i].val.ts >= ts
  BY <1>1, Zenon DEF Holds
<1>3. i > 0 /\ i <= Len(log)
  BY <1>1, <1>2
<1> QED
  BY <1>1, <1>2, <1>3, Zenon DEF Holds

\* What is appended is behind every boundary within the log.
LEMMA HoldsAppended ==
  ASSUME NEW log \in Seq(Record), NEW r \in Record, NEW from \in Nat, from <= Len(log)
  PROVE  Holds(Append(log, r), r.key, from, Len(Append(log, r)), r.val.ts)
<1> DEFINE new == Append(log, r)
<1>1. /\ new \in Seq(Record) /\ Len(new) = Len(log) + 1 /\ new[Len(log) + 1] = r
  BY AppendProperties, Zenon
<1> HIDE DEF new
<1>2. Len(log) \in Nat /\ DOMAIN new = 1 .. Len(new)
  BY <1>1, RecordSeq, Zenon
<1>3. r.val.ts \in Nat
  BY Versions, Zenon DEF Record
<1>4. Len(log) + 1 \in DOMAIN new /\ Len(log) + 1 > from /\ Len(log) + 1 <= Len(new)
  BY <1>1, <1>2
<1>5. Holds(new, r.key, from, Len(new), r.val.ts)
  BY <1>1, <1>3, <1>4 DEF Holds
<1> QED
  BY <1>5, Zenon DEF new

\* clearSegment keeps what is held behind the boundary.
LEMMA HoldsCleared ==
  ASSUME NEW seg \in Segment, NEW off \in Nat, NEW k \in Key, NEW n \in Nat, NEW ts \in Nat,
         Holds(Flushed(seg), k, off, n, ts)
  PROVE  \/ k \in CutByZero(seg, off)
         \/ Holds(Trailing(seg, off), k, 0, Len(Trailing(seg, off)), ts)
<1> DEFINE log == Flushed(seg)
           new == Trailing(seg, off)
<1>1. log \in Seq(Record) /\ new \in Seq(Record)
  BY FlushedRecords, ClearType, Zenon
<1>2. PICK i \in DOMAIN log : i > off /\ i <= n /\ log[i].key = k /\ log[i].val.ts >= ts
  BY Zenon DEF Holds
<1>3. CASE log[i].key \in CutByZero(seg, off)
  BY <1>2, <1>3, Zenon
<1>4. CASE \E j \in 1 .. Len(new) : new[j] = log[i]
  <2>1. PICK j \in 1 .. Len(new) : new[j] = log[i]
    BY <1>4, Zenon
  <2> HIDE DEF log, new
  <2>2. DOMAIN new = 1 .. Len(new) /\ Len(new) \in Nat
    BY <1>1, RecordSeq, Zenon
  <2>3. Holds(new, k, 0, Len(new), ts)
    BY <1>2, <2>1, <2>2 DEF Holds
  <2> QED
    BY <2>3, Zenon DEF new
<1> QED
  BY <1>2, <1>3, <1>4, ClearKeepsTrailing, Zenon

-----------------------------------------------------------------------------
(* The invariant key by key.                                               *)

\* SnapshotCovers, taken apart: what it says of one key, and of the snapshotter.
KeyCovered(k) ==
  /\ Covered(k, IF ToClear(SegOf[k]) THEN offs[SegOf[k]] ELSE 0, snap[k])
  /\ snp.pc = "range" => WillVisit(k) \/ Covered(k, offs[SegOf[k]], tmp[k])
  /\ snp.next <= k => tmp[k] = NoVal

PhaseOK ==
  /\ snp.pc # "range" => roots = NoRoots /\ snp.next = 1
  /\ \A s \in Seg : (snp.pc = "clear" => ToClear(s)) => offs[s] <= Len(Log(s))

\* The parts make up SnapshotCovers.
LEMMA CoversParts ==
  /\ SnapshotCovers <=> PhaseOK /\ \A k \in Key : KeyCovered(k)
  /\ SnapshotCovers' <=> PhaseOK' /\ \A k \in Key : KeyCovered(k)'
BY Zenon DEF SnapshotCovers, PhaseOK, KeyCovered

\* What TypeOK says of the quantities the invariant compares.
LEMMA Quantities ==
  ASSUME TypeOK
  PROVE  /\ \A s \in Seg : /\ wal[s] \in Segment /\ Flushed(wal[s]) \in Seq(Record)
                           /\ Len(Flushed(wal[s])) \in Nat
                           /\ wal[s].synced \in Nat /\ wal[s].synced <= Len(Flushed(wal[s]))
                           /\ offs[s] \in Nat
         /\ \A k \in Key : /\ SegOf[k] \in Seg
                           /\ mem[k] \in Version /\ snap[k] \in Version /\ tmp[k] \in Version
                           /\ mem[k].ts \in Nat /\ snap[k].ts \in Nat /\ tmp[k].ts \in Nat
<1>1. ASSUME NEW s \in Seg
      PROVE  /\ wal[s] \in Segment /\ Flushed(wal[s]) \in Seq(Record)
             /\ Len(Flushed(wal[s])) \in Nat
             /\ wal[s].synced \in Nat /\ wal[s].synced <= Len(Flushed(wal[s]))
             /\ offs[s] \in Nat
  <2>1. /\ wal[s] \in Segment /\ wal[s].synced <= Len(wal[s].file) /\ offs[s] \in Nat
        /\ wal[s].file \in Seq(Record) /\ wal[s].buf \in Seq(Record) /\ wal[s].synced \in Nat
    BY Zenon DEF TypeOK, Segment
  <2> DEFINE f == Len(wal[s].file)
             b == Len(wal[s].buf)
             n == Len(Flushed(wal[s]))
             y == wal[s].synced
  <2>2. f \in Nat /\ b \in Nat /\ n = f + b /\ y <= f /\ Flushed(wal[s]) \in Seq(Record)
    BY <2>1, RecordSeq, FlushedRecords, Zenon
  <2>3. y \in Nat
    BY <2>1, Zenon
  <2> HIDE DEF f, b, n, y
  <2>4. n \in Nat /\ y <= n
    BY <2>2, <2>3
  <2> QED
    BY <2>1, <2>2, <2>4, Zenon DEF n, y
<1>2. ASSUME NEW k \in Key
      PROVE  /\ SegOf[k] \in Seg
             /\ mem[k] \in Version /\ snap[k] \in Version /\ tmp[k] \in Version
             /\ mem[k].ts \in Nat /\ snap[k].ts \in Nat /\ tmp[k].ts \in Nat
  BY Versions, Constants, Zenon DEF TypeOK
<1> QED
  BY <1>1, <1>2, Zenon

\* Steps of goroutines that touch neither the map nor the log.
LEMMA CoversOpStep ==
  ASSUME SnapshotCovers, UNCHANGED <<mem, wal, snapVars, rangeVars, durable, cut>>,
         \A p \in Proc : op[p].pc = "stored" => op'[p] = op[p]
  PROVE  SnapshotCovers'
<1>p. PhaseOK
  BY CoversParts, Zenon
<1>k. \A k \in Key : KeyCovered(k)
  BY CoversParts, Zenon
<1>1. PhaseOK'
  BY <1>p, Zenon DEF PhaseOK, ToClear, Log, snapVars, rangeVars
<1>2. ASSUME NEW k \in Key PROVE KeyCovered(k)'
  <2>1. Unpublished(k, mem[k]) => Unpublished(k, mem[k])'
    BY Zenon DEF Unpublished
  <2>2. KeyCovered(k)
    BY <1>k, Zenon
  <2> QED
    BY <2>1, <2>2, Zenon
       DEF KeyCovered, Covered, Logged, Log, ToClear, WillVisit, snapVars, rangeVars
<1> QED
  BY <1>1, <1>2, CoversParts, Zenon

\* The map step: a new version is in the hands of the goroutine that will publish it.
LEMMA CoversApply ==
  ASSUME TypeOK, SnapshotCovers, NEW p \in Proc, Apply(p)
  PROVE  SnapshotCovers'
<1>p. PhaseOK
  BY CoversParts, Zenon
<1>k. \A k \in Key : KeyCovered(k)
  BY CoversParts, Zenon
<1> DEFINE o == op[p]
<1>0. OpOK(o) /\ o.pc = "stamped" /\ o.key \in Key /\ op \in [Proc -> OpType]
  BY OpTyping, Zenon DEF Apply, OpOK
<1>1. PhaseOK'
  <2>1. snp.pc # "range" => ~Unlinks(o)
    BY <1>0, <1>p, Zenon DEF PhaseOK, Unlinks, NoRoots
  <2> QED
    BY <2>1, <1>p, Zenon DEF Apply, PhaseOK, ToClear, Log, snapVars
<1>2. \A q \in Proc : op[q].pc = "stored" => op'[q] = op[q]
  BY <1>0, Zenon DEF Apply
<1>3. ASSUME NEW k \in Key, mem'[k] = mem[k], k \in cut <=> k \in cut',
             k \in durable <=> k \in durable', roots'[k] = roots[k]
      PROVE  KeyCovered(k)'
  <2>1. Unpublished(k, mem[k]) => Unpublished(k, mem[k])'
    BY <1>2, <1>3, Zenon DEF Unpublished
  <2>2. KeyCovered(k)
    BY <1>k, Zenon
  <2> QED
    BY <1>3, <2>1, <2>2, Zenon
       DEF Apply, KeyCovered, Covered, Logged, Log, ToClear, WillVisit, snapVars
<1>4. ASSUME NEW k \in Key, k # o.key PROVE KeyCovered(k)'
  <2>1. mem'[k] = mem[k] /\ roots'[k] = roots[k]
    BY <1>0, <1>4, Zenon DEF Apply, TypeOK
  <2> QED
    BY <1>3, <1>4, <2>1, Zenon DEF Apply
<1>5. CASE Stale(o)
  <2>1. AfterApply(o) = mem[o.key] /\ ~Unlinks(o)
    BY <1>5, Zenon DEF Stale, AfterApply, Merge, Unlinks
  <2>2. mem'[o.key] = mem[o.key] /\ roots' = roots /\ cut' = cut /\ durable' = durable
    BY <1>0, <1>5, <2>1, Zenon DEF Apply, TypeOK
  <2> QED
    BY <1>0, <1>1, <1>3, <1>4, <2>2, CoversParts, Zenon
<1>6. CASE ~Stale(o)
  <2>0. PICK k \in Key : k = o.key
    BY <1>0, Zenon
  <2>1. mem'[k] = AfterApply(o) /\ k \notin durable' /\ op'[p] = [o EXCEPT !.pc = "stored"]
    BY <1>0, <1>6, <2>0, Zenon DEF Apply, TypeOK
  <2>2. AfterApply(o) = NoVal \/ AfterApply(o) = o.val
    BY <1>0, <1>6, Zenon DEF AfterApply, Merge, Stale, OpOK, OpType
  <2>3. op'[p].pc = "stored" /\ op'[p].key = k /\ op'[p].val = o.val
    BY <1>0, <2>0, <2>1, Zenon DEF OpOK, OpType
  <2>4. mem'[k] = NoVal \/ Unpublished(k, mem[k])'
    BY <2>1, <2>2, <2>3, Zenon DEF Unpublished
  <2>5. snp.next <= k => tmp[k] = NoVal
    BY <1>0, <1>k, Zenon DEF KeyCovered
  <2>6. KeyCovered(k)'
    BY <2>1, <2>4, <2>5, Zenon DEF Apply, KeyCovered, Covered, snapVars
  <2> QED
    BY <1>1, <1>4, <2>0, <2>6, CoversParts, Zenon
<1> QED
  BY <1>5, <1>6, Zenon

\* Publish: the version moves from the goroutine to the end of the log.
LEMMA CoversPublish ==
  ASSUME TypeOK, SnapshotCovers, NEW p \in Proc, PublishRecord(p)
  PROVE  SnapshotCovers'
<1>p. PhaseOK
  BY CoversParts, Zenon
<1>k. \A k \in Key : KeyCovered(k)
  BY CoversParts, Zenon
<1>0. PICK key \in Key, val \in Value :
         op[p].key = key /\ op[p].val = val /\ op[p].pc = "stored" /\ op \in [Proc -> OpType]
  BY OpTyping, Zenon DEF PublishRecord, OpOK
<1> DEFINE r == [key |-> key, val |-> val]
           z == SegOf[key]
<1>1. z \in Seg /\ r \in Record /\ r.key = key /\ r.val = val
  BY Constants, Zenon DEF Record
<1>2. PICK seg \in Publish(wal[z], r, MayOverflow) : wal' = [wal EXCEPT ![z] = seg]
  BY <1>0, Zenon DEF PublishRecord
<1> HIDE DEF r
<1>3. seg.synced = wal[z].synced /\ Flushed(seg) = Append(Flushed(wal[z]), r)
  BY <1>1, <1>2, Constants, Quantities, PublishAppends
<1>4. \A s \in Seg : s # z => wal'[s] = wal[s]
  BY <1>2, Zenon DEF TypeOK
<1>5. wal'[z] = seg
  BY <1>1, <1>2, Zenon DEF TypeOK
<1>6. ASSUME NEW s \in Seg
      PROVE  /\ wal'[s].synced = wal[s].synced
             /\ Flushed(wal'[s]) \in Seq(Record)
             /\ Len(Flushed(wal[s])) <= Len(Flushed(wal'[s]))
             /\ Len(Flushed(wal'[s])) \in Nat
             /\ \A i \in 1 .. Len(Flushed(wal[s])) : Flushed(wal'[s])[i] = Flushed(wal[s])[i]
  <2> DEFINE log == Flushed(wal[s])
  <2>1. log \in Seq(Record) /\ Len(log) \in Nat
    BY Quantities, Zenon
  <2>2. CASE s # z
    BY <1>4, <2>1, <2>2
  <2>3. CASE s = z
    <3> HIDE DEF log
    <3>1. /\ Append(log, r) \in Seq(Record) /\ Len(Append(log, r)) = Len(log) + 1
          /\ \A i \in 1 .. Len(log) : Append(log, r)[i] = log[i]
      BY <1>1, <2>1, AppendProperties
    <3>2. Len(log) <= Len(Append(log, r)) /\ Len(Append(log, r)) \in Nat
      BY <2>1, <3>1
    <3>3. Flushed(wal'[s]) = Append(log, r) /\ wal'[s].synced = wal[s].synced
      BY <1>3, <1>5, <2>3, Zenon DEF log
    <3> QED
      BY <3>1, <3>2, <3>3, Zenon DEF log
  <2> QED
    BY <2>2, <2>3, Zenon
<1>7. PhaseOK'
  <2>1. ASSUME NEW s \in Seg, offs[s] <= Len(Flushed(wal[s]))
        PROVE  offs[s] <= Len(Flushed(wal'[s]))
    BY <1>6, <2>1, Quantities
  <2> QED
    BY <2>1, <1>p, Zenon DEF PublishRecord, PhaseOK, ToClear, Log, snapVars, rangeVars
<1>8. ASSUME NEW k \in Key PROVE KeyCovered(k)'
  <2> DEFINE s == SegOf[k]
             log == Flushed(wal[s])
             new == Flushed(wal'[s])
             n == IF k \in durable THEN wal[s].synced ELSE Len(log)
             m == IF k \in durable THEN wal'[s].synced ELSE Len(new)
             ts == mem[k].ts
  <2>1. /\ s \in Seg /\ log \in Seq(Record) /\ Len(log) \in Nat
        /\ n \in Nat /\ ts \in Nat /\ offs[s] \in Nat
    BY Quantities, Zenon
  <2>2. /\ new \in Seq(Record) /\ Len(log) <= Len(new) /\ m \in Nat /\ n <= m
        /\ \A i \in 1 .. Len(log) : new[i] = log[i]
    BY <1>6, <2>1, Quantities
  <2>3. \A from \in Nat : Holds(log, k, from, n, ts) => Holds(new, k, from, m, ts)
    <3> HIDE DEF log, new, n, m, ts
    <3> QED
      BY <2>1, <2>2, HoldsMonotone, Zenon
  <2>4. \A from \in Nat : from <= Len(log) /\ k \notin durable /\ Unpublished(k, mem[k])
                            => Unpublished(k, mem[k])' \/ Holds(new, k, from, m, ts)
    <3> SUFFICES ASSUME NEW from \in Nat, from <= Len(log), k \notin durable,
                        Unpublished(k, mem[k]), ~Unpublished(k, mem[k])'
                 PROVE  Holds(new, k, from, m, ts)
      OBVIOUS
    <3>1. PICK q \in Proc : op[q].pc = "stored" /\ op[q].key = k /\ op[q].val = mem[k]
      BY Zenon DEF Unpublished
    <3>2. q = p
      BY <1>0, <3>1, Zenon DEF Unpublished, PublishRecord, TypeOK
    <3>3. k = key /\ mem[k] = val
      BY <1>0, <3>1, <3>2, Zenon
    <3>4. new = Append(log, r) /\ m = Len(new) /\ r.key = k /\ r.val.ts = ts
      BY <1>1, <1>3, <1>5, <3>3, Zenon
    <3> HIDE DEF log, new, n, m, ts
    <3> QED
      BY <1>1, <2>1, <3>4, HoldsAppended, Zenon
  <2>5. /\ ToClear(s) => offs[s] <= Len(log)
        /\ snp.pc = "range" => offs[s] <= Len(log)
    BY <2>1, <1>p, Zenon DEF PhaseOK, Log, ToClear
  <2>6. 0 <= Len(log)
    BY <2>1
  <2>7. KeyCovered(k)
    BY <1>k, Zenon
  <2> HIDE DEF n, m, log, new, ts
  <2>8. ASSUME NEW from \in Nat, from <= Len(log), NEW v, Covered(k, from, v)
        PROVE  \/ mem[k] = NoVal \/ k \in cut
               \/ v.ts >= ts
               \/ Holds(new, k, from, m, ts)
               \/ k \notin durable /\ Unpublished(k, mem[k])'
    BY <2>3, <2>4, <2>8, Zenon DEF Covered, Logged, Log, n, log, ts
  <2> QED
    BY <2>1, <2>5, <2>6, <2>7, <2>8, Zenon
       DEF PublishRecord, KeyCovered, Covered, Logged, Log, ToClear, WillVisit, snapVars, rangeVars,
           n, m, log, new, ts
<1> QED
  BY <1>7, <1>8, CoversParts, Zenon

\* backgroundSync: the whole log becomes its fsynced part.
LEMMA CoversSync ==
  ASSUME TypeOK, SnapshotCovers, NEW z \in Seg, BackgroundSync(z), wal[z].buf # << >>
  PROVE  SnapshotCovers'
<1>p. PhaseOK
  BY CoversParts, Zenon
<1>k. \A k \in Key : KeyCovered(k)
  BY CoversParts, Zenon
<1>1. /\ wal' = [wal EXCEPT ![z] = Sync(Flush(wal[z]))]
      /\ durable' = durable \cup Synced(z, wal'[z])
      /\ mem' = mem /\ op' = op /\ cut' = cut
      /\ snap' = snap /\ snp' = snp /\ offs' = offs /\ tmp' = tmp /\ roots' = roots
  BY Zenon DEF BackgroundSync, snapVars, rangeVars
<1>2. /\ \A s \in Seg : s # z => wal'[s] = wal[s]
      /\ wal'[z] = Sync(Flush(wal[z]))
  BY <1>1, Zenon DEF TypeOK
<1>3. /\ wal'[z].synced = Len(Flushed(wal[z]))
      /\ Flushed(wal'[z]) = Flushed(wal[z])
  BY <1>2, Quantities, SyncType, Zenon
<1>4. \A s \in Seg : Flushed(wal'[s]) = Flushed(wal[s])
  BY <1>2, <1>3, Zenon
<1>5. PhaseOK'
  BY <1>1, <1>4, <1>p, Zenon DEF PhaseOK, ToClear, Log
<1>6. ASSUME NEW k \in Key PROVE KeyCovered(k)'
  <2> DEFINE s == SegOf[k]
             log == Flushed(wal[s])
             n == IF k \in durable THEN wal[s].synced ELSE Len(log)
             m == IF k \in durable' THEN wal'[s].synced ELSE Len(log)
             ts == mem[k].ts
  <2>1. s \in Seg /\ log \in Seq(Record) /\ n \in Nat /\ ts \in Nat /\ offs[s] \in Nat
    BY Quantities, Zenon
  <2>2. n = m \/ m = Len(log)
    <3>1. CASE s = z
      BY <1>3, <3>1, Zenon
    <3>2. CASE s # z
      <4>1. k \in durable' <=> k \in durable
        BY <1>1, <3>2, Zenon DEF Synced
      <4> QED
        BY <1>2, <2>1, <3>2, <4>1, Zenon
    <3> QED
      BY <3>1, <3>2, Zenon
  <2>3. \A from \in Nat : Holds(log, k, from, n, ts) => Holds(log, k, from, m, ts)
    <3> HIDE DEF log, n, m, ts
    <3> QED
      BY <2>1, <2>2, HoldsWider, Zenon
  <2>4. k \notin durable /\ Unpublished(k, mem[k]) => k \notin durable' /\ Unpublished(k, mem[k])'
    BY <1>1, Zenon DEF Synced, Unpublished
  <2>5. KeyCovered(k)
    BY <1>k, Zenon
  <2> HIDE DEF n, m, log, ts
  <2>6. ASSUME NEW from \in Nat, NEW v, Covered(k, from, v)
        PROVE  \/ mem[k] = NoVal \/ k \in cut
               \/ v.ts >= ts
               \/ Holds(log, k, from, m, ts)
               \/ k \notin durable' /\ Unpublished(k, mem[k])'
    BY <2>3, <2>4, <2>6, Zenon DEF Covered, Logged, Log, n, log, ts
  <2> QED
    BY <1>1, <1>4, <2>1, <2>5, <2>6
       DEF KeyCovered, Covered, Logged, Log, ToClear, WillVisit, n, m, log, ts
<1> QED
  BY <1>5, <1>6, CoversParts, Zenon

\* Steps of Create that change neither map, log contents nor snapshot file.
LEMMA CoversPrepare ==
  ASSUME TypeOK, SnapshotCovers, CreateSnapshot \/ PrepareSegment
  PROVE  SnapshotCovers'
<1>p. PhaseOK
  BY CoversParts, Zenon
<1>k. \A k \in Key : KeyCovered(k)
  BY CoversParts, Zenon
<1>1. /\ mem' = mem /\ op' = op /\ snap' = snap /\ tmp' = tmp /\ roots' = roots
      /\ durable' = durable /\ cut' = cut
      /\ snp.pc # "range" /\ snp.pc # "clear" /\ snp'.pc # "clear" /\ snp'.next = 1
      /\ snp.next = 1 /\ roots = NoRoots
  BY <1>p, Zenon DEF CreateSnapshot, PrepareSegment, IdleSnapshotter, PhaseOK, rangeVars, TypeOK
<1>2. ASSUME NEW s \in Seg
      PROVE  /\ Flushed(wal'[s]) = Flushed(wal[s]) /\ wal'[s].synced = wal[s].synced
             /\ offs'[s] <= Len(Flushed(wal[s]))
  <2>1. offs[s] <= Len(Flushed(wal[s])) /\ Len(Flushed(wal[s])) \in Nat
    BY <1>1, <1>p, Quantities, Zenon DEF PhaseOK, Log
  <2>2. CASE CreateSnapshot
    BY <2>1, <2>2, Zenon DEF CreateSnapshot
  <2>3. CASE PrepareSegment /\ s # snp.seg
    BY <2>1, <2>3, Zenon DEF PrepareSegment, TypeOK
  <2>4. CASE PrepareSegment /\ s = snp.seg
    <3>1. wal'[s] = Flush(wal[s]) /\ offs'[s] = Len(Flushed(wal[s]))
      BY <2>4, Zenon DEF PrepareSegment, TypeOK, Boundary
    <3>2. Flushed(Flush(wal[s])) = Flushed(wal[s]) /\ Flush(wal[s]).synced = wal[s].synced
      BY Quantities, FlushType, Zenon
    <3> QED
      BY <2>1, <3>1, <3>2
  <2> QED
    BY <2>2, <2>3, <2>4, Zenon
<1>3. PhaseOK'
  BY <1>1, <1>2, Zenon DEF PhaseOK, Log
<1>4. ASSUME NEW k \in Key PROVE KeyCovered(k)'
  <2>1. KeyCovered(k) /\ SegOf[k] \in Seg /\ k >= 1
    BY <1>k, Constants DEF Key
  <2>2. Unpublished(k, mem[k]) => Unpublished(k, mem[k])'
    BY <1>1, Zenon DEF Unpublished
  <2>3. WillVisit(k)'
    BY <1>1, <2>1, Zenon DEF WillVisit, NoRoots
  <2>4. tmp[k] = NoVal
    BY <1>1, <2>1, Zenon DEF KeyCovered
  <2> QED
    BY <1>1, <1>2, <2>1, <2>2, <2>3, <2>4, Zenon DEF KeyCovered, Covered, Logged, Log, ToClear
<1> QED
  BY <1>3, <1>4, CoversParts, Zenon

\* Range copies the roots of a shard: what it will not find there is not in the map.
LEMMA CoversCopy ==
  ASSUME TypeOK, SnapshotCovers, CopyRoots
  PROVE  SnapshotCovers'
<1>p. PhaseOK
  BY CoversParts, Zenon
<1>k. \A k \in Key : KeyCovered(k)
  BY CoversParts, Zenon
<1>1. /\ UNCHANGED <<mem, op, wal, snap, snp, offs, tmp, durable, cut>> /\ snp.pc = "range"
      /\ \A k \in Key : \/ roots'[k] = roots[k]
                        \/ roots'[k] = "live"
                        \/ mem[k] = NoVal
  BY Zenon DEF CopyRoots, Ranging, snapVars
<1>2. PhaseOK'
  BY <1>1, <1>p, Zenon DEF PhaseOK, ToClear, Log
<1>3. ASSUME NEW k \in Key PROVE KeyCovered(k)'
  <2>1. KeyCovered(k)
    BY <1>k, Zenon
  <2>2. Unpublished(k, mem[k]) => Unpublished(k, mem[k])'
    BY <1>1, Zenon DEF Unpublished
  <2>3. WillVisit(k) => WillVisit(k)' \/ mem[k] = NoVal
    BY <1>1, Zenon DEF WillVisit
  <2> QED
    BY <1>1, <2>1, <2>2, <2>3, Zenon DEF KeyCovered, Covered, Logged, Log, ToClear
<1> QED
  BY <1>2, <1>3, CoversParts, Zenon

\* Range reads an entry: the file being written has the version the map has now.
LEMMA CoversVisit ==
  ASSUME TypeOK, SnapshotCovers, Visit
  PROVE  SnapshotCovers'
<1>p. PhaseOK
  BY CoversParts, Zenon
<1>k. \A k \in Key : KeyCovered(k)
  BY CoversParts, Zenon
<1>1. /\ UNCHANGED <<mem, op, wal, snap, offs, roots, durable, cut>> /\ snp.pc = "range"
      /\ snp'.pc = "range" /\ snp'.seg = snp.seg /\ snp'.next = snp.next + 1
      /\ snp.next \in Key /\ snp.next \in Nat /\ roots[snp.next] # "uncopied"
      /\ tmp' = [tmp EXCEPT ![snp.next] = Reached(snp.next)]
  BY Constants DEF Visit, Ranging, rangeVars, TypeOK, Key
<1>2. PhaseOK'
  BY <1>1, <1>p, Zenon DEF PhaseOK, ToClear, Log
<1>3. ASSUME NEW k \in Key PROVE KeyCovered(k)'
  <2>1. KeyCovered(k) /\ k \in Nat
    BY <1>k, Constants DEF Key
  <2>2. Unpublished(k, mem[k]) => Unpublished(k, mem[k])'
    BY <1>1, Zenon DEF Unpublished
  <2>3. CASE k # snp.next
    <3>1. tmp'[k] = tmp[k] /\ (WillVisit(k) => WillVisit(k)') /\ (snp'.next <= k => snp.next <= k)
      BY <1>1, <2>1, <2>3 DEF TypeOK, WillVisit
    <3> QED
      BY <1>1, <2>1, <2>2, <3>1, Zenon DEF KeyCovered, Covered, Logged, Log, ToClear
  <2>4. CASE k = snp.next
    <3>1. tmp[k] = NoVal /\ tmp'[k] = Reached(k) /\ ~(snp'.next <= k)
      BY <1>1, <2>1, <2>4 DEF TypeOK, KeyCovered
    <3>2. mem[k].ts \in Nat /\ mem[k] \in Version /\ NoVal.ts = 0
      BY Quantities, Versions, Zenon
    <3>3. WillVisit(k) => tmp'[k] = mem[k]
      BY <1>1, <2>4, <3>1, Zenon DEF WillVisit, Reached
    <3>4. NoVal.ts >= mem[k].ts => mem[k] = NoVal
      BY <3>2, Versions
    <3>5. mem[k].ts >= mem[k].ts
      BY <3>2
    <3> QED
      BY <1>1, <2>1, <2>2, <3>1, <3>3, <3>4, <3>5, Zenon DEF KeyCovered, Covered, Logged, Log, ToClear
  <2> QED
    BY <2>3, <2>4, Zenon
<1> QED
  BY <1>2, <1>3, CoversParts, Zenon
=============================================================================
