------------------------- MODULE DurabilityProofs -------------------------
(***************************************************************************)
(* SnapshotCovers is an invariant of the storage engine, and Durability    *)
(* and RecoveryKeepsDurable follow from it.                                *)
(***************************************************************************)
EXTENDS CoverProofs

\* Rename: the file just written takes the place of the snapshot.
LEMMA CoversRename ==
  ASSUME TypeOK, SnapshotCovers, Rename
  PROVE  SnapshotCovers'
<1>p. PhaseOK
  BY CoversParts, Zenon
<1>k. \A k \in Key : KeyCovered(k)
  BY CoversParts, Zenon
<1>1. /\ UNCHANGED <<mem, op, wal, offs>> /\ snp.pc = "range" /\ snp.next > NKeys
      /\ snap' = tmp /\ tmp' = NoEntries /\ roots' = NoRoots
      /\ snp'.pc = "clear" /\ snp'.seg = 1 /\ snp'.next = 1
      /\ cut' = {k \in cut : tmp[k].ts < mem[k].ts}
      /\ durable' = durable \cup {k \in Key : mem[k] # NoVal /\ tmp[k] = mem[k]}
  BY Zenon DEF Rename, IdleSnapshotter
<1>2. PhaseOK'
  BY <1>1, <1>p, Zenon DEF PhaseOK, ToClear, Log
<1>3. ASSUME NEW k \in Key PROVE KeyCovered(k)'
  <2>1. KeyCovered(k) /\ ~WillVisit(k) /\ SegOf[k] \in Seg
    BY <1>1, <1>k, Constants DEF WillVisit, Key, TypeOK
  <2>2. Covered(k, offs[SegOf[k]], tmp[k])
    BY <1>1, <2>1, Zenon DEF KeyCovered
  <2>3. tmp[k].ts \in Nat /\ mem[k].ts \in Nat
    BY Quantities, Zenon
  <2>4. ToClear(SegOf[k])'
    BY <1>1, <2>1, Constants DEF ToClear, Seg
  <2>5. Unpublished(k, mem[k]) => Unpublished(k, mem[k])'
    BY <1>1, Zenon DEF Unpublished
  <2>6. CASE tmp[k].ts >= mem[k].ts
    BY <1>1, <2>6, Zenon DEF KeyCovered, Covered, NoEntries
  <2>7. CASE ~(tmp[k].ts >= mem[k].ts)
    <3>1. (k \in cut' <=> k \in cut) /\ (k \in durable' <=> k \in durable)
      BY <1>1, <2>3, <2>7
    <3> QED
      BY <1>1, <2>2, <2>4, <2>5, <2>7, <3>1, Zenon DEF KeyCovered, Covered, Logged, Log, NoEntries
  <2> QED
    BY <2>6, <2>7, Zenon
<1> QED
  BY <1>2, <1>3, CoversParts, Zenon

\* Clear cuts one segment at its boundary.
LEMMA CoversClear ==
  ASSUME TypeOK, SnapshotCovers, ClearOne
  PROVE  SnapshotCovers'
<1>p. PhaseOK
  BY CoversParts, Zenon
<1>k. \A k \in Key : KeyCovered(k)
  BY CoversParts, Zenon
<1>0. PICK z \in Seg : z = snp.seg
  BY Zenon DEF TypeOK
<1>1. /\ UNCHANGED <<mem, op, snap, tmp, roots>> /\ snp.pc = "clear"
      /\ snp.next = 1 /\ roots = NoRoots /\ snp'.next = 1 /\ snp'.pc # "range"
      /\ z = NSegs => snp'.pc = "idle" /\ offs' = NoOffsets
      /\ z # NSegs => snp'.pc = "clear" /\ snp'.seg = z + 1 /\ offs' = offs
      /\ wal'[z] = clearSegment(wal[z], offs[z])
      /\ \A s \in Seg : s # z => wal'[s] = wal[s]
  BY <1>0, <1>p, Zenon DEF ClearOne, IdleSnapshotter, PhaseOK, rangeVars, TypeOK
<1>2. /\ \A k \in Key : k \in cut => k \in cut'
      /\ \A k \in Key : SegOf[k] = z /\ k \in CutByZero(wal[z], offs[z]) => k \in cut'
      /\ \A k \in Key : SegOf[k] # z => (k \in durable' <=> k \in durable)
      /\ \A k \in Key : k \in durable' => k \in durable \/ ~Unpublished(k, mem[k])
  BY <1>0, Zenon DEF ClearOne, Synced
<1>3. PhaseOK'
  <2>1. ASSUME NEW s \in Seg, snp'.pc = "clear" => ToClear(s)'
        PROVE  offs'[s] <= Len(Log(s)')
    <3>1. CASE z = NSegs
      <4>1. Flushed(wal'[s]) \in Seq(Record)
        <5>1. wal[z] \in Segment /\ offs[z] \in Nat /\ Flushed(wal[s]) \in Seq(Record)
          BY Quantities, Zenon
        <5>2. Flushed(wal'[z]) \in Seq(Record)
          BY <1>1, <5>1, ClearType, Zenon
        <5> QED
          BY <1>1, <5>1, <5>2, Zenon
      <4>2. Len(Flushed(wal'[s])) \in Nat
        BY <4>1, RecordSeq, Zenon
      <4> QED
        BY <1>1, <3>1, <4>2 DEF Log, NoOffsets
    <3>2. CASE z # NSegs
      <4>1. s # z /\ ToClear(s)
        BY <1>0, <1>1, <2>1, <3>2, Constants DEF ToClear, Seg
      <4>2. offs[s] <= Len(Flushed(wal[s]))
        BY <4>1, <1>p, Zenon DEF PhaseOK, Log
      <4> QED
        BY <1>1, <3>2, <4>1, <4>2, Zenon DEF Log
    <3> QED
      BY <3>1, <3>2, Zenon
  <2> QED
    BY <1>1, <2>1, Zenon DEF PhaseOK
<1>4. ASSUME NEW k \in Key PROVE KeyCovered(k)'
  <2>1. KeyCovered(k) /\ tmp[k] = NoVal /\ SegOf[k] \in Seg /\ k \in Nat /\ k >= 1
    BY <1>1, <1>k, Constants DEF KeyCovered, Key
  <2>2. Unpublished(k, mem[k]) <=> Unpublished(k, mem[k])'
    BY <1>1, Zenon DEF Unpublished
  <2>3. CASE SegOf[k] # z
    <3>1. /\ ToClear(SegOf[k])' <=> ToClear(SegOf[k])
          /\ ToClear(SegOf[k]) => offs'[SegOf[k]] = offs[SegOf[k]]
      BY <1>0, <1>1, <2>1, <2>3, Constants DEF ToClear, Seg
    <3>2. wal'[SegOf[k]] = wal[SegOf[k]] /\ (k \in durable' <=> k \in durable)
      BY <1>1, <1>2, <2>1, <2>3, Zenon
    <3> QED
      BY <1>1, <1>2, <2>1, <2>2, <3>1, <3>2, Zenon DEF KeyCovered, Covered, Logged, Log
  <2>4. CASE SegOf[k] = z
    <3>1. ToClear(z) /\ ~ToClear(z)'
      BY <1>0, <1>1, Constants DEF ToClear, Seg
    <3>2. Covered(k, offs[z], snap[k])
      BY <2>1, <2>4, <3>1, Zenon DEF KeyCovered
    <3> DEFINE new == Trailing(wal[z], offs[z])
               n == IF k \in durable THEN wal[z].synced ELSE Len(Flushed(wal[z]))
    <3>3. /\ Flushed(wal'[z]) = new /\ wal'[z].synced = Len(new)
          /\ wal[z] \in Segment /\ offs[z] \in Nat /\ n \in Nat /\ mem[k].ts \in Nat
      <4>1. wal[z] \in Segment /\ offs[z] \in Nat /\ n \in Nat /\ mem[k].ts \in Nat
        BY Quantities, Zenon
      <4>2. Flushed(wal'[z]) = new /\ wal'[z].synced = Len(new)
        BY <1>1, <4>1, ClearType, Zenon
      <4> QED
        BY <4>1, <4>2, Zenon
    <3>4. Holds(Flushed(wal[z]), k, offs[z], n, mem[k].ts)
            => k \in CutByZero(wal[z], offs[z]) \/ Holds(new, k, 0, Len(new), mem[k].ts)
      <4> HIDE DEF new, n
      <4> QED
        BY <3>3, HoldsCleared, Zenon DEF new
    <3>5. \/ mem[k] = NoVal \/ k \in cut'
          \/ snap[k].ts >= mem[k].ts
          \/ Holds(new, k, 0, Len(new), mem[k].ts)
          \/ k \notin durable' /\ Unpublished(k, mem[k])'
      BY <1>2, <2>2, <2>4, <3>2, <3>4, Zenon DEF Covered, Logged, Log
    <3> HIDE DEF new, n
    <3> QED
      BY <1>1, <2>1, <2>4, <3>1, <3>3, <3>5, Zenon DEF KeyCovered, Covered, Logged, Log
  <2> QED
    BY <2>3, <2>4, Zenon
<1> QED
  BY <1>3, <1>4, CoversParts, Zenon

\* Create gives up: what was covered behind the boundaries is covered by the whole log.
LEMMA CoversFail ==
  ASSUME TypeOK, SnapshotCovers, SnapshotFails
  PROVE  SnapshotCovers'
<1>p. PhaseOK
  BY CoversParts, Zenon
<1>k. \A k \in Key : KeyCovered(k)
  BY CoversParts, Zenon
<1>1. /\ UNCHANGED <<mem, op, wal, snap, durable, cut>>
      /\ snp'.pc = "idle" /\ snp'.next = 1 /\ offs' = NoOffsets /\ roots' = NoRoots
      /\ tmp' = NoEntries
  BY Zenon DEF SnapshotFails, DropSnapshotter, IdleSnapshotter
<1>2. PhaseOK'
  BY <1>1, Quantities DEF PhaseOK, Log, NoOffsets
<1>3. ASSUME NEW k \in Key PROVE KeyCovered(k)'
  <2> DEFINE s == SegOf[k]
             log == Flushed(wal[s])
             n == IF k \in durable THEN wal[s].synced ELSE Len(log)
             from == IF ToClear(s) THEN offs[s] ELSE 0
  <2>1. /\ KeyCovered(k) /\ log \in Seq(Record) /\ n \in Nat /\ mem[k].ts \in Nat
        /\ from \in Nat
    BY <1>k, Quantities, Zenon
  <2>2. Unpublished(k, mem[k]) => Unpublished(k, mem[k])'
    BY <1>1, Zenon DEF Unpublished
  <2>3. Holds(log, k, from, n, mem[k].ts) => Holds(log, k, 0, n, mem[k].ts)
    <3> HIDE DEF log, n, from
    <3> QED
      BY <2>1, HoldsWider, Zenon
  <2> QED
    BY <1>1, <2>1, <2>2, <2>3, Zenon DEF KeyCovered, Covered, Logged, Log, ToClear, NoEntries
<1> QED
  BY <1>2, <1>3, CoversParts, Zenon

\* What a crash and the recovery after it leave, as facts about the new state.
LEMMA CrashFacts ==
  ASSUME TypeOK, CrashAndRecover
  PROVE  /\ snap' = snap /\ snp' = IdleSnapshotter /\ offs' = NoOffsets /\ roots' = NoRoots
         /\ tmp' = NoEntries /\ cut' = {}
         /\ \A s \in Seg : /\ wal'[s] \in Segment
                           /\ wal'[s].synced \in wal[s].synced .. Len(wal[s].file)
                           /\ Len(wal'[s].file) = wal'[s].synced
                           /\ Flushed(wal'[s]) = wal'[s].file
                           /\ \A i \in 1 .. wal'[s].synced : wal'[s].file[i] = wal[s].file[i]
         /\ DisableSnapshot => mem' = [k \in Key |-> NoVal]
         /\ ~DisableSnapshot =>
              \E sticky \in SUBSET StickyTombstones : mem' = Recovered(wal', sticky)
<1>1. /\ snap' = snap /\ cut' = {} /\ DropSnapshotter
      /\ DisableSnapshot => mem' = [k \in Key |-> NoVal]
      /\ ~DisableSnapshot =>
              \E sticky \in SUBSET StickyTombstones : mem' = Recovered(wal', sticky)
  BY Zenon DEF CrashAndRecover
<1>2. \E kept \in [Seg -> UNION {wal[s].synced .. Len(wal[s].file) : s \in Seg}] :
           /\ \A s \in Seg : kept[s] \in wal[s].synced .. Len(wal[s].file)
           /\ \E cutShort \in SUBSET {s \in Seg : /\ MayOverflow
                                                  /\ wal[s].torn \/ kept[s] < Len(wal[s].file)} :
                wal' = [s \in Seg |-> Crashed(wal[s], kept[s], s \in cutShort)]
  BY Zenon DEF CrashAndRecover
<1>3. WalOK
  BY TypeParts, Zenon
<1>4. \A s \in Seg : /\ wal'[s].synced \in wal[s].synced .. Len(wal[s].file)
                     /\ Len(wal'[s].file) = wal'[s].synced
                     /\ Flushed(wal'[s]) = wal'[s].file
                     /\ \A i \in 1 .. wal'[s].synced : wal'[s].file[i] = wal[s].file[i]
  BY <1>2, <1>3, CrashedWal, Zenon
<1>5. \A s \in Seg : wal'[s] \in Segment
  BY <1>2, <1>3, CrashedWal, Zenon DEF WalOK
<1> QED
  BY <1>1, <1>4, <1>5, Zenon DEF DropSnapshotter

\* Recovery keeps exactly what the snapshot and the surviving log hold.
LEMMA CoversCrash ==
  ASSUME TypeOK, SnapshotCovers, CrashAndRecover
  PROVE  SnapshotCovers'
<1>1. /\ snap' = snap /\ snp'.pc = "idle" /\ snp'.next = 1 /\ offs' = NoOffsets
      /\ roots' = NoRoots /\ tmp' = NoEntries
  BY CrashFacts DEF IdleSnapshotter
<1>2. \A s \in Seg : wal'[s].synced \in Nat /\ Len(Flushed(wal'[s])) = wal'[s].synced
                     /\ wal'[s].file \in Seq(Record)
  BY CrashFacts, Zenon DEF Segment
<1>3. PhaseOK'
  BY <1>1, <1>2 DEF PhaseOK, Log, NoOffsets
<1>4. ASSUME NEW k \in Key PROVE KeyCovered(k)'
  <2>1. tmp'[k] = NoVal /\ ~ToClear(SegOf[k])' /\ snp'.pc # "range" /\ SegOf[k] \in Seg
    BY <1>1, Constants, Zenon DEF NoEntries, ToClear
  <2>2. SUFFICES \/ mem'[k] = NoVal
                 \/ snap[k].ts >= mem'[k].ts
                 \/ Holds(Flushed(wal'[SegOf[k]]), k, 0, wal'[SegOf[k]].synced, mem'[k].ts)
    BY <1>1, <1>2, <2>1, Zenon DEF KeyCovered, Covered, Logged, Log
  <2>3. CASE DisableSnapshot
    BY <2>3, CrashFacts, Zenon
  <2>4. CASE ~DisableSnapshot
    <3> DEFINE log == wal'[SegOf[k]].file
    <3>1. PICK sticky \in SUBSET StickyTombstones : mem' = Recovered(wal', sticky)
      BY <2>4, CrashFacts, Zenon
    <3>2. snap \in [Key -> Version] /\ snap[k].ts \in Nat
      BY Quantities, Zenon DEF TypeOK
    <3>3. Decoded(k, sticky).ts = snap[k].ts
      <4>1. wal \in [Seg -> Segment]
        BY Zenon DEF TypeOK
      <4> QED
        BY <3>2, <4>1, RecoveredType, Zenon
    <3>4. mem'[k] \in {Decoded(k, sticky), Replayed(k, log)}
      BY <3>1, Zenon DEF Recovered, Merge
    <3>5. CASE mem'[k] = Decoded(k, sticky)
      BY <3>2, <3>3, <3>5
    <3>6. CASE mem'[k] = Replayed(k, log) /\ mem'[k] # NoVal
      <4>1. log \in Seq(Record) /\ Flushed(wal'[SegOf[k]]) = log
            /\ Len(log) = wal'[SegOf[k]].synced
        BY <1>2, <2>1, CrashFacts, Zenon
      <4> HIDE DEF log
      <4>2. PICK i \in 1 .. Len(log) : log[i].key = k /\ log[i].val.ts = mem'[k].ts
        BY <3>6, <4>1, ReplayedFromLog
      <4>3. log[i].val.ts \in Nat /\ DOMAIN log = 1 .. Len(log) /\ Len(log) \in Nat
        BY <4>1, <4>2, RecordSeq, Versions, Zenon DEF Record, Version
      <4>4. Holds(log, k, 0, Len(log), mem'[k].ts)
        BY <4>2, <4>3 DEF Holds
      <4> QED
        BY <4>1, <4>4, Zenon
    <3> QED
      BY <3>4, <3>5, <3>6, Zenon
  <2> QED
    BY <2>3, <2>4, Zenon
<1> QED
  BY <1>3, <1>4, CoversParts, Zenon

\* The empty store is covered.
LEMMA CoversInit == Init => SnapshotCovers
<1> SUFFICES ASSUME Init PROVE SnapshotCovers
  OBVIOUS
<1>1. TypeOK
  BY InitType, Zenon
<1>2. PhaseOK
  BY <1>1, Quantities DEF Init, IdleSnapshotter, PhaseOK, Log, NoOffsets
<1>3. \A k \in Key : KeyCovered(k)
  BY Zenon DEF Init, IdleSnapshotter, KeyCovered, Covered, NoEntries
<1> QED
  BY <1>2, <1>3, CoversParts, Zenon

\* SnapshotCovers is inductive, given the type invariant: no step of a writer, the
\* evictor, the sync ticker, the snapshotter or a recovery breaks it.
LEMMA CoversNext == TypeOK /\ SnapshotCovers /\ [Next]_vars => SnapshotCovers'
<1> SUFFICES ASSUME TypeOK, SnapshotCovers, [Next]_vars PROVE SnapshotCovers'
  OBVIOUS
<1>0. op \in [Proc -> OpType]
  BY TypeParts, Zenon DEF OpsOK
<1>1. ASSUME NEW p \in Proc, NEW kind, NEW k, NEW v, Begin(p, kind, k, v)
      PROVE  \A q \in Proc : op[q].pc = "stored" => op'[q] = op[q]
  BY <1>0, <1>1, Zenon DEF Begin
<1>2. ASSUME NEW p \in Writer, NEW k \in Key, NEW d \in Data, Set(p, k, d)
      PROVE  SnapshotCovers'
  BY <1>1, <1>2, CoversOpStep, Zenon DEF Set, Proc
<1>3. ASSUME NEW p \in Writer, NEW k \in Key, DeleteLoad(p, k)
      PROVE  SnapshotCovers'
  <2>1. \A q \in Proc : op[q].pc = "stored" => op'[q] = op[q]
    BY <1>0, <1>3, Zenon DEF DeleteLoad
  <2> QED
    BY <1>3, <2>1, CoversOpStep, Zenon DEF DeleteLoad
<1>4. ASSUME NEW p \in Writer, DeleteStamp(p)
      PROVE  SnapshotCovers'
  <2>1. \A q \in Proc : op[q].pc = "stored" => op'[q] = op[q]
    BY <1>0, <1>4, Zenon DEF DeleteStamp
  <2> QED
    BY <1>4, <2>1, CoversOpStep, Zenon DEF DeleteStamp
<1>5. ASSUME NEW p \in Writer, NEW k \in Key, NEW v \in RemoteVersions, Replicate(p, k, v)
      PROVE  SnapshotCovers'
  BY <1>1, <1>5, CoversOpStep, Zenon DEF Replicate, Proc
<1>6. ASSUME NEW p \in Evictor, NEW k \in Key, NEW r \in Reasons, Evict(p, k, r)
      PROVE  SnapshotCovers'
  BY <1>1, <1>6, CoversOpStep, Zenon DEF Evict, Proc
<1>7. ASSUME NEW p \in Proc, Apply(p) PROVE SnapshotCovers'
  BY <1>7, CoversApply, Zenon
<1>8. ASSUME NEW p \in Proc, PublishRecord(p) PROVE SnapshotCovers'
  BY <1>8, CoversPublish, Zenon
<1>9. CASE UNCHANGED vars
  BY <1>9, CoversOpStep, Zenon DEF vars, snapVars, rangeVars
<1>10. ASSUME NEW s \in Seg, BackgroundSync(s) PROVE SnapshotCovers'
  <2>1. CASE wal[s].buf = << >>
    BY <1>9, <1>10, <2>1, Zenon DEF BackgroundSync
  <2>2. CASE wal[s].buf # << >>
    BY <1>10, <2>2, CoversSync, Zenon
  <2> QED
    BY <2>1, <2>2, Zenon
<1> QED
  BY <1>2, <1>3, <1>4, <1>5, <1>6, <1>7, <1>8, <1>9, <1>10, CoversPrepare, CoversCopy, Zenon,
     CoversVisit, CoversRename, CoversClear, CoversFail, CoversCrash
     DEF Next

\* Create's reconciliation of the snapshot with the log ("Callers reconcile
\* snapshots against the WAL") holds for any number of keys, segments, writers,
\* evictors, snapshots and crashes.
THEOREM CoversInvariant == Spec => []SnapshotCovers
BY TypeCorrect, CoversInit, CoversNext, PTL DEF Spec

\* A durable key's version is in the snapshot, or in the fsynced part of its
\* segment's file.
LEMMA DurableOnDisk ==
  ASSUME TypeOK, SnapshotCovers, NEW k \in Key, k \in durable, k \notin cut
  PROVE  \/ mem[k] = NoVal \/ snap[k].ts >= mem[k].ts
         \/ \E i \in 1 .. wal[SegOf[k]].synced :
              wal[SegOf[k]].file[i].key = k /\ wal[SegOf[k]].file[i].val.ts >= mem[k].ts
<1> DEFINE s == SegOf[k]
           f == wal[s].file
           b == wal[s].buf
           n == wal[s].synced
           from == IF ToClear(s) THEN offs[s] ELSE 0
<1>1. KeyCovered(k)
  BY CoversParts, Zenon
<1>2. /\ f \in Seq(Record) /\ b \in Seq(Record) /\ n \in Nat /\ from \in Nat
      /\ n <= Len(f) /\ Len(f) \in Nat /\ Flushed(wal[s]) = f \o b
  <2>1. wal[s] \in Segment /\ n <= Len(f) /\ from \in Nat
    BY Quantities, Zenon DEF TypeOK
  <2>2. f \in Seq(Record) /\ b \in Seq(Record) /\ n \in Nat
    BY <2>1, Zenon DEF Segment
  <2> QED
    BY <2>1, <2>2, RecordSeq, FlushedRecords, Zenon
<1>3. \/ mem[k] = NoVal \/ snap[k].ts >= mem[k].ts
      \/ Holds(Flushed(wal[s]), k, from, n, mem[k].ts)
  BY <1>1, Zenon DEF KeyCovered, Covered, Logged, Log
<1>4. ASSUME Holds(Flushed(wal[s]), k, from, n, mem[k].ts)
      PROVE  \E i \in 1 .. n : f[i].key = k /\ f[i].val.ts >= mem[k].ts
  <2>1. Holds(f \o b, k, from, n, mem[k].ts)
    BY <1>2, <1>4, Zenon
  <2> HIDE DEF f, b, n, from
  <2>2. DOMAIN (f \o b) = 1 .. Len(f \o b)
    BY <1>2, ConcatPrefix, RecordSeq, Zenon
  <2>3. PICK i \in DOMAIN (f \o b) : i > from /\ i <= n /\ (f \o b)[i].key = k
                                     /\ (f \o b)[i].val.ts >= mem[k].ts
    BY <2>1, Zenon DEF Holds
  <2>4. i \in 1 .. n /\ i \in 1 .. Len(f)
    BY <1>2, <2>2, <2>3
  <2>5. (f \o b)[i] = f[i]
    BY <1>2, <2>4, ConcatPrefix, Zenon
  <2> QED
    BY <2>3, <2>4, <2>5, Zenon
<1> QED
  BY <1>3, <1>4, Zenon

\* A covered key that counts as durable is on disk.
LEMMA CoversImpliesDurability == TypeOK /\ SnapshotCovers => Durability
<1> SUFFICES ASSUME TypeOK, SnapshotCovers, NEW k \in durable, k \notin cut
             PROVE  \E v \in OnDisk(k) : v.ts >= mem[k].ts
  BY Zenon DEF Durability
<1>1. k \in Key
  BY Zenon DEF TypeOK
<1> DEFINE s == SegOf[k]
<1>2. snap[k] \in OnDisk(k) /\ mem[k].ts \in Nat /\ snap[k].ts \in Nat
  BY <1>1, Quantities, Zenon DEF OnDisk
<1>3. CASE mem[k] = NoVal \/ snap[k].ts >= mem[k].ts
  BY <1>2, <1>3, Versions
<1>4. CASE \E i \in 1 .. wal[s].synced : wal[s].file[i].key = k /\ wal[s].file[i].val.ts >= mem[k].ts
  BY <1>4, Zenon DEF OnDisk
<1> QED
  BY <1>1, <1>3, <1>4, DurableOnDisk, Zenon

\* A write that was acknowledged and fsynced, and not overwritten since, is in the
\* snapshot or in the fsynced log in some version at least as new, at every moment
\* of Create, clearSegment and backgroundSync and for every value of the constants.
THEOREM DurabilityCorrect == Spec => []Durability
BY TypeCorrect, CoversInvariant, CoversImpliesDurability, PTL

\* StoreLWW never leaves an older version than the two it chooses from.
LEMMA MergeNewer ==
  ASSUME NEW k \in Key, NEW v \in Version, NEW w \in Version
  PROVE  /\ Merge(k, v, w).ts \in Nat
         /\ Merge(k, v, w).ts >= v.ts /\ Merge(k, v, w).ts >= w.ts
<1>1. v.ts \in Nat /\ w.ts \in Nat
  BY Versions, Zenon
<1>2. CASE lwwWins(k, v, w)
  <2>1. w.ts >= v.ts
    BY <1>1, <1>2 DEF lwwWins
  <2> QED
    BY <1>1, <1>2, <2>1 DEF Merge
<1>3. CASE ~lwwWins(k, v, w)
  <2>1. v.ts >= w.ts
    BY <1>1, <1>3 DEF lwwWins
  <2> QED
    BY <1>1, <1>3, <2>1 DEF Merge
<1> QED
  BY <1>2, <1>3, Zenon

\* One crash and recovery: a readable log and the snapshot give every durable key
\* back, in its version or a newer one.
LEMMA RecoverDurable ==
  ASSUME TypeOK, SnapshotCovers, CrashAndRecover, ~DisableSnapshot, Readable,
         NEW k \in durable, k \notin cut
  PROVE  mem'[k].ts >= mem[k].ts
<1>1. k \in Key
  BY Zenon DEF TypeOK
<1> DEFINE s == SegOf[k]
           log == wal'[s].file
<1>2. PICK sticky \in SUBSET StickyTombstones : mem' = Recovered(wal', sticky)
  BY CrashFacts, Zenon
<1> DEFINE d == Decoded(k, sticky)
           r == Replayed(k, log)
<1>3. mem'[k] = Merge(k, d, r)
  BY <1>1, <1>2, Zenon DEF Recovered, Readable
<1>4. /\ s \in Seg /\ mem[k].ts \in Nat /\ snap[k].ts \in Nat /\ wal[s].synced \in Nat
      /\ wal[s] \in Segment
  BY <1>1, Quantities, Zenon
<1>5. d \in Version /\ d.ts = snap[k].ts
  <2>1. wal \in [Seg -> Segment] /\ snap \in [Key -> Version]
    BY Zenon DEF TypeOK
  <2> QED
    BY <1>1, <2>1, RecoveredType, Zenon
<1>6. log \in Seq(Record) /\ Len(log) = wal'[s].synced
  BY <1>4, CrashFacts, Zenon DEF Segment
<1>7. r \in Version
  <2> HIDE DEF log
  <2> QED
    BY <1>1, <1>6, ReplayedFromLog, Zenon DEF Version
<1>8. Merge(k, d, r).ts \in Nat /\ Merge(k, d, r).ts >= d.ts /\ Merge(k, d, r).ts >= r.ts
  BY <1>1, <1>5, <1>7, MergeNewer, Zenon
<1>9. CASE mem[k] = NoVal \/ snap[k].ts >= mem[k].ts
  <2> HIDE DEF d, r
  <2> QED
    BY <1>3, <1>4, <1>5, <1>8, <1>9, Versions
<1>10. ASSUME NEW i \in 1 .. wal[s].synced,
              wal[s].file[i].key = k, wal[s].file[i].val.ts >= mem[k].ts
       PROVE  mem'[k].ts >= mem[k].ts
  <2>1. i \in 1 .. Len(log) /\ log[i] = wal[s].file[i]
    <3>1. wal'[s].synced \in wal[s].synced .. Len(wal[s].file)
      BY <1>4, CrashFacts, Zenon
    <3>2. Len(wal[s].file) \in Nat
      BY <1>4, RecordSeq, Zenon DEF Segment
    <3>3. i \in 1 .. wal'[s].synced
      BY <1>4, <3>1, <3>2
    <3> QED
      BY <1>4, <1>6, <3>3, CrashFacts, Zenon
  <2>2. log[i].key = k /\ log[i].val.ts >= mem[k].ts
    BY <1>10, <2>1, Zenon
  <2> HIDE DEF log
  <2>3. log[i].val.ts \in Nat
    BY <1>6, <2>1, RecordSeq, Versions, Zenon
  <2>4. r.ts >= log[i].val.ts /\ r.ts \in Nat
    BY <1>1, <1>6, <2>1, <2>2, ReplayedNewest, Versions, Zenon
  <2> HIDE DEF r, d
  <2> QED
    BY <1>3, <1>4, <1>8, <2>2, <2>3, <2>4
<1> QED
  BY <1>1, <1>9, <1>10, DurableOnDisk, Zenon

\* No crash brings an acknowledged and fsynced key back in an older version, when
\* every segment can be read to its end and snapshots are not disabled
\* (engine.recover), for every value of the constants.
THEOREM RecoveryCorrect ==
  ASSUME ~DisableSnapshot
  PROVE  Spec => RecoveryKeepsDurable
<1>1. TypeOK /\ SnapshotCovers /\ [Next]_vars
        => [Crashes /\ Readable => \A k \in durable \ cut : mem'[k].ts >= mem[k].ts]_vars
  <2> SUFFICES ASSUME TypeOK, SnapshotCovers, Next, Crashes, Readable,
                      NEW k \in durable, k \notin cut
               PROVE  mem'[k].ts >= mem[k].ts
    OBVIOUS
  <2>1. CASE CrashAndRecover
    BY <2>1, RecoverDurable, Zenon
  <2>2. CASE ~CrashAndRecover
    <3>1. count.crashes = count'.crashes
      <4>1. count \in [ops : 0 .. MaxOps, snaps : Nat, crashes : 0 .. MaxCrashes]
        BY Zenon DEF TypeOK
      <4> QED
        BY <2>2, <4>1, Zenon
           DEF Next, Set, DeleteLoad, DeleteStamp, Replicate, Evict, Begin, Apply,
               PublishRecord, BackgroundSync, CreateSnapshot, PrepareSegment, CopyRoots,
               Visit, Rename, ClearOne, SnapshotFails, vars
    <3> QED
      BY <3>1, Zenon DEF Crashes
  <2> QED
    BY <2>1, <2>2, Zenon
<1> QED
  BY <1>1, TypeCorrect, CoversInvariant, PTL DEF Spec, RecoveryKeepsDurable
=============================================================================
