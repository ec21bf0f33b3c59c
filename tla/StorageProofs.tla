-------------------------- MODULE StorageProofs --------------------------
(***************************************************************************)
(* Theorems about the storage engine, for every number of keys, segments,  *)
(* goroutines and operations.                                              *)
(***************************************************************************)
EXTENDS Storage, WalProofs

USE DEF Proc, Seg

-----------------------------------------------------------------------------
(* Types of the parts.                                                     *)

\* The assumptions on the constants, in the form the proofs use.
LEMMA Constants ==
  /\ NKeys \in Nat /\ NKeys >= 1 /\ MaxTs \in Nat /\ NSegs \in Nat /\ NSegs >= 1
  /\ 1 \in 1 .. NKeys + 1 /\ 1 \in Seg
  /\ SegOf \in [Key -> Seg] /\ MayOverflow \in BOOLEAN
BY LwwConstants, StorageConstants DEF Seg

\* Timestamps of versions are positive; what the map does not hold counts as zero.
LEMMA Versions ==
  /\ NoVal \notin Value /\ NoVal \in Version /\ NoVal.ts = 0 /\ 0 \in NodeID
  /\ \A v \in Value : v.ts \in Nat /\ v.ts >= 1
  /\ \A v \in Version : v.ts \in Nat
  /\ \A v \in Version : v.ts = 0 => v = NoVal
  /\ \A v \in Value : [v EXCEPT !.tomb = TRUE] \in Value
<1>1. 0 \in NodeID
  BY LwwConstants DEF NodeID
<1>2. \A v \in Value : v.ts \in Nat /\ v.ts >= 1
  BY LwwConstants DEF Value, Timestamp
<1>3. NoVal.ts = 0
  BY DEF NoVal
<1>4. \A v \in Value : [v EXCEPT !.tomb = TRUE] \in Value
  BY Zenon DEF Value
<1> QED
  BY <1>1, <1>2, <1>3, <1>4 DEF Version

\* TypeOK, taken apart: the goroutines, the log, the maps, the snapshotter and the
\* counters.
OpType == [pc : {"idle", "loaded", "stamped", "stored"}, kind : {"none", "write", "ttl", "cap"},
           key : Key \cup {0}, val : Version]

OpOK(o) ==
  /\ o \in OpType
  /\ o.pc # "idle" => o.key \in Key /\ o.kind # "none"
  /\ o.pc \in {"stamped", "stored"} => o.val \in Value

\* A goroutine that stores or publishes has a key and a version to do it with.
LEMMA OpTyping ==
  TypeOK => op \in [Proc -> OpType] /\ \A p \in Proc : OpOK(op[p])
BY DEF TypeOK, OpType, OpOK

\* What a client's Set, a Delete or an eviction stamps is a version.
LEMMA StampType ==
  ASSUME clk \in 0 .. MaxTs, NowEnabled, NEW d \in Data \cup {NoData}, NEW t \in BOOLEAN
  PROVE  Stamp(d, t) \in Value /\ Now \in 0 .. MaxTs
BY LwwConstants, StorageConstants DEF Stamp, Now, NowEnabled, Value, Timestamp

\* The goroutine's record after each of its steps.
LEMMA BeginType ==
  ASSUME TypeOK, NEW p \in Proc, NEW k \in Key, NEW v \in Value,
         NEW kind \in {"write", "ttl", "cap"}, Begin(p, kind, k, v)
  PROVE  /\ op' \in [Proc -> OpType] /\ \A q \in Proc : OpOK(op'[q])
         /\ count' \in [ops : 0 .. MaxOps, snaps : Nat, crashes : 0 .. MaxCrashes]
<1> DEFINE o == [pc |-> "stamped", kind |-> kind, key |-> k, val |-> v]
<1>1. o \in OpType /\ OpOK(o)
  BY DEF OpType, OpOK, Version
<1>2. op' = [op EXCEPT ![p] = o]
  BY DEF Begin
<1> HIDE DEF o
<1>3. op' \in [Proc -> OpType] /\ \A q \in Proc : OpOK(op'[q])
  BY <1>1, <1>2, OpTyping
<1>4. /\ count.ops < MaxOps /\ count' = [count EXCEPT !.ops = @ + 1]
      /\ count \in [ops : 0 .. MaxOps, snaps : Nat, crashes : 0 .. MaxCrashes]
  BY DEF Begin, TypeOK
<1>5. count' \in [ops : 0 .. MaxOps, snaps : Nat, crashes : 0 .. MaxCrashes]
  BY <1>4, StorageConstants
<1> QED
  BY <1>3, <1>5

\* Apply leaves a version, or nothing, in the map.
LEMMA AfterApplyType ==
  ASSUME NEW o, OpOK(o), o.pc = "stamped", mem[o.key] \in Version
  PROVE  AfterApply(o) \in Version
<1>1. o.val \in Value /\ o.kind \in {"write", "ttl", "cap"}
  BY DEF OpOK, OpType
<1> QED
  BY <1>1, Versions DEF AfterApply, Merge, Version

\* Recovery leaves a version, or nothing, in the map.
LEMMA RecoveredType ==
  ASSUME snap \in [Key -> Version], NEW w \in [Seg -> Segment],
         NEW sticky \in SUBSET StickyTombstones
  PROVE  /\ \A k \in Key : Decoded(k, sticky) \in Version /\ Decoded(k, sticky).ts = snap[k].ts
         /\ Recovered(w, sticky) \in [Key -> Version]
<1>1. \A k \in Key : Decoded(k, sticky) \in Version /\ Decoded(k, sticky).ts = snap[k].ts
  <2> TAKE k \in Key
  <2>1. CASE k \in sticky
    <3>1. snap[k].ts > 0
      BY <2>1 DEF StickyTombstones, Live
    <3>2. snap[k] \in Value
      BY <3>1, Versions DEF Version
    <3> QED
      BY <2>1, <3>2, Versions DEF Decoded, Version, Value
  <2>2. CASE k \notin sticky
    BY <2>2 DEF Decoded
  <2> QED
    BY <2>1, <2>2
<1>2. \A k \in Key : Replayed(k, w[SegOf[k]].file) \in Version
  <2> TAKE k \in Key
  <2>1. w[SegOf[k]].file \in Seq(Record)
    BY Constants DEF Segment
  <2> QED
    BY <2>1, ReplayedFromLog DEF Version
<1> QED
  BY <1>1, <1>2 DEF Recovered, Merge

\* The part of TypeOK the log and the goroutines share no variable with.
OpsOK == op \in [Proc -> OpType] /\ \A p \in Proc : OpOK(op[p])
WalOK == wal \in [Seg -> Segment] /\ \A s \in Seg : wal[s].synced <= Len(wal[s].file)
MapsOK == /\ mem \in [Key -> Version] /\ snap \in [Key -> Version]
          /\ tmp \in [Key -> Version] /\ orphan \in [Key -> Version]
          /\ roots \in [Key -> {"uncopied", "none", "live", "orphan"}]
          /\ durable \subseteq Key /\ cut \subseteq Key
SnpOK == /\ snp \in [pc : {"idle", "prepare", "range", "clear"}, seg : Seg, next : 1 .. NKeys + 1]
         /\ offs \in [Seg -> Nat]
CountOK == count \in [ops : 0 .. MaxOps, snaps : Nat, crashes : 0 .. MaxCrashes]

\* The parts make up TypeOK.
LEMMA TypeParts ==
  TypeOK <=> OpsOK /\ WalOK /\ MapsOK /\ SnpOK /\ CountOK /\ clk \in 0 .. MaxTs
BY DEF TypeOK, OpsOK, OpType, OpOK, WalOK, MapsOK, SnpOK, CountOK

\* One segment changes, to a well-formed one.
LEMMA WalStep ==
  ASSUME WalOK, NEW s \in Seg, NEW seg \in Segment, seg.synced <= Len(seg.file),
         wal' = [wal EXCEPT ![s] = seg]
  PROVE  WalOK'
BY DEF WalOK

\* A goroutine that has returned is well typed.
LEMMA IdleOK == OpOK(Idle)
BY Versions DEF OpOK, OpType, Idle

\* A crash leaves well-formed segments: prefixes of the files, on disk as they are.
LEMMA CrashedWal ==
  ASSUME WalOK,
         \E kept \in [Seg -> UNION {wal[s].synced .. Len(wal[s].file) : s \in Seg}] :
           /\ \A s \in Seg : kept[s] \in wal[s].synced .. Len(wal[s].file)
           /\ \E cutShort \in SUBSET {s \in Seg : /\ MayOverflow
                                                  /\ wal[s].torn \/ kept[s] < Len(wal[s].file)} :
                wal' = [s \in Seg |-> Crashed(wal[s], kept[s], s \in cutShort)]
  PROVE  /\ WalOK'
         /\ \A s \in Seg : /\ wal'[s].synced \in wal[s].synced .. Len(wal[s].file)
                           /\ Len(wal'[s].file) = wal'[s].synced
                           /\ Flushed(wal'[s]) = wal'[s].file
                           /\ \A i \in 1 .. wal'[s].synced : wal'[s].file[i] = wal[s].file[i]
<1>1. PICK kept \in [Seg -> UNION {wal[s].synced .. Len(wal[s].file) : s \in Seg}] :
           /\ \A s \in Seg : kept[s] \in wal[s].synced .. Len(wal[s].file)
           /\ \E cutShort \in SUBSET {s \in Seg : /\ MayOverflow
                                                  /\ wal[s].torn \/ kept[s] < Len(wal[s].file)} :
                wal' = [s \in Seg |-> Crashed(wal[s], kept[s], s \in cutShort)]
  BY Zenon
<1>2. PICK cutShort : wal' = [s \in Seg |-> Crashed(wal[s], kept[s], s \in cutShort)]
  BY <1>1, Zenon
<1>3. ASSUME NEW s \in Seg
      PROVE  /\ wal'[s] \in Segment /\ wal'[s].synced = kept[s] /\ Len(wal'[s].file) = kept[s]
             /\ \A i \in 1 .. kept[s] : wal'[s].file[i] = wal[s].file[i]
             /\ Flushed(wal'[s]) = wal'[s].file
             /\ kept[s] \in wal[s].synced .. Len(wal[s].file)
             /\ kept[s] <= kept[s]
  <2>1. wal[s] \in Segment /\ wal[s].synced \in Nat
    BY Zenon DEF WalOK, Segment
  <2>2. Len(wal[s].file) \in Nat
    BY <2>1, RecordSeq DEF Segment
  <2>3. kept[s] \in wal[s].synced .. Len(wal[s].file)
    BY <1>1, Zenon
  <2>4. kept[s] \in Nat /\ kept[s] <= Len(wal[s].file)
    BY <2>1, <2>2, <2>3
  <2> DEFINE c == s \in cutShort
  <2>5. wal'[s] = Crashed(wal[s], kept[s], c) /\ c \in BOOLEAN
    <3>1. wal'[s] = Crashed(wal[s], kept[s], c)
      BY <1>2, Zenon
    <3>2. c \in BOOLEAN
      OBVIOUS
    <3> QED
      BY <3>1, <3>2, Zenon
  <2> HIDE DEF c
  <2>6. /\ Crashed(wal[s], kept[s], c) \in Segment
        /\ Crashed(wal[s], kept[s], c).synced = kept[s]
        /\ Len(Crashed(wal[s], kept[s], c).file) = kept[s]
        /\ \A i \in 1 .. kept[s] : Crashed(wal[s], kept[s], c).file[i] = wal[s].file[i]
        /\ Flushed(Crashed(wal[s], kept[s], c)) = Crashed(wal[s], kept[s], c).file
    BY <2>1, <2>4, <2>5, CrashedType
  <2>7. kept[s] <= kept[s]
    BY <2>4
  <2> QED
    BY <2>3, <2>4, <2>5, <2>6, <2>7, Zenon
<1>4. wal' \in [Seg -> Segment]
  BY <1>2, <1>3, Zenon
<1>5. \A s \in Seg : wal'[s].synced <= Len(wal'[s].file)
  BY <1>3, Zenon
<1> QED
  BY <1>3, <1>4, <1>5, Zenon DEF WalOK

\* The empty store NewEngine starts from is well typed.
LEMMA InitType == Init => TypeOK
<1> SUFFICES ASSUME Init PROVE TypeOK
  OBVIOUS
<1>1. OpsOK
  BY IdleOK DEF Init, OpsOK, OpOK
<1>2. WalOK
  <2>1. << >> \in Seq(Record)
    OBVIOUS
  <2>2. /\ EmptySegment \in Segment /\ EmptySegment.synced = Len(EmptySegment.file)
        /\ Len(EmptySegment.file) \in Nat
    BY <2>1, OpenedType, RecordSeq, Zenon DEF EmptySegment
  <2>3. EmptySegment.synced <= Len(EmptySegment.file)
    BY <2>2
  <2> QED
    BY <2>2, <2>3 DEF Init, WalOK
<1>3. MapsOK
  BY Versions DEF Init, MapsOK, NoEntries, NoRoots
<1>4. SnpOK
  BY Constants DEF Init, SnpOK, IdleSnapshotter, NoOffsets
<1>5. CountOK /\ clk \in 0 .. MaxTs
  BY StorageConstants, LwwConstants DEF Init, CountOK
<1> QED
  BY <1>1, <1>2, <1>3, <1>4, <1>5, TypeParts

\* Every step of the engine keeps the types, the recovery after a crash included.
LEMMA NextType == TypeOK /\ [Next]_vars => TypeOK'
<1> SUFFICES ASSUME TypeOK, [Next]_vars PROVE TypeOK'
  OBVIOUS
<1>0. OpsOK /\ WalOK /\ MapsOK /\ SnpOK /\ CountOK /\ clk \in 0 .. MaxTs
  BY TypeParts
<1> SUFFICES OpsOK' /\ WalOK' /\ MapsOK' /\ SnpOK' /\ CountOK' /\ clk' \in 0 .. MaxTs
  BY Zenon DEF TypeOK, OpsOK, OpType, OpOK, WalOK, MapsOK, SnpOK, CountOK
<1>1. ASSUME NEW p \in Writer, NEW k \in Key, NEW d \in Data, Set(p, k, d)
      PROVE  OpsOK' /\ WalOK' /\ MapsOK' /\ SnpOK' /\ CountOK' /\ clk' \in 0 .. MaxTs
  <2>1. Stamp(d, FALSE) \in Value /\ clk' \in 0 .. MaxTs
    BY <1>0, <1>1, StampType, Zenon DEF Set
  <2>2. OpsOK' /\ CountOK'
    BY <1>1, <2>1, BeginType, Zenon DEF Set, OpsOK, CountOK
  <2> QED
    BY <1>0, <1>1, <2>1, <2>2 DEF Set, WalOK, MapsOK, SnpOK, snapVars, rangeVars
<1>2. ASSUME NEW p \in Writer, NEW k \in Key, DeleteLoad(p, k)
      PROVE  OpsOK' /\ WalOK' /\ MapsOK' /\ SnpOK' /\ CountOK' /\ clk' \in 0 .. MaxTs
  <2> DEFINE o == [pc |-> "loaded", kind |-> "write", key |-> k, val |-> NoVal]
  <2>1. o \in OpType /\ OpOK(o)
    BY Versions DEF OpOK, OpType
  <2>2. op' = [op EXCEPT ![p] = o]
    BY <1>2 DEF DeleteLoad
  <2> HIDE DEF o
  <2>3. OpsOK'
    BY <1>0, <2>1, <2>2 DEF OpsOK
  <2>4. CountOK'
    BY <1>0, <1>2, StorageConstants DEF DeleteLoad, CountOK
  <2> QED
    BY <1>0, <1>2, <2>3, <2>4 DEF DeleteLoad, WalOK, MapsOK, SnpOK, snapVars, rangeVars
<1>3. ASSUME NEW p \in Writer, DeleteStamp(p)
      PROVE  OpsOK' /\ WalOK' /\ MapsOK' /\ SnpOK' /\ CountOK' /\ clk' \in 0 .. MaxTs
  <2>1. Stamp(NoData, TRUE) \in Value /\ clk' \in 0 .. MaxTs
    BY <1>0, <1>3, StampType, Zenon DEF DeleteStamp
  <2> DEFINE o == [op[p] EXCEPT !.pc = "stamped", !.val = Stamp(NoData, TRUE)]
  <2>2. o \in OpType /\ OpOK(o)
    BY <1>0, <1>3, <2>1, Zenon DEF DeleteStamp, OpsOK, OpOK, OpType, Version
  <2>3. op' = [op EXCEPT ![p] = o]
    BY <1>3, Zenon DEF DeleteStamp
  <2> HIDE DEF o
  <2>4. OpsOK'
    BY <1>0, <2>2, <2>3 DEF OpsOK
  <2> QED
    BY <1>0, <1>3, <2>1, <2>4
       DEF DeleteStamp, WalOK, MapsOK, SnpOK, CountOK, snapVars, rangeVars
<1>4. ASSUME NEW p \in Writer, NEW k \in Key, NEW v \in RemoteVersions, Replicate(p, k, v)
      PROVE  OpsOK' /\ WalOK' /\ MapsOK' /\ SnpOK' /\ CountOK' /\ clk' \in 0 .. MaxTs
  <2>1. v \in Value /\ v.ts \in 0 .. MaxTs
    BY StorageConstants, LwwConstants DEF Value, Timestamp
  <2>2. OpsOK' /\ CountOK'
    BY <1>4, <2>1, BeginType, Zenon DEF Replicate, OpsOK, CountOK
  <2>3. clk' \in 0 .. MaxTs
    BY <1>0, <1>4, <2>1 DEF Replicate, Update
  <2> QED
    BY <1>0, <1>4, <2>2, <2>3 DEF Replicate, WalOK, MapsOK, SnpOK, snapVars, rangeVars
<1>5. ASSUME NEW p \in Evictor, NEW k \in Key, NEW r \in Reasons, Evict(p, k, r)
      PROVE  OpsOK' /\ WalOK' /\ MapsOK' /\ SnpOK' /\ CountOK' /\ clk' \in 0 .. MaxTs
  <2>1. Stamp(NoData, TRUE) \in Value /\ clk' \in 0 .. MaxTs
    BY <1>0, <1>5, StampType, Zenon DEF Evict
  <2>2. r \in {"write", "ttl", "cap"}
    BY StorageConstants
  <2>3. OpsOK' /\ CountOK'
    BY <1>5, <2>1, <2>2, BeginType, Zenon DEF Evict, OpsOK, CountOK
  <2> QED
    BY <1>0, <1>5, <2>1, <2>3 DEF Evict, WalOK, MapsOK, SnpOK, snapVars, rangeVars
<1>6. ASSUME NEW p \in Proc, Apply(p)
      PROVE  OpsOK' /\ WalOK' /\ MapsOK' /\ SnpOK' /\ CountOK' /\ clk' \in 0 .. MaxTs
  <2> DEFINE o == op[p]
             n == IF Stale(o) THEN Idle ELSE [o EXCEPT !.pc = "stored"]
  <2>1. OpOK(o) /\ o.pc = "stamped" /\ o.key \in Key /\ mem[o.key] \in Version
    BY <1>0, <1>6 DEF Apply, OpsOK, OpOK, MapsOK
  <2>2. OpOK([o EXCEPT !.pc = "stored"])
    BY <2>1 DEF OpOK, OpType
  <2>3. OpOK(n) /\ n \in OpType
    BY <2>2, IdleOK DEF OpOK
  <2>4. op' = [op EXCEPT ![p] = n]
    BY <1>6 DEF Apply
  <2>5. OpsOK'
    <3> HIDE DEF n
    <3> QED
      BY <1>0, <2>3, <2>4 DEF OpsOK
  <2>6. AfterApply(o) \in Version
    BY <2>1, AfterApplyType
  <2>7. MapsOK'
    BY <1>0, <1>6, <2>1, <2>6, Zenon DEF Apply, MapsOK, snapVars
  <2> QED
    BY <1>0, <1>6, <2>5, <2>7 DEF Apply, WalOK, SnpOK, CountOK, snapVars
<1>7. ASSUME NEW p \in Proc, PublishRecord(p)
      PROVE  OpsOK' /\ WalOK' /\ MapsOK' /\ SnpOK' /\ CountOK' /\ clk' \in 0 .. MaxTs
  <2> DEFINE r == [key |-> op[p].key, val |-> op[p].val]
             s == SegOf[op[p].key]
  <2>1. r \in Record /\ s \in Seg
    BY <1>0, <1>7, Constants, Zenon DEF PublishRecord, OpsOK, OpOK, Record
  <2>2. PICK seg \in Publish(wal[s], r, MayOverflow) : wal' = [wal EXCEPT ![s] = seg]
    BY <1>7, Zenon DEF PublishRecord
  <2>3. wal[s] \in Segment /\ wal[s].synced <= Len(wal[s].file)
    BY <1>0, <2>1 DEF WalOK
  <2> HIDE DEF r, s
  <2>4. seg \in Segment /\ seg.synced = wal[s].synced /\ Len(seg.file) >= Len(wal[s].file)
    BY <2>1, <2>2, <2>3, Constants, PublishAppends
  <2>5. seg.synced <= Len(seg.file)
    <3>1. wal[s].synced \in Nat /\ Len(wal[s].file) \in Nat /\ Len(seg.file) \in Nat
      BY <2>3, <2>4, RecordSeq DEF Segment
    <3> QED
      BY <2>3, <2>4, <3>1
  <2>6. WalOK'
    BY <1>0, <2>1, <2>2, <2>4, <2>5, WalStep, Zenon
  <2>7. OpsOK'
    BY <1>0, <1>7, IdleOK DEF PublishRecord, OpsOK, OpOK
  <2> QED
    BY <1>0, <1>7, <2>6, <2>7 DEF PublishRecord, MapsOK, SnpOK, CountOK, snapVars, rangeVars
<1>8. ASSUME NEW s \in Seg, BackgroundSync(s)
      PROVE  OpsOK' /\ WalOK' /\ MapsOK' /\ SnpOK' /\ CountOK' /\ clk' \in 0 .. MaxTs
  <2>1. CASE UNCHANGED vars
    BY <1>0, <2>1 DEF vars, OpsOK, WalOK, MapsOK, SnpOK, CountOK
  <2>2. CASE wal[s].buf # << >>
    <3>1. /\ Sync(Flush(wal[s])) \in Segment
          /\ Sync(Flush(wal[s])).synced = Len(Sync(Flush(wal[s])).file)
          /\ Len(Sync(Flush(wal[s])).file) \in Nat
      BY <1>0, SyncType, FlushedRecords, RecordSeq DEF WalOK
    <3>2. WalOK'
      BY <1>0, <1>8, <2>2, <3>1, WalStep DEF BackgroundSync
    <3>3. durable' \subseteq Key
      BY <1>0, <1>8, <2>2, Zenon DEF BackgroundSync, Synced, MapsOK
    <3> QED
      BY <1>0, <1>8, <2>2, <3>2, <3>3
         DEF BackgroundSync, OpsOK, MapsOK, SnpOK, CountOK, snapVars, rangeVars
  <2> QED
    BY <1>8, <2>1, <2>2 DEF BackgroundSync
<1>9. CASE CreateSnapshot
  BY <1>0, <1>9, Constants, Zenon
     DEF CreateSnapshot, IdleSnapshotter, OpsOK, WalOK, MapsOK, SnpOK, CountOK, rangeVars
<1>10. CASE PrepareSegment
  <2> DEFINE s == snp.seg
  <2>1. s \in Seg
    BY <1>0 DEF SnpOK
  <2>2. /\ Flush(wal[s]) \in Segment /\ Flush(wal[s]).synced <= Len(Flush(wal[s]).file)
        /\ Boundary(wal[s]) \in Nat
    <3>1. wal[s] \in Segment /\ wal[s].synced <= Len(wal[s].file)
      BY <1>0, <2>1 DEF WalOK
    <3>2. Boundary(wal[s]) \in Nat
      BY <3>1, FlushedRecords, RecordSeq DEF Boundary
    <3> QED
      BY <3>1, <3>2, FlushType, SyncedWithinFile, Zenon
  <2>3. WalOK'
    BY <1>0, <1>10, <2>1, <2>2, WalStep, Zenon DEF PrepareSegment
  <2>4. offs' \in [Seg -> Nat]
    BY <1>0, <1>10, <2>1, <2>2 DEF PrepareSegment, SnpOK
  <2>5. s # NSegs => s + 1 \in Seg
    BY <2>1, Constants
  <2>6. SnpOK'
    BY <1>0, <1>10, <2>4, <2>5, Constants, Zenon DEF PrepareSegment, IdleSnapshotter, SnpOK
  <2> QED
    BY <1>0, <1>10, <2>3, <2>6 DEF PrepareSegment, OpsOK, MapsOK, CountOK, rangeVars
<1>11. CASE CopyRoots
  <2>1. roots' \in [Key -> {"uncopied", "none", "live", "orphan"}]
    BY <1>0, <1>11 DEF CopyRoots, MapsOK
  <2> QED
    BY <1>0, <1>11, <2>1 DEF CopyRoots, OpsOK, WalOK, MapsOK, SnpOK, CountOK, snapVars
<1>12. CASE Visit
  <2>1. snp.next \in 1 .. NKeys + 1 /\ snp.next <= NKeys
    BY <1>0, <1>12 DEF Visit, Ranging, SnpOK
  <2>2. snp.next \in Key /\ snp.next + 1 \in 1 .. NKeys + 1
    BY <2>1, Constants DEF Key
  <2>3. Reached(snp.next) \in Version
    BY <1>0, <2>2, Versions DEF Reached, MapsOK
  <2>4. tmp' \in [Key -> Version]
    BY <1>0, <1>12, <2>3, Zenon DEF Visit, MapsOK
  <2>5. SnpOK'
    BY <1>0, <1>12, <2>2 DEF Visit, SnpOK
  <2> QED
    BY <1>0, <1>12, <2>4, <2>5 DEF Visit, OpsOK, WalOK, MapsOK, CountOK, rangeVars
<1>13. CASE Rename
  <2>1. CountOK'
    BY <1>0, <1>13 DEF Rename, CountOK
  <2>2. SnpOK'
    BY <1>0, <1>13, Constants DEF Rename, SnpOK, IdleSnapshotter
  <2>3. MapsOK'
    BY <1>0, <1>13, Versions DEF Rename, MapsOK, NoRoots, NoEntries
  <2> QED
    BY <1>0, <1>13, <2>1, <2>2, <2>3 DEF Rename, OpsOK, WalOK
<1>14. CASE ClearOne
  <2> DEFINE s == snp.seg
  <2>1. /\ s \in Seg /\ wal[s] \in Segment /\ offs[s] \in Nat
        /\ wal[s].synced <= Len(wal[s].file)
    BY <1>0 DEF SnpOK, WalOK
  <2>2. /\ clearSegment(wal[s], offs[s]) \in Segment
        /\ clearSegment(wal[s], offs[s]).synced <= Len(clearSegment(wal[s], offs[s]).file)
    BY <2>1, ClearType, SyncedWithinFile, Zenon
  <2>3. WalOK'
    BY <1>0, <1>14, <2>1, <2>2, WalStep, Zenon DEF ClearOne
  <2>4. s # NSegs => s + 1 \in Seg
    BY <2>1, Constants
  <2>5. SnpOK'
    BY <1>0, <1>14, <2>4, Constants, Zenon DEF ClearOne, IdleSnapshotter, NoOffsets, SnpOK
  <2>6. durable' \subseteq Key /\ cut' \subseteq Key
    BY <1>0, <1>14 DEF ClearOne, Synced, MapsOK
  <2> QED
    BY <1>0, <1>14, <2>3, <2>5, <2>6 DEF ClearOne, OpsOK, MapsOK, CountOK, rangeVars
<1>15. CASE SnapshotFails
  BY <1>0, <1>15, Versions, Constants
     DEF SnapshotFails, DropSnapshotter, IdleSnapshotter, NoOffsets, NoRoots, NoEntries,
         OpsOK, WalOK, MapsOK, SnpOK, CountOK
<1>16. CASE CrashAndRecover
  <2>1. WalOK'
    BY <1>0, <1>16, CrashedWal, Zenon DEF CrashAndRecover
  <2>2. mem' \in [Key -> Version]
    <3>1. CASE DisableSnapshot
      BY <1>16, <3>1, Versions DEF CrashAndRecover
    <3>2. CASE ~DisableSnapshot
      <4>1. PICK sticky \in SUBSET StickyTombstones : mem' = Recovered(wal', sticky)
        BY <1>16, <3>2, Zenon DEF CrashAndRecover
      <4>2. snap \in [Key -> Version] /\ wal' \in [Seg -> Segment]
        BY <1>0, <2>1 DEF WalOK, MapsOK
      <4> QED
        BY <4>1, <4>2, RecoveredType
    <3> QED
      BY <3>1, <3>2
  <2>3. OpsOK'
    BY <1>0, <1>16, IdleOK DEF CrashAndRecover, OpsOK, OpOK
  <2>4. CountOK' /\ clk' \in 0 .. MaxTs
    <3>1. CountOK'
      <4>1. count.crashes < MaxCrashes /\ count' = [count EXCEPT !.crashes = @ + 1]
        BY <1>16, Zenon DEF CrashAndRecover
      <4> QED
        BY <1>0, <4>1, StorageConstants DEF CountOK
    <3>2. clk' \in 0 .. clk
      BY <1>16 DEF CrashAndRecover
    <3> QED
      BY <1>0, <3>1, <3>2, LwwConstants
  <2>5. MapsOK' /\ SnpOK'
    BY <1>0, <1>16, <2>2, Versions, Constants, Zenon
       DEF CrashAndRecover, DropSnapshotter, IdleSnapshotter, NoOffsets, NoRoots, NoEntries,
           MapsOK, SnpOK
  <2> QED
    BY <2>1, <2>3, <2>4, <2>5
<1>17. CASE UNCHANGED vars
  BY <1>0, <1>17 DEF vars, OpsOK, WalOK, MapsOK, SnpOK, CountOK
<1> QED
  BY <1>1, <1>2, <1>3, <1>4, <1>5, <1>6, <1>7, <1>8, <1>9, <1>10, <1>11, <1>12, <1>13, <1>14,
     <1>15, <1>16, <1>17 DEF Next

\* The engine's state is well-formed in every reachable state.
THEOREM TypeCorrect == Spec => []TypeOK
BY InitType, NextType, PTL DEF Spec
=============================================================================
