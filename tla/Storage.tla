----------------------------- MODULE Storage -----------------------------
(***************************************************************************)
(* The storage engine of one node (core/engine.go, core/writer,            *)
(* core/hashmap, core/wal, core/snap): client and replicated writes, the   *)
(* evictor's callback, the log's background sync, the snapshotter, and     *)
(* crash and recovery, interleaved at the points where the code releases   *)
(* its locks.                                                              *)
(*                                                                         *)
(* A write is stamped by the clock, then stored in the map under the shard *)
(* lock, then published to the log under the segment lock; nothing holds   *)
(* the three together.                                                     *)
(***************************************************************************)
EXTENDS Wal, FiniteSets

CONSTANTS
  Writer,           \* goroutines that serve client and replication calls
  Evictor,          \* LRU shard goroutines, the callers of Evict
  EvictorOf,        \* the LRU shard of a key
  NSegs, SegOf,     \* log segments, and the segment of a key
  ShardOf,          \* the map shard of a key, in Range's order
  Self,             \* this node's NodeID
  LocalOps,         \* the client calls made: a subset of {"set", "del"}
  RemoteVersions,   \* versions other nodes replicate to this one
  Reasons,          \* eviction reasons in use: a subset of {"ttl", "cap"}
  MayDrift,         \* whether Update may find a remote timestamp too far ahead
  MayOverflow,      \* whether a buffer may fill up and a record be cut short
  DisableSnapshot,  \* the configuration option
  ClockSkew,        \* by how much the clock may restart behind
  MaxOps, MaxSnaps, MaxCrashes   \* bounds on what the environment starts

Seg == 1 .. NSegs
Proc == Writer \cup Evictor
Idle == [pc |-> "idle", kind |-> "none", key |-> 0, val |-> NoVal]

VARIABLES
  mem,      \* the sharded map: Key -> version or NoVal
  clk,      \* the clock: the largest timestamp issued or learnt
  op,       \* what each goroutine is doing
  wal,      \* the log segments
  snap,     \* the snapshot file: Key -> version or NoVal
  snp,      \* the snapshotter: [pc, seg, next]
  offs,     \* PrepareSnapshot's offsets
  roots,    \* Range's copied roots, per key: "uncopied", "none", "live", "orphan"
  orphan,   \* the version an "orphan" root still points to
  tmp,      \* the temporary snapshot file
  durable,  \* (history) keys whose current version is acknowledged and fsynced
  cut,      \* (history) keys whose records a zero boundary threw away
  count     \* (bounds) operations, completed snapshots and crashes so far

snapVars == <<snap, snp, offs, tmp>>
rangeVars == <<roots, orphan>>
vars == <<mem, clk, op, wal, snap, snp, offs, roots, orphan, tmp, durable, cut, count>>

ASSUME StorageConstants ==
  /\ NSegs \in Nat \ {0}
  /\ EvictorOf \in [Key -> Evictor] /\ SegOf \in [Key -> Seg] /\ ShardOf \in [Key -> Nat]
  /\ \A j, k \in Key : j <= k => ShardOf[j] <= ShardOf[k]
  /\ Writer \cap Evictor = {}
  /\ Self \in NodeID \ {0}
  /\ LocalOps \subseteq {"set", "del"} /\ Reasons \subseteq {"ttl", "cap"}
  /\ RemoteVersions \subseteq Value
  /\ MayDrift \in BOOLEAN /\ MayOverflow \in BOOLEAN /\ DisableSnapshot \in BOOLEAN
  /\ ClockSkew \in Nat /\ MaxOps \in Nat /\ MaxSnaps \in Nat /\ MaxCrashes \in Nat

IdleSnapshotter == [pc |-> "idle", seg |-> 1, next |-> 1]

\* The locals of Create and Range before and after their lifetime.
NoOffsets == [s \in Seg |-> 0]
NoRoots == [k \in Key |-> "uncopied"]
NoEntries == [k \in Key |-> NoVal]

Init ==
  /\ mem = [k \in Key |-> NoVal]
  /\ clk = 0
  /\ op = [p \in Proc |-> Idle]
  /\ wal = [s \in Seg |-> EmptySegment]
  /\ snap = NoEntries
  /\ snp = IdleSnapshotter
  /\ offs = NoOffsets /\ roots = NoRoots /\ orphan = NoEntries /\ tmp = NoEntries
  /\ durable = {} /\ cut = {}
  /\ count = [ops |-> 0, snaps |-> 0, crashes |-> 0]

-----------------------------------------------------------------------------
(* Clients, replication and the evictor.                                   *)

Begin(p, kind, k, v) ==
  /\ op[p].pc = "idle"
  /\ count.ops < MaxOps
  /\ count' = [count EXCEPT !.ops = @ + 1]
  /\ op' = [op EXCEPT ![p] = [pc |-> "stamped", kind |-> kind, key |-> k, val |-> v]]

\* Mutation: the clock is ratcheted past its ceiling.
NowUnguarded == TRUE

\* clock.Now, before its ceiling.
NowEnabled == clk < MaxTs
Now == clk + 1

\* Mutation: the remote timestamp is not learnt.
UpdateIgnored(remote) == {clk}

\* clock.Update: the next Now exceeds remote, unless remote is too far ahead.
Update(remote) ==
  {IF remote > clk THEN remote ELSE clk} \cup (IF MayDrift THEN {clk} ELSE {})

Stamp(d, t) == [ts |-> Now, node |-> Self, data |-> d, tomb |-> t]

\* engine.Set up to the call of ApplySet.  Its clock.Update with this node's
\* own timestamp teaches the clock nothing.
Set(p, k, d) ==
  /\ "set" \in LocalOps /\ NowEnabled
  /\ clk' = Now
  /\ Begin(p, "write", k, Stamp(d, FALSE))
  /\ UNCHANGED <<mem, wal, snapVars, rangeVars, durable, cut>>

\* engine.Delete: the existence check ...
DeleteLoad(p, k) ==
  /\ "del" \in LocalOps
  /\ op[p].pc = "idle" /\ count.ops < MaxOps
  /\ Live(mem[k])
  /\ count' = [count EXCEPT !.ops = @ + 1]
  /\ op' = [op EXCEPT ![p] = [pc |-> "loaded", kind |-> "write", key |-> k, val |-> NoVal]]
  /\ UNCHANGED <<mem, clk, wal, snapVars, rangeVars, durable, cut>>

\* ... and the stamp of the tombstone.
DeleteStamp(p) ==
  /\ op[p].pc = "loaded" /\ NowEnabled
  /\ clk' = Now
  /\ op' = [op EXCEPT ![p].pc = "stamped", ![p].val = Stamp(NoData, TRUE)]
  /\ UNCHANGED <<mem, wal, snapVars, rangeVars, durable, cut, count>>

\* ApplySet or ApplyDelete of a replicated request, up to StoreLWW.
Replicate(p, k, v) ==
  /\ clk' \in Update(v.ts)
  /\ Begin(p, "write", k, v)
  /\ UNCHANGED <<mem, wal, snapVars, rangeVars, durable, cut>>

\* engine.Evict up to the change of the map.
Evict(p, k, reason) ==
  /\ EvictorOf[k] = p /\ NowEnabled
  /\ clk' = Now
  /\ Begin(p, reason, k, Stamp(NoData, TRUE))
  /\ UNCHANGED <<mem, wal, snapVars, rangeVars, durable, cut>>

\* The version the map holds for the key of o after o's call of StoreLWW, Store
\* or Delete.
AfterApply(o) ==
  CASE o.kind = "write" -> Merge(o.key, mem[o.key], o.val)
    [] o.kind = "ttl"   -> o.val
    [] o.kind = "cap"   -> NoVal

Stale(o) == o.kind = "write" /\ ~lwwWins(o.key, mem[o.key], o.val)

\* hm.Delete unlinks the wrapper; roots copied earlier still reach it, with the
\* version it held.
Unlinks(o) == o.kind = "cap" /\ roots[o.key] = "live"

\* The map step of a write or an eviction.  A stale write returns without a
\* log record.
Apply(p) ==
  LET o == op[p]
      k == o.key IN
  /\ o.pc = "stamped"
  /\ mem' = [mem EXCEPT ![k] = AfterApply(o)]
  /\ op' = [op EXCEPT ![p] = IF Stale(o) THEN Idle ELSE [o EXCEPT !.pc = "stored"]]
  /\ roots' = IF Unlinks(o) THEN [roots EXCEPT ![k] = "orphan"] ELSE roots
  /\ orphan' = IF Unlinks(o) THEN [orphan EXCEPT ![k] = mem[k]] ELSE orphan
  /\ durable' = IF Stale(o) THEN durable ELSE durable \ {k}
  /\ cut' = IF Stale(o) THEN cut ELSE cut \ {k}
  /\ UNCHANGED <<clk, wal, snapVars, count>>

\* wal.Publish; the call then returns to its caller.
PublishRecord(p) ==
  LET o == op[p]
      s == SegOf[o.key] IN
  /\ o.pc = "stored"
  /\ \E seg \in Publish(wal[s], [key |-> o.key, val |-> o.val], MayOverflow) :
       wal' = [wal EXCEPT ![s] = seg]
  /\ op' = [op EXCEPT ![p] = Idle]
  /\ UNCHANGED <<mem, clk, snapVars, rangeVars, durable, cut, count>>

-----------------------------------------------------------------------------
(* The log's background sync and the snapshotter.                          *)

\* Is v, the current version of k, still on its way to the log?
Unpublished(k, v) ==
  \E p \in Proc : op[p].pc = "stored" /\ op[p].key = k /\ op[p].val = v

\* The keys of segment s whose current version is acknowledged and covered by an
\* fsync, once the segment is seg.
Synced(s, seg) ==
  {k \in Key : /\ SegOf[k] = s
               /\ ~Unpublished(k, mem[k])
               /\ \E i \in 1 .. seg.synced : seg.file[i] = [key |-> k, val |-> mem[k]]}

\* One tick of backgroundSync: nothing is fsynced when the buffer is empty.
BackgroundSync(s) ==
  IF wal[s].buf = << >> THEN UNCHANGED vars
  ELSE /\ wal' = [wal EXCEPT ![s] = Sync(Flush(wal[s]))]
       /\ durable' = durable \cup Synced(s, wal'[s])
       /\ UNCHANGED <<mem, clk, op, snapVars, rangeVars, cut, count>>

\* consumer takes a queued request and calls Create.
CreateSnapshot ==
  /\ ~DisableSnapshot
  /\ snp.pc = "idle" /\ count.snaps < MaxSnaps
  /\ snp' = [IdleSnapshotter EXCEPT !.pc = "prepare"]
  /\ UNCHANGED <<mem, clk, op, wal, snap, offs, tmp, rangeVars, durable, cut, count>>

\* One iteration of PrepareSnapshot's loop; after the last one the temporary
\* file is created and the encoder called.
PrepareSegment ==
  LET s == snp.seg IN
  /\ snp.pc = "prepare"
  /\ wal' = [wal EXCEPT ![s] = Flush(wal[s])]
  /\ offs' = [offs EXCEPT ![s] = Boundary(wal[s])]
  /\ snp' = IF s = NSegs THEN [IdleSnapshotter EXCEPT !.pc = "range"]
                         ELSE [snp EXCEPT !.seg = s + 1]
  /\ UNCHANGED <<mem, clk, op, snap, tmp, rangeVars, durable, cut, count>>

Ranging == snp.pc = "range" /\ snp.next <= NKeys

\* Range copies the roots of the next shard under its read lock.
CopyRoots ==
  /\ Ranging /\ roots[snp.next] = "uncopied"
  /\ roots' = [k \in Key |->
                 IF ShardOf[k] # ShardOf[snp.next] THEN roots[k]
                 ELSE IF mem[k] = NoVal THEN "none" ELSE "live"]
  /\ UNCHANGED <<mem, clk, op, wal, snapVars, orphan, durable, cut, count>>

\* The version the copied root of k leads to now.
Reached(k) ==
  CASE roots[k] = "live"   -> mem[k]
    [] roots[k] = "orphan" -> orphan[k]
    [] OTHER               -> NoVal

\* The next entry of the iteration is read and encoded.
Visit ==
  /\ Ranging /\ roots[snp.next] # "uncopied"
  /\ tmp' = [tmp EXCEPT ![snp.next] = Reached(snp.next)]
  /\ snp' = [snp EXCEPT !.next = @ + 1]
  /\ UNCHANGED <<mem, clk, op, wal, snap, offs, rangeVars, durable, cut, count>>

\* Sync, Close, Rename.
Rename ==
  /\ snp.pc = "range" /\ snp.next > NKeys
  /\ snap' = tmp
  /\ snp' = [IdleSnapshotter EXCEPT !.pc = "clear"]
  /\ roots' = NoRoots /\ orphan' = NoEntries /\ tmp' = NoEntries
  /\ cut' = {k \in cut : tmp[k].ts < mem[k].ts}
  /\ durable' = durable \cup {k \in Key : mem[k] # NoVal /\ tmp[k] = mem[k]}
  /\ count' = [count EXCEPT !.snaps = @ + 1]
  /\ UNCHANGED <<mem, clk, op, wal, offs>>

\* One iteration of Clear's loop.
ClearOne ==
  LET s == snp.seg IN
  /\ snp.pc = "clear"
  /\ wal' = [wal EXCEPT ![s] = clearSegment(wal[s], offs[s])]
  /\ cut' = cut \cup {k \in Key : SegOf[k] = s /\ k \in CutByZero(wal[s], offs[s])}
  /\ durable' = durable \cup Synced(s, wal'[s])
  /\ snp' = IF s = NSegs THEN IdleSnapshotter ELSE [snp EXCEPT !.seg = s + 1]
  /\ offs' = IF s = NSegs THEN NoOffsets ELSE offs
  /\ UNCHANGED <<mem, clk, op, snap, tmp, rangeVars, count>>

DropSnapshotter ==
  /\ snp' = IdleSnapshotter
  /\ offs' = NoOffsets /\ roots' = NoRoots /\ orphan' = NoEntries /\ tmp' = NoEntries

\* Create returns an error: the temporary file is removed, and segments not yet
\* cleared stay as they are.
SnapshotFails ==
  /\ snp.pc # "idle"
  /\ DropSnapshotter
  /\ UNCHANGED <<mem, clk, op, wal, snap, durable, cut, count>>

-----------------------------------------------------------------------------
(* Crash and recovery.                                                     *)

\* recover decodes every entry into a pooled SnapshotEntry.  gob leaves out a
\* false Tombstone, and the pooled entry keeps the true one of an entry decoded
\* before: a live entry behind a tombstone may be read as a tombstone.
StickyTombstones == {k \in Key : Live(snap[k]) /\ \E j \in Key : j < k /\ snap[j].tomb}

Decoded(k, sticky) == IF k \in sticky THEN [snap[k] EXCEPT !.tomb = TRUE] ELSE snap[k]

\* The map after engine.recover, with log segments w.  A segment that does not
\* parse to its end makes Replay fail, and recover returns before any update is
\* applied; NewEngine logs the error and goes on.
Recovered(w, sticky) ==
  [k \in Key |->
     IF \E s \in Seg : w[s].bad THEN Decoded(k, sticky)
     ELSE Merge(k, Decoded(k, sticky), Replayed(k, w[SegOf[k]].file))]

CrashAndRecover ==
  /\ count.crashes < MaxCrashes
  /\ count' = [count EXCEPT !.crashes = @ + 1]
  /\ \E kept \in [Seg -> UNION {wal[s].synced .. Len(wal[s].file) : s \in Seg}] :
     /\ \A s \in Seg : kept[s] \in wal[s].synced .. Len(wal[s].file)
     /\ \E cutShort \in SUBSET {s \in Seg : /\ MayOverflow
                                            /\ wal[s].torn \/ kept[s] < Len(wal[s].file)} :
          wal' = [s \in Seg |-> Crashed(wal[s], kept[s], s \in cutShort)]
  /\ IF DisableSnapshot THEN mem' = [k \in Key |-> NoVal]
     ELSE \E sticky \in SUBSET StickyTombstones : mem' = Recovered(wal', sticky)
  /\ clk' \in {t \in 0 .. clk : t + ClockSkew >= clk}
  /\ op' = [p \in Proc |-> Idle]
  /\ DropSnapshotter
  /\ durable' = {k \in Key : mem'[k] # NoVal}
  /\ cut' = {}
  /\ UNCHANGED snap

-----------------------------------------------------------------------------
Next ==
  \/ \E p \in Writer, k \in Key : \E d \in Data : Set(p, k, d)
  \/ \E p \in Writer, k \in Key : DeleteLoad(p, k)
  \/ \E p \in Writer : DeleteStamp(p)
  \/ \E p \in Writer, k \in Key : \E v \in RemoteVersions : Replicate(p, k, v)
  \/ \E p \in Evictor, k \in Key : \E r \in Reasons : Evict(p, k, r)
  \/ \E p \in Proc : Apply(p)
  \/ \E p \in Proc : PublishRecord(p)
  \/ \E s \in Seg : BackgroundSync(s)
  \/ CreateSnapshot
  \/ PrepareSegment
  \/ CopyRoots
  \/ Visit
  \/ Rename
  \/ ClearOne
  \/ SnapshotFails
  \/ CrashAndRecover

Spec == Init /\ [][Next]_vars

\* Goroutines that are running go on, every segment's ticker keeps firing, and the
\* snapshotter keeps trying.
FairSpec ==
  /\ Spec
  /\ \A p \in Writer : WF_vars(DeleteStamp(p))
  /\ \A p \in Proc : WF_vars(Apply(p)) /\ WF_vars(PublishRecord(p))
  /\ \A s \in Seg : WF_vars(BackgroundSync(s))
  /\ WF_vars(CreateSnapshot) /\ WF_vars(PrepareSegment) /\ WF_vars(CopyRoots)
  /\ WF_vars(Visit) /\ WF_vars(Rename) /\ WF_vars(ClearOne)

-----------------------------------------------------------------------------
(* Properties.                                                             *)

Version == Value \cup {NoVal}

\* Type invariant of the engine's state: versions are well-formed, the log
\* fsynced no more than its file holds, and the snapshotter's position is within
\* its loops.
TypeOK ==
  /\ mem \in [Key -> Version] /\ snap \in [Key -> Version]
  /\ tmp \in [Key -> Version] /\ orphan \in [Key -> Version]
  /\ clk \in 0 .. MaxTs
  /\ op \in [Proc -> [pc : {"idle", "loaded", "stamped", "stored"},
                      kind : {"none", "write", "ttl", "cap"},
                      key : Key \cup {0}, val : Version]]
  /\ \A p \in Proc : op[p].pc # "idle" => op[p].key \in Key /\ op[p].kind # "none"
  /\ \A p \in Proc : op[p].pc \in {"stamped", "stored"} => op[p].val \in Value
  /\ wal \in [Seg -> Segment]
  /\ \A s \in Seg : wal[s].synced <= Len(wal[s].file)
  /\ snp \in [pc : {"idle", "prepare", "range", "clear"}, seg : Seg, next : 1 .. NKeys + 1]
  /\ offs \in [Seg -> Nat]
  /\ roots \in [Key -> {"uncopied", "none", "live", "orphan"}]
  /\ durable \subseteq Key /\ cut \subseteq Key
  /\ count \in [ops : 0 .. MaxOps, snaps : Nat, crashes : 0 .. MaxCrashes]

\* The versions of k that survive a power loss right now: the snapshot's, and
\* those of the fsynced part of the log.
OnDisk(k) ==
  LET seg == wal[SegOf[k]] IN
    {snap[k]} \cup {seg.file[i].val : i \in {j \in 1 .. seg.synced : seg.file[j].key = k}}

\* A write that was acknowledged and fsynced, and not overwritten since, is on
\* disk in some version at least as new - whatever the snapshotter, other
\* writers and the evictor do meanwhile (Create, clearSegment, backgroundSync).
\* The records a zero boundary throws away are excepted; see TrailingSurvives.
Durability ==
  \A k \in durable \ cut : \E v \in OnDisk(k) : v.ts >= mem[k].ts

\* What the comment on clearSegment says: "Trailing bytes survive".  Durability
\* without its exception.
TrailingSurvives ==
  \A k \in durable : \E v \in OnDisk(k) : v.ts >= mem[k].ts

\* The clock has reached every timestamp the map holds, so that the next local
\* write wins over whatever it overwrites (StorageWriter's clock.Update).
ClockAhead == \A k \in Key : mem[k].ts <= clk

Crashes == count'.crashes # count.crashes
Readable == \A s \in Seg : ~wal'[s].bad

\* No crash brings an acknowledged and fsynced key back in an older version, as
\* long as every segment can be read to its end (engine.recover).
RecoveryKeepsDurable ==
  [][Crashes /\ Readable => \A k \in durable \ cut : mem'[k].ts >= mem[k].ts]_vars

\* The same, readable or not: "write-ahead log (WAL) crash durability".
CrashDurability ==
  [][Crashes => \A k \in durable \ cut : mem'[k].ts >= mem[k].ts]_vars

\* A crash that finds every call returned and loses no log record.
LosslessCrash ==
  /\ Crashes /\ Readable
  /\ \A p \in Proc : op[p].pc = "idle"
  /\ \A s \in Seg : wal[s].buf = << >> /\ wal'[s].file = wal[s].file

\* Such a crash - also in the middle of a snapshot - does not change what Get
\* answers: Replay and the snapshot together "reconstruct in-memory state".  Left
\* out: records thrown away by a zero boundary, and a snapshot in which a live
\* entry follows a tombstone (see SnapshotRoundTrip).
RestartPreservesGet ==
  [][LosslessCrash /\ cut = {} /\ StickyTombstones = {} =>
       \A k \in Key : Get(mem'[k]) = Get(mem[k])]_vars

\* What is in the snapshot comes back as it was encoded: a key that is live in
\* memory and in the snapshot is live after the restart.
SnapshotRoundTrip ==
  [][LosslessCrash /\ cut = {} =>
       \A k \in Key : Live(mem[k]) /\ Live(snap[k]) => Live(mem'[k])]_vars

\* Every write reaches the disk, at the latest with a later tick of its
\* segment's sync interval.
EventuallyDurable ==
  \A k \in Key : (mem[k] # NoVal) ~> (mem[k] = NoVal \/ k \in durable \cup cut)
-----------------------------------------------------------------------------
(* Why Durability holds.                                                   *)

\* What segment s will hold once its buffer is written out.
Log(s) == Flushed(wal[s])

\* Records from + 1 to n of the log hold a version of k no older than ts.
Holds(log, k, from, n, ts) ==
  \E i \in DOMAIN log : i > from /\ i <= n /\ log[i].key = k /\ log[i].val.ts >= ts

\* The log holds the current version of k, or a newer one, behind position from;
\* when k counts as durable, in its fsynced part.
Logged(k, from) ==
  LET s == SegOf[k] IN
    Holds(Log(s), k, from, IF k \in durable THEN wal[s].synced ELSE Len(Log(s)), mem[k].ts)

\* Nothing would be lost of k if the snapshot held v for it and its segment were
\* cut at from.
Covered(k, from, v) ==
  \/ mem[k] = NoVal \/ k \in cut
  \/ v.ts >= mem[k].ts
  \/ Logged(k, from)
  \/ k \notin durable /\ Unpublished(k, mem[k])

\* Clear has yet to cut segment s.
ToClear(s) == snp.pc = "clear" /\ s >= snp.seg

WillVisit(k) == snp.next <= k /\ roots[k] \in {"uncopied", "live"}

\* The argument of Range's comment, "Callers reconcile snapshots against the
\* WAL", as an invariant of Create: a version is in the snapshot file, in the log,
\* or with a goroutine that is about to publish it - counting only log records
\* behind the boundary for a segment Clear has yet to cut; and while Range runs,
\* the same holds of the file being written, for every key Range will not come to.
SnapshotCovers ==
  /\ \A k \in Key : Covered(k, IF ToClear(SegOf[k]) THEN offs[SegOf[k]] ELSE 0, snap[k])
  /\ \A k \in Key : snp.pc = "range" => WillVisit(k) \/ Covered(k, offs[SegOf[k]], tmp[k])
  /\ \A k \in Key : snp.next <= k => tmp[k] = NoVal
  /\ snp.pc # "range" => roots = NoRoots /\ snp.next = 1
  /\ \A s \in Seg : (snp.pc = "clear" => ToClear(s)) => offs[s] <= Len(Log(s))
=============================================================================
