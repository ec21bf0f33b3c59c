--------------------------- MODULE ClusterProofs ---------------------------
(***************************************************************************)
(* What gateway and anti-entropy promise together, for every number of     *)
(* nodes, keys and concurrent calls, every placement of the keys, both     *)
(* failure modes, and any number of rounds.                                *)
(***************************************************************************)
EXTENDS Cluster, LwwProofs

Version == Value \cup {NoVal}

\* The part of TypeOK that the proofs below need.
Typed ==
  /\ mem \in [Node -> [Key -> Version]]
  /\ call \in [Client -> [pc : {"idle", "exists", "send"}, node : Node, key : Key,
                          val : Version, todo : SUBSET Node, errs : SUBSET Node]]
  /\ net \subseteq Message
  /\ acked \subseteq Entry
  /\ sync \in [Node -> [pc : {"idle", "digests", "root", "pull", "shards", "buckets",
                              "collect", "apply"},
                        peer : Node, mask : SUBSET (Shard \X Bucket), resp : SUBSET Entry]]

\* A call carries a version and concerns owners only, all of them while Delete
\* still probes.
CallsOwn ==
  \A c \in Client : call[c].pc # "idle" =>
    /\ call[c].val \in Value
    /\ call[c].todo \subseteq OwnersOf[call[c].key]
    /\ call[c].errs \subseteq OwnersOf[call[c].key]
    /\ call[c].pc = "exists" => call[c].todo = OwnersOf[call[c].key]

\* What is in flight is on its way to an owner.
FlightOwn ==
  /\ \A m \in net : m.to \in OwnersOf[m.key]
  /\ \A n \in Node : \A e \in sync[n].resp : n \in OwnersOf[e.key]

\* The owners that have answered a call hold its version or a later one.
Answered ==
  \A c \in Client : call[c].pc = "send" =>
    \A o \in OwnersOf[call[c].key] \ (call[c].todo \cup call[c].errs) :
      Holds(o, call[c].key, call[c].val)

\* Replica n will hold version v of key k, or a later one, after the step.
HoldsAfter(n, k, v) == ~lwwWins(k, mem'[n][k], v)

\* The inductive invariant.
IInv == Typed /\ CallsOwn /\ FlightOwn /\ OnlyOwnersHold /\ Answered /\ AckedHeld
-----------------------------------------------------------------------------
\* The fields of what a map may hold are numbers; an absent key is older than
\* every version.
LEMMA VersionCompare ==
  ASSUME NEW k \in Key, NEW v \in Value
  PROVE  /\ lwwWins(k, NoVal, v)
         /\ NoVal \notin Value
<1>1. v.ts \in Nat /\ v.ts > 0
  BY LwwConstants DEF Value, Timestamp
<1>2. \A w \in Value : w.ts > 0
  BY LwwConstants DEF Value, Timestamp
<1>3. NoVal.ts = 0
  BY DEF NoVal
<1> QED
  BY <1>1, <1>2, <1>3 DEF lwwWins

\* StoreLWW keeps every version the map held or superseded, and the map then
\* holds or supersedes the one it was given.
LEMMA MergeHolds ==
  ASSUME NEW k \in Key, NEW u \in Version, NEW v \in Value, NEW w \in Value
  PROVE  /\ Merge(k, u, v) \in Value
         /\ ~lwwWins(k, Merge(k, u, v), v)
         /\ ~lwwWins(k, u, w) => ~lwwWins(k, Merge(k, u, v), w)
<1>1. CASE u = NoVal
  <2>1. Merge(k, u, v) = v /\ lwwWins(k, u, w)
    BY <1>1, VersionCompare DEF Merge
  <2> QED
    BY <2>1, LwwIrreflexive
<1>2. CASE u \in Value
  <2>1. Merge(k, u, v) = IF lwwWins(k, u, v) THEN v ELSE u
    BY DEF Merge
  <2>2. ASSUME lwwWins(k, u, v), lwwWins(k, v, w)
        PROVE  lwwWins(k, u, w)
    BY <1>2, <2>2, LwwTransitive
  <2> QED
    BY <1>2, <2>1, <2>2, LwwIrreflexive
<1> QED
  BY <1>1, <1>2 DEF Version

\* What ApplySet and ApplyDelete at an owner preserve, and what they establish.
LEMMA ApplyPreserves ==
  ASSUME Typed, OnlyOwnersHold,
         NEW n \in Node, NEW k \in Key, NEW v \in Value, n \in OwnersOf[k],
         Apply(n, k, v)
  PROVE  /\ mem' \in [Node -> [Key -> Version]]
         /\ OnlyOwnersHold'
         /\ HoldsAfter(n, k, v)
         /\ \A o \in Node, j \in Key : \A w \in Value : Holds(o, j, w) => HoldsAfter(o, j, w)
<1>1. /\ mem[n][k] \in Version
      /\ mem' = [mem EXCEPT ![n][k] = Merge(k, mem[n][k], v)]
      /\ mem \in [Node -> [Key -> Version]]
  BY DEF Typed, Apply
<1>2. Merge(k, mem[n][k], v) \in Value /\ ~lwwWins(k, Merge(k, mem[n][k], v), v)
  BY <1>1, MergeHolds
<1>3. mem' \in [Node -> [Key -> Version]]
  BY <1>1, <1>2 DEF Version
<1>4. mem'[n][k] = Merge(k, mem[n][k], v)
  BY <1>1
<1>5. \A o \in Node, j \in Key : ~(o = n /\ j = k) => mem'[o][j] = mem[o][j]
  BY <1>1
<1>6. OnlyOwnersHold'
  BY <1>4, <1>5 DEF OnlyOwnersHold
<1>7. HoldsAfter(n, k, v)
  BY <1>2, <1>4 DEF Holds, HoldsAfter
<1>8. ASSUME NEW o \in Node, NEW j \in Key, NEW w \in Value, Holds(o, j, w)
      PROVE  HoldsAfter(o, j, w)
  <2>1. CASE o = n /\ j = k
    BY <2>1, <1>1, <1>4, <1>8, MergeHolds DEF Holds, HoldsAfter
  <2>2. CASE ~(o = n /\ j = k)
    BY <2>2, <1>5, <1>8 DEF Holds, HoldsAfter
  <2> QED
    BY <2>1, <2>2
<1> QED
  BY <1>3, <1>6, <1>7, <1>8

\* AckedHeld survives every step that acknowledges nothing and loses nothing.
LEMMA AckedPreserved ==
  ASSUME Typed, AckedHeld, acked' = acked,
         \A o \in Node, j \in Key : \A w \in Value : Holds(o, j, w) => HoldsAfter(o, j, w)
  PROVE  AckedHeld'
<1>1. \A a \in acked : a.key \in Key /\ a.val \in Value /\ OwnersOf[a.key] \subseteq Node
  BY ClusterConstants DEF Typed, Entry
<1> QED
  BY <1>1 DEF AckedHeld, Holds, HoldsAfter
-----------------------------------------------------------------------------
\* The first state.
LEMMA InitIInv == Init => IInv
<1> SUFFICES ASSUME Init PROVE IInv
  OBVIOUS
<1>1. 1 \in Node /\ 1 \in Key
  BY ClusterConstants, LwwConstants DEF Node, Key
<1>2. Typed
  BY <1>1 DEF Init, Typed, NoCall, NoSync, Version
<1>3. CallsOwn /\ Answered
  BY DEF Init, CallsOwn, Answered, NoCall
<1>4. FlightOwn /\ OnlyOwnersHold /\ AckedHeld
  BY DEF Init, FlightOwn, OnlyOwnersHold, AckedHeld, NoSync
<1> QED
  BY <1>2, <1>3, <1>4 DEF IInv

\* A step that leaves the maps alone keeps what they hold.
LEMMA MapUnchanged ==
  ASSUME OnlyOwnersHold, mem' = mem
  PROVE  /\ OnlyOwnersHold'
         /\ \A o \in Node, j \in Key : \A w \in Value : Holds(o, j, w) => HoldsAfter(o, j, w)
BY DEF OnlyOwnersHold, Holds, HoldsAfter

\* What Replicate puts into flight is on its way to owners.
LEMMA ReplicateOwn ==
  ASSUME Typed, FlightOwn, NEW n \in Node, NEW k \in Key, NEW v \in Value,
         Replicate(n, k, v)
  PROVE  net' \subseteq Message /\ \A m \in net' : m.to \in OwnersOf[m.key]
<1>1. OwnersOf[k] \subseteq Node
  BY ClusterConstants
<1> QED
  BY <1>1 DEF Typed, FlightOwn, Replicate, Message

\* A new call awaits every owner.
LEMMA SetPreserves ==
  ASSUME IInv, NEW c \in Client, NEW n \in Node, NEW k \in Key, NEW d \in Data,
         NEW t \in Timestamp, Set(c, n, k, d, t)
  PROVE  IInv'
<1> DEFINE v == [ts |-> t, node |-> n, data |-> d, tomb |-> FALSE]
           new == [pc |-> "send", node |-> n, key |-> k, val |-> v,
                   todo |-> OwnersOf[k], errs |-> {}]
<1>1. v \in Value
  BY DEF Value, Node, NodeID
<1>2. /\ mem' = mem /\ acked' = acked /\ sync' = sync
      /\ call' = [call EXCEPT ![c] = new]
      /\ Replicate(n, k, v)
  BY DEF Set
<1> HIDE DEF v
<1>3. OwnersOf[k] \subseteq Node
  BY ClusterConstants
<1>4. /\ net' \subseteq Message /\ \A m \in net' : m.to \in OwnersOf[m.key]
  BY <1>1, <1>2, ReplicateOwn DEF IInv
<1>5. Typed'
  BY <1>1, <1>2, <1>3, <1>4 DEF IInv, Typed, Version
<1>6. call'[c] = new /\ \A b \in Client \ {c} : call'[b] = call[b]
  BY <1>2 DEF IInv, Typed
<1>7. CallsOwn'
  BY <1>1, <1>6 DEF IInv, CallsOwn
<1>8. Answered'
  BY <1>2, <1>6 DEF IInv, Answered, Holds
<1>9. FlightOwn'
  BY <1>2, <1>4 DEF IInv, FlightOwn
<1> QED
  BY <1>2, <1>5, <1>7, <1>8, <1>9, MapUnchanged, AckedPreserved DEF IInv

\* The tombstone is stamped; nothing is sent before the probe is over.
LEMMA DeletePreserves ==
  ASSUME IInv, NEW c \in Client, NEW n \in Node, NEW k \in Key,
         NEW t \in Timestamp, Delete(c, n, k, t)
  PROVE  IInv'
<1> DEFINE v == [ts |-> t, node |-> n, data |-> NoData, tomb |-> TRUE]
           new == [pc |-> "exists", node |-> n, key |-> k, val |-> v,
                   todo |-> OwnersOf[k], errs |-> {}]
<1>1. v \in Value
  BY DEF Value, Node, NodeID
<1>2. /\ mem' = mem /\ acked' = acked /\ sync' = sync /\ net' = net
      /\ call' = [call EXCEPT ![c] = new]
  BY DEF Delete
<1> HIDE DEF v
<1>3. OwnersOf[k] \subseteq Node
  BY ClusterConstants
<1>5. Typed'
  BY <1>1, <1>2, <1>3 DEF IInv, Typed, Version
<1>6. call'[c] = new /\ \A b \in Client \ {c} : call'[b] = call[b]
  BY <1>2 DEF IInv, Typed
<1>7. CallsOwn'
  BY <1>1, <1>6 DEF IInv, CallsOwn
<1>8. Answered'
  BY <1>2, <1>6 DEF IInv, Answered, Holds
<1>9. FlightOwn'
  BY <1>2 DEF IInv, FlightOwn
<1> QED
  BY <1>2, <1>5, <1>7, <1>8, <1>9, MapUnchanged, AckedPreserved DEF IInv

\* A call that goes on: fewer owners to wait for, or more failures.
Advances(b) ==
  /\ call[b].pc # "idle" /\ call'[b].pc = "send"
  /\ call'[b].key = call[b].key /\ call'[b].val = call[b].val
  /\ call'[b].todo \subseteq call[b].todo
  /\ call'[b].errs \subseteq OwnersOf[call[b].key]

\* Calls go on correctly when an owner they no longer wait for holds the
\* version or is counted as failed.
LEMMA CallsAdvance ==
  ASSUME IInv,
         \A b \in Client : call'[b] = call[b] \/ Advances(b),
         \A o \in Node, j \in Key : \A w \in Value : Holds(o, j, w) => HoldsAfter(o, j, w),
         \A b \in Client : \A o \in call[b].todo \ (call'[b].todo \cup call'[b].errs) :
           Advances(b) => HoldsAfter(o, call[b].key, call[b].val),
         \A b \in Client : Advances(b) =>
           call[b].errs \subseteq call'[b].errs
  PROVE  CallsOwn' /\ Answered'
<1>1. \A b \in Client : call[b].key \in Key /\ OwnersOf[call[b].key] \subseteq Node
  BY ClusterConstants DEF IInv, Typed
<1>2. ASSUME NEW b \in Client, call'[b].pc # "idle"
      PROVE  /\ call'[b].val \in Value
             /\ call'[b].todo \subseteq OwnersOf[call'[b].key]
             /\ call'[b].errs \subseteq OwnersOf[call'[b].key]
             /\ call'[b].pc = "exists" => call'[b].todo = OwnersOf[call'[b].key]
  <2>1. CASE call'[b] = call[b]
    BY <1>2, <2>1 DEF IInv, CallsOwn
  <2>2. CASE Advances(b)
    BY <2>2 DEF IInv, CallsOwn, Advances
  <2> QED
    BY <2>1, <2>2
<1>3. ASSUME NEW b \in Client, call'[b].pc = "send",
             NEW o \in OwnersOf[call'[b].key] \ (call'[b].todo \cup call'[b].errs)
      PROVE  HoldsAfter(o, call'[b].key, call'[b].val)
  <2>1. CASE call'[b] = call[b]
    <3>1. Holds(o, call[b].key, call[b].val) /\ call[b].val \in Value
      BY <1>3, <2>1 DEF IInv, Answered, CallsOwn
    <3> QED
      BY <3>1, <1>1, <1>3, <2>1
  <2>2. CASE Advances(b)
    <3>1. call'[b].key = call[b].key /\ call'[b].val = call[b].val /\ call[b].val \in Value
      BY <2>2 DEF Advances, IInv, CallsOwn
    <3>2. CASE o \in call[b].todo
      BY <3>1, <3>2, <2>2, <1>3
    <3>3. CASE o \notin call[b].todo
      <4>1. call[b].pc = "send"
        BY <3>1, <3>3, <2>2, <1>3 DEF Advances, IInv, Typed, CallsOwn
      <4>2. Holds(o, call[b].key, call[b].val)
        BY <4>1, <3>1, <3>3, <2>2, <1>3 DEF IInv, Answered
      <4> QED
        BY <4>2, <3>1, <1>1, <1>3
    <3> QED
      BY <3>2, <3>3
  <2> QED
    BY <2>1, <2>2
<1>4. CallsOwn'
  BY <1>2 DEF CallsOwn
<1>5. Answered'
  BY <1>3 DEF Answered, Holds, HoldsAfter
<1> QED
  BY <1>4, <1>5

\* The type of a call in progress.
CallType == [pc : {"idle", "exists", "send"}, node : Node, key : Key,
             val : Version, todo : SUBSET Node, errs : SUBSET Node]

\* After the probe the tombstone is sent to every owner.
LEMMA ExistsPreserves ==
  ASSUME IInv, NEW c \in Client, Exists(c)
  PROVE  IInv'
<1>1. /\ mem' = mem /\ acked' = acked /\ sync' = sync
      /\ call[c].pc = "exists"
      /\ call' = [call EXCEPT ![c] = [call[c] EXCEPT !.pc = "send"]]
      /\ Replicate(call[c].node, call[c].key, call[c].val)
  BY DEF Exists
<1>2. call \in [Client -> CallType] /\ call[c] \in CallType
  BY DEF IInv, Typed, CallType
<1>3. [call[c] EXCEPT !.pc = "send"] \in CallType
  BY <1>2 DEF CallType
<1>4. call' \in [Client -> CallType]
  BY <1>1, <1>2, <1>3
<1>5. call[c].node \in Node /\ call[c].key \in Key /\ call[c].val \in Value
  BY <1>1, <1>2 DEF IInv, CallsOwn, CallType
<1>6. net' \subseteq Message /\ \A m \in net' : m.to \in OwnersOf[m.key]
  BY <1>1, <1>5, ReplicateOwn DEF IInv
<1>7. Typed'
  BY <1>1, <1>4, <1>6, Zenon DEF IInv, Typed, CallType
<1>8. FlightOwn'
  BY <1>1, <1>6 DEF IInv, FlightOwn
<1>9. /\ call'[c] = [call[c] EXCEPT !.pc = "send"]
      /\ \A b \in Client \ {c} : call'[b] = call[b]
  BY <1>1, <1>2
<1>10. Advances(c) /\ call'[c].todo = call[c].todo /\ call'[c].errs = call[c].errs
  BY <1>1, <1>2, <1>9 DEF Advances, CallType, IInv, CallsOwn
<1>11. OnlyOwnersHold' /\ \A o \in Node, j \in Key : \A w \in Value :
                           Holds(o, j, w) => HoldsAfter(o, j, w)
  BY <1>1, MapUnchanged DEF IInv
<1>12. CallsOwn' /\ Answered'
  <2>1. \A b \in Client : call'[b].todo = call[b].todo /\ call[b].errs \subseteq call'[b].errs
    BY <1>9, <1>10, Zenon
  <2>2. \A b \in Client : call'[b] = call[b] \/ Advances(b)
    BY <1>9, <1>10
  <2> QED
    BY <2>1, <2>2, <1>11, CallsAdvance
<1> QED
  BY <1>1, <1>7, <1>8, <1>11, <1>12, AckedPreserved DEF IInv

\* The coordinator that owns the key applies its own write.
LEMMA ApplyLocalPreserves ==
  ASSUME IInv, NEW c \in Client, ApplyLocal(c)
  PROVE  IInv'
<1> DEFINE n == call[c].node
           k == call[c].key
           v == call[c].val
           new == [call[c] EXCEPT !.todo = @ \ {n}]
<1>1. /\ acked' = acked /\ sync' = sync /\ net' = net
      /\ call[c].pc = "send" /\ n \in call[c].todo
      /\ call' = [call EXCEPT ![c] = new]
      /\ Apply(n, k, v)
  BY DEF ApplyLocal
<1>2. call \in [Client -> CallType] /\ call[c] \in CallType
  BY DEF IInv, Typed, CallType
<1>3. new \in CallType
  BY <1>2 DEF CallType
<1>4. call' \in [Client -> CallType]
  BY <1>1, <1>2, <1>3
<1>5. n \in Node /\ k \in Key /\ v \in Value /\ n \in OwnersOf[k]
  BY <1>1, <1>2 DEF IInv, CallsOwn, CallType
<1>6. /\ mem' \in [Node -> [Key -> Version]]
      /\ OnlyOwnersHold'
      /\ HoldsAfter(n, k, v)
      /\ \A o \in Node, j \in Key : \A w \in Value : Holds(o, j, w) => HoldsAfter(o, j, w)
  BY <1>1, <1>5, ApplyPreserves DEF IInv
<1>7. Typed' /\ FlightOwn'
  BY <1>1, <1>4, <1>6, Zenon DEF IInv, Typed, FlightOwn, CallType
<1>8. call'[c] = new /\ \A b \in Client \ {c} : call'[b] = call[b]
  BY <1>1, <1>2
<1>9. /\ Advances(c)
      /\ call'[c].todo = call[c].todo \ {n} /\ call'[c].errs = call[c].errs
  BY <1>1, <1>2, <1>8 DEF Advances, CallType, IInv, CallsOwn
<1>10. CallsOwn' /\ Answered'
  <2>1. \A b \in Client : call'[b] = call[b] \/ Advances(b)
    BY <1>8, <1>9
  <2>2. \A b \in Client : call[b].errs \subseteq call'[b].errs
    BY <1>8, <1>9, Zenon
  <2>3. \A b \in Client : \A o \in call[b].todo \ (call'[b].todo \cup call'[b].errs) :
          HoldsAfter(o, call[b].key, call[b].val)
    BY <1>6, <1>8, <1>9, Zenon
  <2> QED
    BY <2>1, <2>2, <2>3, <1>6, CallsAdvance
<1> QED
  BY <1>1, <1>6, <1>7, <1>10, AckedPreserved DEF IInv

\* A replica applies a Push, early or late.
LEMMA PushPreserves ==
  ASSUME IInv, NEW m \in net, Push(m)
  PROVE  IInv'
<1>1. /\ acked' = acked /\ sync' = sync /\ net' = net \ {m}
      /\ call' = [c \in Client |-> IF Awaits(c, m)
                                   THEN [call[c] EXCEPT !.todo = @ \ {m.to}]
                                   ELSE call[c]]
      /\ Apply(m.to, m.key, m.val)
  BY DEF Push
<1>2. call \in [Client -> CallType]
  BY DEF IInv, Typed, CallType
<1>3. m.to \in Node /\ m.key \in Key /\ m.val \in Value /\ m.to \in OwnersOf[m.key]
  BY DEF IInv, Typed, Message, FlightOwn
<1>4. \A c \in Client : [call[c] EXCEPT !.todo = @ \ {m.to}] \in CallType
  BY <1>2 DEF CallType
<1>5. call' \in [Client -> CallType]
  BY <1>1, <1>2, <1>4
<1>6. /\ mem' \in [Node -> [Key -> Version]]
      /\ OnlyOwnersHold'
      /\ HoldsAfter(m.to, m.key, m.val)
      /\ \A o \in Node, j \in Key : \A w \in Value : Holds(o, j, w) => HoldsAfter(o, j, w)
  BY <1>1, <1>3, ApplyPreserves DEF IInv
<1>7. Typed' /\ FlightOwn'
  BY <1>1, <1>5, <1>6, Zenon DEF IInv, Typed, FlightOwn, CallType
<1>8. ASSUME NEW b \in Client
      PROVE  \/ call'[b] = call[b]
             \/ /\ Awaits(b, m) /\ Advances(b)
                /\ call'[b].todo = call[b].todo \ {m.to} /\ call'[b].errs = call[b].errs
  <2>1. CASE Awaits(b, m)
    <3>1. call'[b] = [call[b] EXCEPT !.todo = @ \ {m.to}] /\ call[b] \in CallType
      BY <1>1, <1>2, <2>1
    <3> QED
      BY <2>1, <3>1 DEF Awaits, Advances, CallType, IInv, CallsOwn
  <2>2. CASE ~Awaits(b, m)
    BY <1>1, <2>2
  <2> QED
    BY <2>1, <2>2
<1>9. CallsOwn' /\ Answered'
  <2>1. \A b \in Client : call'[b] = call[b] \/ Advances(b)
    BY <1>8
  <2>2. \A b \in Client : call[b].errs \subseteq call'[b].errs
    BY <1>8
  <2>3. \A b \in Client : \A o \in call[b].todo \ (call'[b].todo \cup call'[b].errs) :
          HoldsAfter(o, call[b].key, call[b].val)
    BY <1>6, <1>8 DEF Awaits
  <2> QED
    BY <2>1, <2>2, <2>3, <1>6, CallsAdvance
<1> QED
  BY <1>1, <1>6, <1>7, <1>9, AckedPreserved DEF IInv

\* A caller gives up on a replica, which counts as a failure.
LEMMA TimeoutPreserves ==
  ASSUME IInv, NEW c \in Client, NEW x \in Node, Timeout(c, x)
  PROVE  IInv'
<1> DEFINE new == [call[c] EXCEPT !.todo = @ \ {x}, !.errs = @ \cup {x}]
<1>1. /\ mem' = mem /\ acked' = acked /\ sync' = sync /\ net' = net
      /\ call[c].pc = "send" /\ x \in call[c].todo
  BY DEF Timeout
<1>2. call \in [Client -> CallType] /\ call[c] \in CallType
  BY DEF IInv, Typed, CallType
<1>3. new \in CallType
  BY <1>2, Zenon DEF CallType
<1>4. call' = [call EXCEPT ![c] = new]
  BY <1>2, Zenon DEF Timeout
<1>5. call' \in [Client -> CallType]
  BY <1>2, <1>3, <1>4
<1>6. OnlyOwnersHold' /\ \A o \in Node, j \in Key : \A w \in Value :
                          Holds(o, j, w) => HoldsAfter(o, j, w)
  BY <1>1, MapUnchanged DEF IInv
<1>7. Typed' /\ FlightOwn'
  BY <1>1, <1>5 DEF IInv, Typed, FlightOwn, CallType
<1>8. call'[c] = new /\ \A b \in Client \ {c} : call'[b] = call[b]
  BY <1>2, <1>4
<1>9. /\ Advances(c)
      /\ call'[c].todo = call[c].todo \ {x} /\ call'[c].errs = call[c].errs \cup {x}
  BY <1>1, <1>2, <1>8 DEF Advances, CallType, IInv, CallsOwn
<1>10. CallsOwn' /\ Answered'
  <2>1. \A b \in Client : call'[b] = call[b] \/ Advances(b)
    BY <1>8, <1>9
  <2>2. \A b \in Client : call[b].errs \subseteq call'[b].errs
    BY <1>8, <1>9, Zenon
  <2>3. \A b \in Client : call[b].todo \ (call'[b].todo \cup call'[b].errs) = {}
    BY <1>8, <1>9, Zenon
  <2> QED
    BY <2>1, <2>2, <2>3, <1>6, CallsAdvance
<1> QED
  BY <1>1, <1>6, <1>7, <1>10, AckedPreserved DEF IInv

\* The call returns: with an error, or because enough owners have answered.
LEMMA ReturnPreserves ==
  ASSUME IInv, NEW c \in Client, Return(c)
  PROVE  IInv'
<1> DEFINE k == call[c].key
           v == call[c].val
           ok == [key : {k}, val : IF Failed(c) THEN {} ELSE {v}]
<1>1. /\ mem' = mem /\ sync' = sync /\ net' = net
      /\ call[c].pc = "send" /\ call[c].todo = {}
      /\ acked' = acked \cup ok
      /\ call' = [call EXCEPT ![c] = NoCall]
  BY DEF Return
<1>2. call \in [Client -> CallType] /\ call[c] \in CallType
  BY DEF IInv, Typed, CallType
<1>3. NoCall \in CallType
  BY ClusterConstants, LwwConstants DEF NoCall, CallType, Node, Key, Version
<1>4. call' \in [Client -> CallType]
  BY <1>1, <1>2, <1>3
<1>5. k \in Key /\ v \in Value /\ call[c].errs \subseteq OwnersOf[k]
  BY <1>1, <1>2 DEF IInv, CallsOwn, CallType
<1>6. ok \subseteq Entry /\ \A a \in ok : a.key = k /\ a.val = v /\ ~Failed(c)
  BY <1>5 DEF Entry
<1>7. Typed' /\ FlightOwn' /\ OnlyOwnersHold'
  BY <1>1, <1>4, <1>6 DEF IInv, Typed, FlightOwn, CallType, OnlyOwnersHold
<1>8. call'[c] = NoCall /\ \A b \in Client \ {c} : call'[b] = call[b]
  BY <1>1, <1>2
<1>9. CallsOwn'
  BY <1>8 DEF IInv, CallsOwn, NoCall
<1>10. Answered'
  BY <1>1, <1>8 DEF IInv, Answered, NoCall, Holds
<1>11. \A o \in OwnersOf[k] \ call[c].errs : Holds(o, k, v)
  BY <1>1 DEF IInv, Answered
<1>12. ASSUME ~Failed(c)
       PROVE  IF Strict THEN \A n \in OwnersOf[k] : Holds(n, k, v)
                        ELSE \E n \in OwnersOf[k] : Holds(n, k, v)
  <2>1. CASE Strict
    BY <2>1, <1>11, <1>12 DEF Failed
  <2>2. CASE ~Strict
    <3>1. \E n \in OwnersOf[k] : n \notin call[c].errs
      <4>1. call[c].errs # OwnersOf[k]
        BY <2>2, <1>12 DEF Failed
      <4> HIDE DEF k
      <4> QED
        BY <4>1, <1>5, Zenon
    <3> QED
      BY <2>2, <3>1, <1>11
  <2> QED
    BY <2>1, <2>2
<1>13. AckedHeld'
  <2> SUFFICES ASSUME NEW a \in acked \cup ok
               PROVE  IF Strict THEN \A n \in OwnersOf[a.key] : Holds(n, a.key, a.val)
                                ELSE \E n \in OwnersOf[a.key] : Holds(n, a.key, a.val)
    BY <1>1 DEF AckedHeld, Holds
  <2>1. CASE a \in acked
    BY <2>1 DEF IInv, AckedHeld
  <2>2. CASE a \in ok
    <3>1. a.key = k /\ a.val = v /\ ~Failed(c)
      BY <2>2, <1>6
    <3>2. IF Strict THEN \A n \in OwnersOf[k] : Holds(n, k, v)
                    ELSE \E n \in OwnersOf[k] : Holds(n, k, v)
      BY <3>1, <1>12
    <3> HIDE DEF k, v, ok
    <3> QED
      BY <3>1, <3>2, Zenon
  <2> QED
    BY <2>1, <2>2
<1> QED
  BY <1>7, <1>9, <1>10, <1>13 DEF IInv
-----------------------------------------------------------------------------
\* The type of a round of anti-entropy.
SyncType ==
  [pc : {"idle", "digests", "root", "pull", "shards", "buckets", "collect", "apply"},
   peer : Node, mask : SUBSET (Shard \X Bucket), resp : SUBSET Entry]

\* A step of a round that changes no map, and collects only what the requester owns.
LEMMA RoundPreserves ==
  ASSUME IInv, NEW n \in Node, NEW new \in SyncType,
         mem' = mem, call' = call, net' = net, acked' = acked,
         sync' = [sync EXCEPT ![n] = new],
         \A e \in new.resp : n \in OwnersOf[e.key]
  PROVE  IInv'
<1>1. sync \in [Node -> SyncType]
  BY DEF IInv, Typed, SyncType
<1>2. sync' \in [Node -> SyncType]
  BY <1>1
<1>3. sync'[n] = new /\ \A p \in Node \ {n} : sync'[p] = sync[p]
  BY <1>1
<1>4. Typed'
  BY <1>2 DEF IInv, Typed, SyncType
<1>5. FlightOwn'
  BY <1>3 DEF IInv, FlightOwn
<1>6. CallsOwn' /\ Answered'
  BY DEF IInv, CallsOwn, Answered, Holds
<1> QED
  BY <1>4, <1>5, <1>6, MapUnchanged, AckedPreserved DEF IInv

\* The steps of a round before the response is applied.
LEMMA PullPreserves ==
  ASSUME IInv, NEW n \in Node,
         \/ \E p \in Node : performSync(n, p)
         \/ FillDigests(n) \/ FillRoot(n) \/ PullRoot(n) \/ PullFails(n)
         \/ PullShards(n) \/ PullBuckets(n) \/ Respond(n) \/ SyncDone(n)
  PROVE  IInv'
<1>1. sync[n] \in SyncType /\ \A e \in sync[n].resp : n \in OwnersOf[e.key]
  BY DEF IInv, Typed, SyncType, FlightOwn
<1>2. NoSync \in SyncType /\ NoSync.resp = {}
  BY ClusterConstants, LwwConstants DEF NoSync, SyncType, Node
<1>3. CASE \E p \in Node : performSync(n, p)
  <2>1. PICK p \in Node : performSync(n, p)
    BY <1>3
  <2> DEFINE new == [NoSync EXCEPT !.pc = "digests", !.peer = p]
  <2>2. new \in SyncType /\ new.resp = {}
    BY <1>2, Zenon DEF SyncType
  <2> HIDE DEF new
  <2>3. /\ sync' = [sync EXCEPT ![n] = new]
        /\ mem' = mem /\ call' = call /\ net' = net /\ acked' = acked
    BY <2>1, Zenon DEF performSync, new
  <2> QED
    BY <2>2, <2>3, RoundPreserves, Zenon
<1>4. ASSUME NEW pc \in {"root", "pull", "shards", "apply"}, GoTo(n, pc),
             mem' = mem, call' = call, net' = net, acked' = acked
      PROVE  IInv'
  <2> DEFINE new == [sync[n] EXCEPT !.pc = pc]
  <2>1. new \in SyncType /\ new.resp = sync[n].resp
    BY <1>1 DEF SyncType
  <2>2. sync' = [sync EXCEPT ![n] = new]
    BY <1>4 DEF GoTo
  <2> HIDE DEF new
  <2> QED
    BY <1>1, <1>4, <2>1, <2>2, RoundPreserves, Zenon
<1>5. CASE FillDigests(n) \/ FillRoot(n) \/ PullRoot(n) \/ Respond(n)
  BY <1>4, <1>5 DEF FillDigests, FillRoot, PullRoot, Respond
<1>6. CASE PullFails(n) \/ SyncDone(n)
  BY <1>2, <1>6, RoundPreserves DEF PullFails, SyncDone
<1>7. ASSUME NEW pc \in {"buckets", "collect"}, NEW M \in SUBSET (Shard \X Bucket),
             sync' = [sync EXCEPT ![n] = [sync[n] EXCEPT !.pc = pc, !.mask = M]],
             mem' = mem, call' = call, net' = net, acked' = acked
      PROVE  IInv'
  <2> DEFINE new == [sync[n] EXCEPT !.pc = pc, !.mask = M]
  <2>1. new \in SyncType /\ new.resp = sync[n].resp
    BY <1>1, Zenon DEF SyncType
  <2>2. sync' = [sync EXCEPT ![n] = new]
    BY <1>7
  <2> HIDE DEF new
  <2> QED
    BY <1>1, <1>7, <2>1, <2>2, RoundPreserves, Zenon
<1>8. CASE PullShards(n)
  <2> DEFINE M == {s \in Shard : ShardDigest(Peer(n), s) # req[n].shards[s]} \X Bucket
  <2>1. M \in SUBSET (Shard \X Bucket)
    OBVIOUS
  <2>2. /\ mem' = mem /\ call' = call /\ net' = net /\ acked' = acked
        /\ sync' = [sync EXCEPT ![n] = [sync[n] EXCEPT !.pc = "buckets", !.mask = M]]
    BY <1>8, Zenon DEF PullShards, IInv, Typed
  <2> HIDE DEF M
  <2> QED
    BY <2>1, <2>2, <1>7
<1>9. CASE PullBuckets(n)
  <2> DEFINE M == calculateMismatchMask(n)
  <2>1. M \in SUBSET (Shard \X Bucket)
    BY <1>1 DEF calculateMismatchMask, SyncType
  <2>2. /\ mem' = mem /\ call' = call /\ net' = net /\ acked' = acked
        /\ sync' = [sync EXCEPT ![n] = [sync[n] EXCEPT !.pc = "collect", !.mask = M]]
    BY <1>9, Zenon DEF PullBuckets, IInv, Typed
  <2> HIDE DEF M
  <2> QED
    BY <2>1, <2>2, <1>7
<1> QED
  BY <1>3, <1>5, <1>6, <1>8, <1>9, Zenon

\* The peer adds to the response what it holds of the keys the requester owns.
LEMMA CollectPreserves ==
  ASSUME IInv, NEW n \in Node, NEW s \in Shard, collectShardMismatches(n, s)
  PROVE  IInv'
<1> DEFINE new == [sync[n] EXCEPT !.mask = @ \ ({s} \X Bucket),
                                  !.resp = @ \cup Mismatches(n, s)]
<1>1. sync \in [Node -> SyncType] /\ sync[n] \in SyncType
  BY DEF IInv, Typed, SyncType
<1>2. \A e \in sync[n].resp : n \in OwnersOf[e.key]
  BY DEF IInv, FlightOwn
<1>3. \A e \in Mismatches(n, s) : e \in Entry /\ n \in OwnersOf[e.key]
  <2>1. sync[n].peer \in Node
    BY <1>1 DEF SyncType
  <2>2. \A k \in Key : Peer(n)[k] \in Value \cup {NoVal}
    BY <2>1 DEF IInv, Typed, Peer, Version
  <2>3. ASSUME NEW e \in Mismatches(n, s)
        PROVE  e \in Entry /\ n \in OwnersOf[e.key]
    <3>1. PICK k \in Key : /\ e = [key |-> k, val |-> Peer(n)[k]]
                           /\ Peer(n)[k] # NoVal /\ n \in OwnersOf[k]
      BY Zenon DEF Mismatches, isRequesterResponsible
    <3> QED
      BY <3>1, <2>2 DEF Entry
  <2> QED
    BY <2>3
<1>4. new \in SyncType /\ new.resp = sync[n].resp \cup Mismatches(n, s)
  BY <1>1, <1>3, Zenon DEF SyncType
<1>5. /\ mem' = mem /\ call' = call /\ net' = net /\ acked' = acked
      /\ sync' = [sync EXCEPT ![n] = new]
  BY <1>1, Zenon DEF collectShardMismatches
<1> HIDE DEF new
<1> QED
  BY <1>2, <1>3, <1>4, <1>5, RoundPreserves, Zenon

\* The requester merges one entry of the response.
LEMMA ApplyEntryPreserves ==
  ASSUME IInv, NEW n \in Node, NEW e \in sync[n].resp, ApplyEntry(n, e)
  PROVE  IInv'
<1> DEFINE new == [sync[n] EXCEPT !.resp = @ \ {e}]
<1>1. sync \in [Node -> SyncType] /\ sync[n] \in SyncType
  BY DEF IInv, Typed, SyncType
<1>2. e.key \in Key /\ e.val \in Value /\ n \in OwnersOf[e.key]
  BY <1>1 DEF IInv, FlightOwn, SyncType, Entry
<1>3. /\ call' = call /\ net' = net /\ acked' = acked
      /\ sync' = [sync EXCEPT ![n] = new]
      /\ Apply(n, e.key, e.val)
  BY DEF ApplyEntry
<1>4. new \in SyncType /\ new.resp = sync[n].resp \ {e}
  BY <1>1 DEF SyncType
<1> HIDE DEF new
<1>5. /\ mem' \in [Node -> [Key -> Version]]
      /\ OnlyOwnersHold'
      /\ \A o \in Node, j \in Key : \A w \in Value : Holds(o, j, w) => HoldsAfter(o, j, w)
  BY <1>2, <1>3, ApplyPreserves DEF IInv
<1>6. /\ sync' \in [Node -> SyncType]
      /\ sync'[n] = new /\ \A p \in Node \ {n} : sync'[p] = sync[p]
  BY <1>1, <1>3, <1>4
<1>7. Typed'
  BY <1>3, <1>5, <1>6, Zenon DEF IInv, Typed, SyncType
<1>8. FlightOwn'
  BY <1>3, <1>4, <1>6, Zenon DEF IInv, FlightOwn
<1>9. CallsOwn' /\ Answered'
  BY <1>3, <1>5, CallsAdvance, Zenon DEF Advances
<1> QED
  BY <1>3, <1>5, <1>7, <1>8, <1>9, AckedPreserved DEF IInv
-----------------------------------------------------------------------------
\* Every step preserves the invariant.
LEMMA NextIInv == IInv /\ [Next]_vars => IInv'
<1> SUFFICES ASSUME IInv, [Next]_vars PROVE IInv'
  OBVIOUS
<1>1. CASE UNCHANGED vars
  <2>1. Typed' /\ CallsOwn' /\ FlightOwn' /\ OnlyOwnersHold'
    BY <1>1 DEF vars, IInv, Typed, CallsOwn, FlightOwn, OnlyOwnersHold
  <2>2. Answered' /\ AckedHeld'
    BY <1>1 DEF vars, IInv, Answered, AckedHeld, Holds
  <2> QED
    BY <2>1, <2>2, Zenon DEF IInv
<1>2. CASE Write
  BY <1>2, SetPreserves, DeletePreserves, ExistsPreserves, ApplyLocalPreserves, Zenon,
     ReturnPreserves, TimeoutPreserves, PushPreserves DEF Write
<1>3. ASSUME NEW n \in Node, Sync(n)
      PROVE  IInv'
  BY <1>3, PullPreserves, CollectPreserves, ApplyEntryPreserves DEF Sync, Proceed
<1> QED
  BY <1>1, <1>2, <1>3 DEF Next

\* The invariant holds throughout.
LEMMA Invariance == Spec => []IInv
BY InitIInv, NextIInv, PTL DEF Spec

\* A write reported as successful by gateway.Set or gateway.Delete stays held or
\* superseded, at every owner in Strict mode and at one in Lenient mode, whatever
\* is lost, late or reconciled meanwhile.
THEOREM AckedHeldCorrect == Spec => []AckedHeld
<1>1. IInv => AckedHeld
  BY DEF IInv
<1> QED
  BY <1>1, Invariance, PTL

\* No key is ever stored at a node that does not own it: isRequesterResponsible
\* filters what Pull answers, and the gateway writes to owners only.
THEOREM OnlyOwnersHoldCorrect == Spec => []OnlyOwnersHold
<1>1. IInv => OnlyOwnersHold
  BY DEF IInv
<1> QED
  BY <1>1, Invariance, PTL
=============================================================================
