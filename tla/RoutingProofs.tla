--------------------------- MODULE RoutingProofs ---------------------------
(***************************************************************************)
(* The cluster implements Replicas, and a Get is sound, for every number   *)
(* of nodes, keys, writes and requests, every placement of the keys and    *)
(* both failure modes.                                                     *)
(*                                                                         *)
(* The invariant of ClusterProofs says where acknowledged versions are     *)
(* held.  Two more are needed: every version in a map or in flight comes   *)
(* from a write that was begun, under a stamp of its own (Sourced,         *)
(* Stamped); and a Get in progress can only meet versions that are as new  *)
(* as what was known when it began (GetsSound).                            *)
(***************************************************************************)
EXTENDS ClusterProofs, Routing

Versioned(k, v) == [key |-> k, val |-> v]

\* Whatever a node holds, sends, answers or acknowledges was written by a client.
Sourced ==
  /\ written \subseteq Entry
  /\ \A n \in Node, k \in Key : mem[n][k] # NoVal => Versioned(k, mem[n][k]) \in written
  /\ \A c \in Client : call[c].pc # "idle" => Versioned(call[c].key, call[c].val) \in written
  /\ \A m \in net : Versioned(m.key, m.val) \in written
  /\ \A n \in Node : sync[n].resp \subseteq written
  /\ acked \subseteq written

\* A stamp is not ahead of the clock it was read off, and names one version.
Stamped ==
  /\ clk \in [Node -> Nat]
  /\ \A w \in written : w.val.node \in Node /\ w.val.ts <= clk[w.val.node]
  /\ \A w, x \in written :
       w.key = x.key /\ w.val.ts = x.val.ts /\ w.val.node = x.val.node => w = x

GetType ==
  [pc : {"idle", "load", "proxy", "wait", "answer"}, node : Node, key : Key,
   todo : SUBSET Node, by : Handler \cup {User, Nobody}, val : Version,
   err : BOOLEAN, seen : SUBSET Value]

\* Every owner holds what the Get must not fall behind.
AllHold(g) == \A a \in g.seen : \A o \in OwnersOf[g.key] : Holds(o, g.key, a)

\* The node where it runs does, and will answer itself.
LocalHold(g) ==
  /\ g.node \in OwnersOf[g.key] /\ mem[g.node][g.key] # NoVal
  /\ \A a \in g.seen : Holds(g.node, g.key, a)

NotBehind(g, v) == \A a \in g.seen : ~lwwWins(g.key, v, a)

\* "Not found" has its reason.
Excused(g) ==
  g.seen = {} \/ g.err \/ \E w \in written : w.key = g.key /\ w.val.tomb /\ NotBehind(g, w.val)

\* One Get in progress.
Sound(g) ==
  /\ g.pc \in {"load", "proxy", "wait"} => g.val = NoVal
  /\ g.pc = "load" => AllHold(g) \/ LocalHold(g)
  /\ g.pc \in {"proxy", "wait"} => AllHold(g)
  /\ g.pc = "answer" => IF Live(g.val) THEN Versioned(g.key, g.val) \in written /\ NotBehind(g, g.val)
                                       ELSE Excused(g)

\* A Get knows what the one that waits for it knows, and nobody waits for two.
Linked ==
  /\ \A h \in Handler : get[h].pc # "idle" /\ get[h].by \in Handler =>
       /\ get[h].key = get[get[h].by].key /\ get[h].seen = get[get[h].by].seen
       /\ get[h].by # h /\ get[get[h].by].pc = "wait"
  /\ \A g, h \in Handler :
       /\ get[g].pc # "idle" /\ get[h].pc # "idle"
       /\ get[g].by = get[h].by /\ get[h].by \in Handler
       => g = h

GetsSound ==
  /\ get \in [Handler -> GetType]
  /\ \A h \in Handler : Sound(get[h])
  /\ Linked

\* The inductive invariant.
RInv == IInv /\ Sourced /\ Stamped /\ GetsSound

\* A step of the cluster is one of Replicas, or changes nothing that Replicas knows of.
Refines == Abstract!Next \/ UNCHANGED <<mem, written, acked>>
-----------------------------------------------------------------------------
(* Writes and anti-entropy.                                                *)

\* A step that begins no write and lets go of nothing but versions that were written.
LEMMA KeepsSources ==
  ASSUME Sourced, Stamped, clk' = clk, written' = written \cup Begun',
         \A c \in Client : call'[c].pc # "idle" =>
           /\ call[c].pc # "idle"
           /\ call'[c].key = call[c].key /\ call'[c].val = call[c].val,
         \A n \in Node, k \in Key : mem'[n][k] # NoVal => Versioned(k, mem'[n][k]) \in written,
         \A m \in net' : Versioned(m.key, m.val) \in written,
         \A n \in Node : sync'[n].resp \subseteq written,
         acked' \subseteq written
  PROVE  written' = written /\ Sourced' /\ Stamped'
<1>1. Begun' \subseteq written
  BY Zenon DEF Begun, Sourced, Versioned
<1>2. written' = written
  BY <1>1, Zenon
<1>3. Sourced'
  BY <1>2, Zenon DEF Sourced, Versioned
<1>4. Stamped'
  BY <1>2, Zenon DEF Stamped
<1> QED
  BY <1>2, <1>3, <1>4, Zenon

\* Node.Set and Node.Delete begin a write under a stamp that nobody has used.
LEMMA NewWrite ==
  ASSUME IInv, Sourced, Stamped, written' = written \cup Begun',
         NEW c \in Client, NEW n \in Node, NEW k \in Key, NEW v \in Value, NEW new \in CallType,
         v.node = n, Now(n, v.ts), clk' = [clk EXCEPT ![n] = v.ts],
         call' = [call EXCEPT ![c] = new], new.pc # "idle", new.key = k, new.val = v,
         net' = net \/ Replicate(n, k, v),
         mem' = mem, acked' = acked, sync' = sync
  PROVE  Sourced' /\ Stamped' /\ Refines
<1> DEFINE w == Versioned(k, v)
<1>1. /\ call \in [Client -> CallType]
      /\ call'[c] = new /\ \A b \in Client \ {c} : call'[b] = call[b]
  BY Zenon DEF IInv, Typed, CallType
<1>2. Begun' \subseteq written \cup {w} /\ w \in Begun'
  BY <1>1 DEF Begun, Sourced, Versioned
<1>3. written' = written \cup {w}
  BY <1>2, Zenon
<1>4. w \in Entry /\ w.key = k /\ w.val = v
  BY Zenon DEF Versioned, Entry
<1> HIDE DEF w
<1>5. Sourced'
  <2>1. \A m \in net' : Versioned(m.key, m.val) \in written'
    <3>1. CASE net' = net
      BY <3>1, <1>3, Zenon DEF Sourced
    <3>2. CASE Replicate(n, k, v)
      BY <3>2, <1>3, Zenon DEF Sourced, Replicate, w
    <3> QED
      BY <3>1, <3>2, Zenon
  <2>2. \A b \in Client : call'[b].pc # "idle" => Versioned(call'[b].key, call'[b].val) \in written'
    BY <1>1, <1>3, Zenon DEF Sourced, w
  <2>3. written' \subseteq Entry /\ acked' \subseteq written'
    BY <1>3, <1>4, Zenon DEF Sourced
  <2>4. \A o \in Node, j \in Key : mem'[o][j] # NoVal => Versioned(j, mem'[o][j]) \in written'
    BY <1>3, Zenon DEF Sourced
  <2>5. \A o \in Node : sync'[o].resp \subseteq written'
    BY <1>3, Zenon DEF Sourced
  <2> QED
    BY <2>1, <2>2, <2>3, <2>4, <2>5, Zenon DEF Sourced, Versioned
<1>6. /\ v.ts \in Nat /\ clk[n] \in Nat /\ clk[n] < v.ts
      /\ \A x \in written : x.val.ts \in Nat
  BY LwwConstants DEF Stamped, Now, Sourced, Entry, Value, Timestamp
<1>7. \A x \in written : x.val.node = n => x.val.ts < v.ts
  BY <1>6 DEF Stamped
<1>8. Stamped'
  <2>1. clk' \in [Node -> Nat]
    BY <1>6, Zenon DEF Stamped
  <2>2. \A x \in written' : x.val.node \in Node /\ x.val.ts <= clk'[x.val.node]
    <3>1. clk'[n] = v.ts /\ \A o \in Node \ {n} : clk'[o] = clk[o]
      BY Zenon DEF Stamped
    <3> QED
      BY <3>1, <1>3, <1>4, <1>6, <1>7 DEF Stamped
  <2>3. \A x, y \in written' :
          x.key = y.key /\ x.val.ts = y.val.ts /\ x.val.node = y.val.node => x = y
    <3>1. \A x \in written : x.val.node = n => x.val.ts # v.ts
      BY <1>6, <1>7
    <3> QED
      BY <3>1, <1>3, <1>4, Zenon DEF Stamped
  <2> QED
    BY <2>1, <2>2, <2>3, Zenon DEF Stamped
<1>9. Abstract!Write(k, v)
  <2>1. \A x \in written : x.key = k => x.val.ts # v.ts \/ x.val.node # v.node
    BY <1>6, <1>7
  <2> QED
    BY <2>1, <1>3, Zenon DEF Abstract!Write, w, Versioned
<1>10. Refines
  BY <1>9, Zenon DEF Refines, Abstract!Next, Abstract!Key, Abstract!Value, Abstract!Timestamp, Abstract!NodeID,
     Key, Value, Timestamp, NodeID
<1> QED
  BY <1>5, <1>8, <1>10, Zenon

\* A node that owns a key learns a version: ApplySet, ApplyDelete.
LEMMA LearnStep ==
  ASSUME IInv, Sourced, NEW n \in Node, NEW k \in Key, NEW v \in Value, n \in OwnersOf[k],
         Versioned(k, v) \in written, Apply(n, k, v), acked' = acked
  PROVE  /\ \A o \in Node, j \in Key : mem'[o][j] # NoVal => Versioned(j, mem'[o][j]) \in written
         /\ written' = written => Refines
<1> DEFINE w == Versioned(k, v)
<1>1. /\ mem \in [Node -> [Key -> Version]]
      /\ mem' = [mem EXCEPT ![n][k] = Merge(k, mem[n][k], v)]
      /\ w.key = k /\ w.val = v
  BY Zenon DEF IInv, Typed, Apply, Versioned
<1>2. \A o \in Node, j \in Key : mem'[o][j] # NoVal => Versioned(j, mem'[o][j]) \in written
  <2>1. \A o \in Node, j \in Key : mem'[o][j] = mem[o][j] \/ (j = k /\ mem'[o][j] = v)
    BY <1>1, Zenon DEF Merge
  <2> QED
    BY <2>1, Zenon DEF Sourced
<1>3. ASSUME written' = written
      PROVE  Refines
  <2>1. mem' = [mem EXCEPT ![n][w.key] = Abstract!Merge(w.key, mem[n][w.key], w.val)]
    BY <1>1, Zenon DEF Merge, lwwWins, Abstract!Merge, Abstract!lwwWins
  <2> HIDE DEF w
  <2>2. Abstract!Learn(n, w)
    BY <2>1, <1>1, <1>3, Zenon DEF Abstract!Learn, w
  <2> QED
    BY <2>2, Zenon DEF Refines, Abstract!Next, w
<1> QED
  BY <1>2, <1>3, Zenon

\* What has to be shown of every step of Cluster.
Keeps == Sourced' /\ Stamped' /\ Refines

\* The steps of a call.
LEMMA CallKeeps ==
  ASSUME IInv, IInv', Sourced, Stamped, written' = written \cup Begun', Write
  PROVE  Keeps
<1>1. call \in [Client -> CallType]
  BY Zenon DEF IInv, Typed, CallType
<1>2. ASSUME NEW c \in Client, NEW n \in Node, NEW k \in Key, NEW d \in Data,
             NEW t \in Timestamp, Set(c, n, k, d, t)
      PROVE  Keeps
  <2> DEFINE v == [ts |-> t, node |-> n, data |-> d, tomb |-> FALSE]
             new == [pc |-> "send", node |-> n, key |-> k, val |-> v,
                     todo |-> OwnersOf[k], errs |-> {}]
  <2>1. v \in Value /\ v.node = n /\ v.ts = t
    BY DEF Value, Node, NodeID
  <2>2. /\ mem' = mem /\ acked' = acked /\ sync' = sync /\ Now(n, v.ts)
        /\ clk' = [clk EXCEPT ![n] = v.ts] /\ call' = [call EXCEPT ![c] = new]
        /\ Replicate(n, k, v)
    BY <1>2, Zenon DEF Set
  <2> HIDE DEF v
  <2>3. new \in CallType /\ new.pc # "idle" /\ new.key = k /\ new.val = v
    BY <2>1, ClusterConstants, Zenon DEF CallType, Version
  <2> HIDE DEF new
  <2> QED
    BY <2>1, <2>2, <2>3, NewWrite, Zenon DEF Keeps
<1>3. ASSUME NEW c \in Client, NEW n \in Node, NEW k \in Key,
             NEW t \in Timestamp, Delete(c, n, k, t)
      PROVE  Keeps
  <2> DEFINE v == [ts |-> t, node |-> n, data |-> NoData, tomb |-> TRUE]
             new == [pc |-> "exists", node |-> n, key |-> k, val |-> v,
                     todo |-> OwnersOf[k], errs |-> {}]
  <2>1. v \in Value /\ v.node = n /\ v.ts = t
    BY DEF Value, Node, NodeID
  <2>2. /\ mem' = mem /\ acked' = acked /\ sync' = sync /\ net' = net /\ Now(n, v.ts)
        /\ clk' = [clk EXCEPT ![n] = v.ts] /\ call' = [call EXCEPT ![c] = new]
    BY <1>3, Zenon DEF Delete
  <2> HIDE DEF v
  <2>3. new \in CallType /\ new.pc # "idle" /\ new.key = k /\ new.val = v
    BY <2>1, ClusterConstants, Zenon DEF CallType, Version
  <2> HIDE DEF new
  <2> QED
    BY <2>1, <2>2, <2>3, NewWrite, Zenon DEF Keeps
<1>4. ASSUME NEW c \in Client, Exists(c)
      PROVE  Keeps
  <2>1. /\ mem' = mem /\ acked' = acked /\ sync' = sync /\ clk' = clk
        /\ call[c].pc = "exists" /\ call' = [call EXCEPT ![c].pc = "send"]
        /\ Replicate(call[c].node, call[c].key, call[c].val)
    BY <1>4, Zenon DEF Exists
  <2>2. \A b \in Client : /\ call'[b].key = call[b].key /\ call'[b].val = call[b].val
                           /\ call'[b].pc # "idle" => call[b].pc # "idle"
    BY <2>1, <1>1, Zenon DEF CallType
  <2>3. \A m \in net' : Versioned(m.key, m.val) \in written
    BY <2>1, Zenon DEF Sourced, Replicate
  <2>4. written' = written /\ Sourced' /\ Stamped'
    BY <2>1, <2>2, <2>3, KeepsSources DEF Sourced
  <2> QED
    BY <2>1, <2>4, Zenon DEF Keeps, Refines
<1>5. ASSUME NEW c \in Client, ApplyLocal(c)
      PROVE  Keeps
  <2>1. /\ acked' = acked /\ sync' = sync /\ clk' = clk /\ net' = net
        /\ call[c].pc = "send" /\ call[c].node \in call[c].todo
        /\ call' = [call EXCEPT ![c].todo = @ \ {call[c].node}]
        /\ Apply(call[c].node, call[c].key, call[c].val)
    BY <1>5, Zenon DEF ApplyLocal
  <2>2. \A b \in Client : call'[b].key = call[b].key /\ call'[b].val = call[b].val
                           /\ call'[b].pc = call[b].pc
    BY <2>1, <1>1, Zenon DEF CallType
  <2>3. /\ call[c].node \in Node /\ call[c].key \in Key /\ call[c].val \in Value
        /\ call[c].node \in OwnersOf[call[c].key]
        /\ Versioned(call[c].key, call[c].val) \in written
    BY <2>1, <1>1, Zenon DEF IInv, CallsOwn, CallType, Sourced
  <2>4. /\ \A o \in Node, j \in Key : mem'[o][j] # NoVal => Versioned(j, mem'[o][j]) \in written
        /\ written' = written => Refines
    BY <2>1, <2>3, LearnStep, Zenon
  <2>5. written' = written /\ Sourced' /\ Stamped'
    BY <2>1, <2>2, <2>4, KeepsSources, Zenon DEF Sourced
  <2> QED
    BY <2>4, <2>5, Zenon DEF Keeps
<1>6. ASSUME NEW m \in net, Push(m)
      PROVE  Keeps
  <2>1. /\ acked' = acked /\ sync' = sync /\ clk' = clk /\ net' = net \ {m}
        /\ call' = [c \in Client |-> IF Awaits(c, m)
                                     THEN [call[c] EXCEPT !.todo = @ \ {m.to}]
                                     ELSE call[c]]
        /\ Apply(m.to, m.key, m.val)
    BY <1>6, Zenon DEF Push
  <2>2. \A b \in Client : call'[b].key = call[b].key /\ call'[b].val = call[b].val
                           /\ call'[b].pc = call[b].pc
    BY <2>1, <1>1, Zenon DEF CallType
  <2>3. /\ m.to \in Node /\ m.key \in Key /\ m.val \in Value /\ m.to \in OwnersOf[m.key]
        /\ Versioned(m.key, m.val) \in written
    BY Zenon DEF IInv, Typed, Message, FlightOwn, Sourced
  <2>4. /\ \A o \in Node, j \in Key : mem'[o][j] # NoVal => Versioned(j, mem'[o][j]) \in written
        /\ written' = written => Refines
    BY <2>1, <2>3, LearnStep, Zenon
  <2>5. written' = written /\ Sourced' /\ Stamped'
    BY <2>1, <2>2, <2>4, KeepsSources, Zenon DEF Sourced
  <2> QED
    BY <2>4, <2>5, Zenon DEF Keeps
<1>7. ASSUME NEW c \in Client, NEW o \in Node, Timeout(c, o)
      PROVE  Keeps
  <2>1. /\ mem' = mem /\ acked' = acked /\ sync' = sync /\ clk' = clk /\ net' = net
        /\ call' = [call EXCEPT ![c].todo = @ \ {o}, ![c].errs = @ \cup {o}]
    BY <1>7, Zenon DEF Timeout
  <2>2. \A b \in Client : call'[b].key = call[b].key /\ call'[b].val = call[b].val
                           /\ call'[b].pc = call[b].pc
    BY <2>1, <1>1, Zenon DEF CallType
  <2>3. written' = written /\ Sourced' /\ Stamped'
    BY <2>1, <2>2, KeepsSources, Zenon DEF Sourced
  <2> QED
    BY <2>1, <2>3, Zenon DEF Keeps, Refines
<1>8. ASSUME NEW c \in Client, Return(c)
      PROVE  Keeps
  <2> DEFINE w == Versioned(call[c].key, call[c].val)
  <2>1. /\ mem' = mem /\ sync' = sync /\ clk' = clk /\ net' = net /\ call[c].pc = "send"
        /\ call' = [call EXCEPT ![c] = NoCall]
        /\ acked' = acked \cup [key : {call[c].key}, val : IF Failed(c) THEN {} ELSE {call[c].val}]
    BY <1>8, Zenon DEF Return
  <2>2. \A b \in Client : call'[b].pc # "idle" => call'[b] = call[b]
    BY <2>1, <1>1, Zenon DEF NoCall
  <2>3. acked' = acked \/ acked' = acked \cup {w}
    BY <2>1 DEF Versioned
  <2>4. w \in written /\ w.key = call[c].key /\ w.val = call[c].val
    BY <2>1, Zenon DEF Sourced, Versioned
  <2> HIDE DEF w
  <2>5. written' = written /\ Sourced' /\ Stamped'
    BY <2>1, <2>2, <2>3, <2>4, KeepsSources, Zenon DEF Sourced
  <2>6. ASSUME acked' = acked \cup {w}
        PROVE  Abstract!Acknowledge(w)
    <3>1. IF Strict THEN \A n \in OwnersOf[w.key] : Holds(n, w.key, w.val)
                    ELSE \E n \in OwnersOf[w.key] : Holds(n, w.key, w.val)
      BY <2>1, <2>6, Zenon DEF IInv, AckedHeld, Holds
    <3>2. \A n : Holds(n, w.key, w.val) = Abstract!Has(n, w)
      BY Zenon DEF Holds, Abstract!Has, lwwWins, Abstract!lwwWins
    <3> QED
      BY <3>1, <3>2, <2>1, <2>4, <2>5, <2>6, Zenon DEF Abstract!Acknowledge
  <2>7. Refines
    BY <2>1, <2>3, <2>4, <2>5, <2>6, Zenon DEF Refines, Abstract!Next
  <2> QED
    BY <2>5, <2>7, Zenon DEF Keeps
<1> QED
  BY <1>2, <1>3, <1>4, <1>5, <1>6, <1>7, <1>8, Zenon DEF Write
\* A step of a round that changes no map and collects only what was written.
LEMMA RoundKeeps ==
  ASSUME Sourced, Stamped, written' = written \cup Begun',
         mem' = mem, clk' = clk, call' = call, net' = net, acked' = acked,
         \A p \in Node : sync'[p].resp \subseteq written
  PROVE  Keeps
<1>1. written' = written /\ Sourced' /\ Stamped'
  BY KeepsSources, Zenon DEF Sourced
<1> QED
  BY <1>1, Zenon DEF Keeps, Refines

\* The steps of a round of anti-entropy.
LEMMA SyncKeeps ==
  ASSUME IInv, Sourced, Stamped, written' = written \cup Begun', NEW n \in Node, Sync(n)
  PROVE  Keeps
<1>1. sync \in [Node -> SyncType] /\ sync[n] \in SyncType
  BY Zenon DEF IInv, Typed, SyncType
<1>2. \A p \in Node : sync[p].resp \subseteq written
  BY Zenon DEF Sourced
<1>3. CASE \E p \in Node : performSync(n, p)
  <2>1. PICK p \in Node : performSync(n, p)
    BY <1>3, Zenon
  <2>2. sync'[n].resp = {} /\ \A q \in Node \ {n} : sync'[q] = sync[q]
    BY <2>1, <1>1, Zenon DEF performSync, NoSync
  <2>3. mem' = mem /\ clk' = clk /\ call' = call /\ net' = net /\ acked' = acked
    BY <2>1, Zenon DEF performSync
  <2> QED
    BY <2>2, <2>3, <1>2, RoundKeeps, Zenon
<1>4. CASE FillDigests(n) \/ FillRoot(n) \/ PullRoot(n) \/ PullFails(n)
           \/ PullShards(n) \/ PullBuckets(n) \/ Respond(n) \/ SyncDone(n)
  <2>1. mem' = mem /\ clk' = clk /\ call' = call /\ net' = net /\ acked' = acked
    BY <1>4, Zenon DEF FillDigests, FillRoot, PullRoot, PullFails, PullShards, PullBuckets,
                Respond, SyncDone
  <2>2. \A q \in Node : sync'[q].resp \subseteq sync[q].resp
    <3>1. CASE FillDigests(n) \/ FillRoot(n) \/ PullRoot(n) \/ Respond(n)
      BY <3>1, <1>1 DEF FillDigests, FillRoot, PullRoot, Respond, GoTo, SyncType
    <3>2. CASE PullFails(n) \/ SyncDone(n)
      BY <3>2, <1>1 DEF PullFails, SyncDone, NoSync
    <3>3. CASE PullShards(n)
      BY <3>3, <1>1, Zenon DEF PullShards, SyncType
    <3>4. CASE PullBuckets(n)
      BY <3>4, <1>1, Zenon DEF PullBuckets, SyncType
    <3> QED
      BY <3>1, <3>2, <3>3, <3>4, <1>4, Zenon
  <2> QED
    BY <2>1, <2>2, <1>2, RoundKeeps, Zenon
<1>5. ASSUME NEW s \in Shard, collectShardMismatches(n, s)
      PROVE  Keeps
  <2>1. /\ mem' = mem /\ clk' = clk /\ call' = call /\ net' = net /\ acked' = acked
        /\ sync' = [sync EXCEPT ![n].mask = @ \ ({s} \X Bucket),
                                ![n].resp = @ \cup Mismatches(n, s)]
    BY <1>5, Zenon DEF collectShardMismatches
  <2>2. /\ sync'[n].resp = sync[n].resp \cup Mismatches(n, s)
        /\ \A q \in Node \ {n} : sync'[q] = sync[q]
    BY <2>1, <1>1, Zenon DEF SyncType
  <2>3. Mismatches(n, s) \subseteq written
    <3>1. sync[n].peer \in Node
      BY <1>1, Zenon DEF SyncType
    <3>2. \A k \in Key : Peer(n)[k] # NoVal => Versioned(k, Peer(n)[k]) \in written
      BY <3>1, Zenon DEF Sourced, Peer
    <3> QED
      BY <3>2, Zenon DEF Mismatches, Versioned
  <2> QED
    BY <2>1, <2>2, <2>3, <1>2, RoundKeeps, Zenon
<1>6. ASSUME NEW e \in sync[n].resp, ApplyEntry(n, e)
      PROVE  Keeps
  <2>1. /\ clk' = clk /\ call' = call /\ net' = net /\ acked' = acked
        /\ sync' = [sync EXCEPT ![n].resp = @ \ {e}]
        /\ Apply(n, e.key, e.val)
    BY <1>6, Zenon DEF ApplyEntry
  <2>2. \A q \in Node : sync'[q].resp \subseteq sync[q].resp
    BY <2>1, <1>1, Zenon DEF SyncType
  <2>3. /\ e.key \in Key /\ e.val \in Value /\ n \in OwnersOf[e.key]
        /\ Versioned(e.key, e.val) \in written
    <3>1. e \in written /\ e \in Entry
      BY <1>2, Zenon DEF Sourced
    <3>2. e = Versioned(e.key, e.val)
      BY <3>1, Zenon DEF Entry, Versioned
    <3> QED
      BY <3>1, <3>2, Zenon DEF IInv, FlightOwn, Entry
  <2>4. /\ \A o \in Node, j \in Key : mem'[o][j] # NoVal => Versioned(j, mem'[o][j]) \in written
        /\ written' = written => Refines
    BY <2>1, <2>3, LearnStep, Zenon
  <2>5. written' = written /\ Sourced' /\ Stamped'
    BY <2>1, <2>2, <2>4, <1>2, KeepsSources, Zenon DEF Sourced
  <2> QED
    BY <2>4, <2>5, Zenon DEF Keeps
<1> QED
  BY <1>3, <1>4, <1>5, <1>6, Zenon DEF Sync, Proceed

\* Every write, Push and step of anti-entropy.
LEMMA NextKeeps ==
  ASSUME IInv, Sourced, Stamped, WriteOrSync
  PROVE  IInv' /\ Keeps
<1>1. Next /\ written' = written \cup Begun'
  BY Zenon DEF WriteOrSync
<1>2. IInv'
  BY <1>1, NextIInv, Zenon
<1> QED
  BY <1>1, <1>2, CallKeeps, SyncKeeps, Zenon DEF Next
-----------------------------------------------------------------------------
(* Reads.                                                                  *)

\* Writes and anti-entropy take nothing away that a Get relies on.
LEMMA WritesKeepGets ==
  ASSUME IInv, Sourced, GetsSound, Refines, written \subseteq written', get' = get
  PROVE  GetsSound'
<1> DEFINE Grows ==
             /\ \A o \in Node, j \in Key : \A w \in Value : Holds(o, j, w) => HoldsAfter(o, j, w)
             /\ \A o \in Node, j \in Key : mem[o][j] # NoVal => mem'[o][j] # NoVal
<1>1. Grows
  <2>1. CASE mem' = mem
    BY <2>1, Zenon DEF Holds, HoldsAfter
  <2>2. ASSUME NEW n \in Node, NEW w \in written, Abstract!Learn(n, w)
        PROVE  Grows
    <3>1. w.key \in Key /\ w.val \in Value /\ n \in OwnersOf[w.key]
      BY <2>2, Zenon DEF Sourced, Entry, Abstract!Learn
    <3>2. Apply(n, w.key, w.val)
      BY <2>2, Zenon DEF Abstract!Learn, Apply, Merge, lwwWins, Abstract!Merge, Abstract!lwwWins
    <3>3. \A o \in Node, j \in Key : \A v \in Value : Holds(o, j, v) => HoldsAfter(o, j, v)
      BY <3>1, <3>2, ApplyPreserves, Zenon DEF IInv
    <3>4. \A o \in Node, j \in Key : mem[o][j] # NoVal => mem'[o][j] # NoVal
      <4>1. mem \in [Node -> [Key -> Version]] /\ w.val # NoVal
        BY <3>1, VersionCompare, Zenon DEF IInv, Typed
      <4> QED
        BY <4>1, <3>1, <3>2, Zenon DEF Apply, Merge
    <3> QED
      BY <3>3, <3>4, Zenon
  <2> QED
    BY <2>1, <2>2, Zenon DEF Refines, Abstract!Next, Abstract!Acknowledge, Abstract!Write
<1>2. ASSUME NEW h \in Handler
      PROVE  Sound(get[h])'
  <2> DEFINE g == get[h]
  <2>1. g \in GetType /\ Sound(g) /\ g' = g
    BY Zenon DEF GetsSound
  <2>2. g.key \in Key /\ g.node \in Node /\ g.seen \subseteq Value /\ OwnersOf[g.key] \subseteq Node
    BY <2>1, ClusterConstants, Zenon DEF GetType
  <2> HIDE DEF g
  <2>3. AllHold(g) => AllHold(g)'
    BY <2>1, <2>2, <1>1, Zenon DEF AllHold, Holds, HoldsAfter
  <2>4. LocalHold(g) => LocalHold(g)'
    BY <2>1, <2>2, <1>1, Zenon DEF LocalHold, Holds, HoldsAfter
  <2>5. Excused(g) => Excused(g)'
    BY <2>1, Zenon DEF Excused, NotBehind
  <2>6. Sound(g)'
    BY <2>1, <2>3, <2>4, <2>5, Zenon DEF Sound, NotBehind
  <2> QED
    BY <2>6, Zenon DEF g
<1> QED
  BY <1>2, Zenon DEF GetsSound, Linked

\* A Get changes nothing that what is known of the other Gets depends on.
LEMMA ReadStep ==
  ASSUME mem' = mem, written' = written,
         get' \in [Handler -> GetType], \A h \in Handler : Sound(get'[h]), Linked'
  PROVE  GetsSound'
BY DEF GetsSound, Sound, AllHold, LocalHold, Excused, NotBehind, Holds

\* The loop of gateway.Get goes on, or ends with nothing found for a reason.
LEMMA LoopSound ==
  ASSUME NEW g \in GetType, g.val = NoVal, AllHold(g), Excused(g) \/ g.todo # {}
  PROVE  /\ Loop(g) \in GetType /\ Sound(Loop(g))
         /\ Loop(g).by = g.by /\ Loop(g).key = g.key /\ Loop(g).seen = g.seen
         /\ Loop(g).pc \in {"proxy", "answer"}
<1> DEFINE l == Loop(g)
<1>1. /\ l \in GetType /\ l.val = NoVal
      /\ l.by = g.by /\ l.key = g.key /\ l.seen = g.seen /\ l.err = g.err
      /\ l.pc = IF g.todo = {} THEN "answer" ELSE "proxy"
  BY Zenon DEF Loop, GetType
<1> HIDE DEF l
<1>2. AllHold(l) /\ (Excused(g) => Excused(l))
  BY <1>1, Zenon DEF AllHold, Excused, NotBehind
<1>3. ~Live(NoVal)
  BY DEF Live, NoVal
<1>4. Sound(l)
  BY <1>1, <1>2, <1>3, Zenon DEF Sound
<1> QED
  BY <1>1, <1>4, Zenon DEF l

\* A step of one Get that nobody it has asked is answering.
LEMMA OneGet ==
  ASSUME GetsSound, NEW h \in Handler, NEW new \in GetType,
         mem' = mem, written' = written, get' = [get EXCEPT ![h] = new],
         get[h].pc # "wait", Sound(new), new.pc # "idle",
         \/ new.by \notin Handler
         \/ /\ get[h].pc # "idle" /\ new.by = get[h].by
            /\ new.key = get[h].key /\ new.seen = get[h].seen
  PROVE  GetsSound'
<1>1. /\ get' \in [Handler -> GetType]
      /\ get'[h] = new /\ \A g \in Handler \ {h} : get'[g] = get[g]
  BY Zenon DEF GetsSound
<1>2. \A g \in Handler : Sound(get'[g])
  BY <1>1, Zenon DEF GetsSound
<1>3. Linked'
  BY <1>1 DEF GetsSound, Linked
<1> QED
  BY <1>1, <1>2, <1>3, ReadStep, Zenon
\* Node.Get is called: what it must not fall behind is held here, or by every owner.
LEMMA UserGetSound ==
  ASSUME RInv, NEW h \in Handler, NEW n \in Node, NEW k \in Key, UserGet(h, n, k)
  PROVE  GetsSound'
<1> DEFINE new == Called(n, k, User, Known(n, k))
<1>1. /\ mem' = mem /\ written' = written /\ get[h].pc = "idle"
      /\ get' = [get EXCEPT ![h] = new]
  BY Zenon DEF UserGet, vars
<1>2. /\ mem[n][k] \in Version /\ NoVal \notin Value
      /\ acked \subseteq Entry /\ OwnersOf[k] \subseteq Node
  BY ClusterConstants, VersionCompare DEF RInv, IInv, Typed, Version, Value, Timestamp
<1>3. Known(n, k) \subseteq Value
  BY <1>2, Zenon DEF Known, Version, Entry
<1>4. new = [pc |-> "load", node |-> n, key |-> k, todo |-> {}, by |-> User,
             val |-> NoVal, err |-> FALSE, seen |-> Known(n, k)]
  BY Zenon DEF Called
<1> HIDE DEF new
<1>5. new \in GetType
  BY <1>3, <1>4, Zenon DEF GetType, Version
<1>6. ASSUME NEW a \in acked, Strict, a.key = k
      PROVE  \A o \in OwnersOf[k] : Holds(o, k, a.val)
  BY <1>6, Zenon DEF RInv, IInv, AckedHeld
<1>7. Sound(new)
  <2>1. CASE mem[n][k] = NoVal
    <3>1. AllHold(new)
      BY <1>4, <1>6, <2>1, Zenon DEF AllHold, Known
    <3> QED
      BY <3>1, <1>4, Zenon DEF Sound
  <2>2. CASE mem[n][k] # NoVal
    <3>1. n \in OwnersOf[k]
      BY <2>2, Zenon DEF RInv, IInv, OnlyOwnersHold
    <3>2. Holds(n, k, mem[n][k])
      BY <1>2, <2>2, LwwIrreflexive, Zenon DEF Holds, Version
    <3>3. LocalHold(new)
      BY <3>1, <3>2, <1>4, <1>6, <2>2, Zenon DEF LocalHold, Known
    <3> QED
      BY <3>3, <1>4, Zenon DEF Sound
  <2> QED
    BY <2>1, <2>2, Zenon
<1> QED
  BY <1>1, <1>4, <1>5, <1>7, OneGet, RoutingConstants, Zenon DEF RInv
\* Node.Get answers from its own map, or gateway.Get begins its loop.
LEMMA LoadSound ==
  ASSUME RInv, NEW h \in Handler, Load(h)
  PROVE  GetsSound'
<1> DEFINE g == get[h]
           n == g.node
           k == g.key
           here == [g EXCEPT !.pc = "answer", !.val = mem[n][k]]
           more == [g EXCEPT !.todo = OwnersOf[k] \ {n}]
<1>1. /\ mem' = mem /\ written' = written /\ g.pc = "load"
      /\ get' = [get EXCEPT ![h] = IF Trusted(n, k) THEN here ELSE Loop(more)]
  BY Zenon DEF Load, vars
<1>2. g \in GetType /\ Sound(g)
  BY Zenon DEF RInv, GetsSound
<1>3. /\ n \in Node /\ k \in Key /\ g.seen \subseteq Value
      /\ mem[n][k] \in Version /\ OwnersOf[k] \subseteq Node /\ OwnersOf[k] # {}
  BY <1>2, ClusterConstants DEF GetType, RInv, IInv, Typed
<1>4. g.val = NoVal /\ (AllHold(g) \/ LocalHold(g))
  BY <1>1, <1>2, Zenon DEF Sound
<1>5. CASE Trusted(n, k)
  <2>1. /\ here \in GetType /\ here.pc = "answer" /\ here.val = mem[n][k]
        /\ here.by = g.by /\ here.key = k /\ here.seen = g.seen
    BY <1>2, <1>3, Zenon DEF GetType
  <2> DEFINE w == Versioned(k, mem[n][k])
  <2>2. w \in written /\ w.key = k /\ w.val = mem[n][k] /\ mem[n][k] \in Value
    BY <1>3, <1>5, Zenon DEF Trusted, RInv, Sourced, Versioned, Version
  <2>3. NotBehind(here, mem[n][k])
    BY <2>1, <1>3, <1>4, <1>5, Zenon DEF AllHold, LocalHold, NotBehind, Holds, Trusted, isOwner
  <2>4. ~Live(mem[n][k]) => mem[n][k].tomb
    BY <2>2, LwwConstants DEF Live, Value, Timestamp
  <2> HIDE DEF w, here
  <2>5. Excused(here) \/ Live(mem[n][k])
    BY <2>1, <2>2, <2>3, <2>4, Zenon DEF Excused
  <2>6. Sound(here)
    BY <2>1, <2>2, <2>3, <2>5, Zenon DEF Sound, w
  <2>7. get' = [get EXCEPT ![h] = here]
    BY <1>1, <1>5, Zenon
  <2> QED
    BY <1>1, <2>1, <2>6, <2>7, OneGet, Zenon DEF RInv
<1>6. CASE ~Trusted(n, k)
  <2>1. /\ more \in GetType /\ more.val = NoVal /\ more.todo = OwnersOf[k] \ {n}
        /\ more.by = g.by /\ more.key = k /\ more.seen = g.seen
    BY <1>2, <1>3, <1>4, Zenon DEF GetType
  <2> HIDE DEF more
  <2>2. AllHold(g) /\ AllHold(more)
    BY <2>1, <1>4, <1>6, Zenon DEF AllHold, LocalHold, Trusted, isOwner
  <2>3. ASSUME more.todo = {}
        PROVE  Excused(more)
    <3>1. n \in OwnersOf[k] /\ mem[n][k] = NoVal
      BY <2>1, <2>3, <1>3, <1>6, Zenon DEF Trusted, isOwner
    <3>2. g.seen = {}
      BY <3>1, <2>2, <1>3, VersionCompare, Zenon DEF AllHold, Holds
    <3> QED
      BY <3>2, <2>1, Zenon DEF Excused
  <2>4. /\ Loop(more) \in GetType /\ Sound(Loop(more))
        /\ Loop(more).by = g.by /\ Loop(more).key = k /\ Loop(more).seen = g.seen
        /\ Loop(more).pc \in {"proxy", "answer"}
    BY <2>1, <2>2, <2>3, LoopSound, Zenon
  <2>5. get' = [get EXCEPT ![h] = Loop(more)]
    BY <1>1, <1>6, Zenon
  <2> QED
    BY <1>1, <2>4, <2>5, OneGet, Zenon DEF RInv
<1> QED
  BY <1>5, <1>6, Zenon

\* proxyGetRemote hands the request to another owner, which holds what is needed too.
LEMMA ProxySound ==
  ASSUME RInv, NEW h \in Handler, NEW o \in Node, NEW g \in Handler, Proxy(h, o, g)
  PROVE  GetsSound'
<1> DEFINE asks == [get[h] EXCEPT !.pc = "wait", !.todo = @ \ {o}]
           asked == Called(o, get[h].key, h, get[h].seen)
<1>1. /\ mem' = mem /\ written' = written
      /\ get[h].pc = "proxy" /\ get[g].pc = "idle" /\ g # h
  BY Zenon DEF Proxy, vars
<1>2. get \in [Handler -> GetType] /\ get[h] \in GetType /\ Sound(get[h])
  BY Zenon DEF RInv, GetsSound
<1>3. get' = [get EXCEPT ![h] = asks, ![g] = asked]
  BY <1>1, <1>2, Zenon DEF Proxy
<1>4. /\ asks \in GetType /\ asks.pc = "wait" /\ asks.val = get[h].val
      /\ asks.by = get[h].by /\ asks.key = get[h].key /\ asks.seen = get[h].seen
  BY <1>2, Zenon DEF GetType
<1>5. asked = [pc |-> "load", node |-> o, key |-> get[h].key, todo |-> {}, by |-> h,
               val |-> NoVal, err |-> FALSE, seen |-> get[h].seen]
  BY Zenon DEF Called
<1> HIDE DEF asks, asked
<1>6. asked \in GetType
  BY <1>2, <1>5, Zenon DEF GetType, Version
<1>7. /\ get' \in [Handler -> GetType] /\ get'[h] = asks /\ get'[g] = asked
      /\ \A f \in Handler \ {g, h} : get'[f] = get[f]
  BY <1>1, <1>2, <1>3, <1>4, <1>6, Zenon
<1>8. Sound(asks) /\ Sound(asked)
  BY <1>1, <1>2, <1>4, <1>5, Zenon DEF Sound, AllHold
<1>9. Linked'
  BY <1>1, <1>4, <1>5, <1>7 DEF RInv, GetsSound, Linked
<1> QED
  BY <1>1, <1>7, <1>8, <1>9, ReadStep, Zenon DEF RInv, GetsSound
\* An owner cannot be asked: the loop goes on, and "not found" is excused.
LEMMA ProxyFailsSound ==
  ASSUME RInv, NEW h \in Handler, NEW o \in Node, ProxyFails(h, o)
  PROVE  GetsSound'
<1> DEFINE rest == [get[h] EXCEPT !.todo = @ \ {o}, !.err = TRUE]
<1>1. /\ mem' = mem /\ written' = written /\ get[h].pc = "proxy"
      /\ get' = [get EXCEPT ![h] = Loop(rest)]
  BY Zenon DEF ProxyFails, vars
<1>2. get[h] \in GetType /\ Sound(get[h])
  BY Zenon DEF RInv, GetsSound
<1>3. /\ rest \in GetType /\ rest.val = get[h].val /\ rest.err = TRUE
      /\ rest.by = get[h].by /\ rest.key = get[h].key /\ rest.seen = get[h].seen
  BY <1>2, Zenon DEF GetType
<1> HIDE DEF rest
<1>4. rest.val = NoVal /\ AllHold(rest) /\ Excused(rest)
  BY <1>1, <1>2, <1>3, Zenon DEF Sound, AllHold, Excused
<1>5. /\ Loop(rest) \in GetType /\ Sound(Loop(rest))
      /\ Loop(rest).by = get[h].by /\ Loop(rest).key = get[h].key
      /\ Loop(rest).seen = get[h].seen /\ Loop(rest).pc \in {"proxy", "answer"}
  BY <1>3, <1>4, LoopSound, Zenon
<1> QED
  BY <1>1, <1>5, OneGet, Zenon DEF RInv

\* A caller gives up; whoever serves it goes on for nobody.
LEMMA GetTimeoutSound ==
  ASSUME RInv, NEW h \in Handler, GetTimeout(h)
  PROVE  GetsSound'
<1> DEFINE rest == [get[h] EXCEPT !.err = TRUE]
<1>1. /\ mem' = mem /\ written' = written /\ get[h].pc = "wait"
      /\ get \in [Handler -> GetType] /\ \A g \in Handler : get[g] \in GetType /\ Sound(get[g])
  BY Zenon DEF GetTimeout, vars, RInv, GetsSound
<1>2. /\ rest \in GetType /\ rest.val = get[h].val /\ rest.err = TRUE
      /\ rest.by = get[h].by /\ rest.key = get[h].key /\ rest.seen = get[h].seen
  BY <1>1 DEF GetType
<1> HIDE DEF rest
<1>3. rest.val = NoVal /\ AllHold(rest) /\ Excused(rest)
  BY <1>1, <1>2, Zenon DEF Sound, AllHold, Excused
<1>4. /\ Loop(rest) \in GetType /\ Sound(Loop(rest))
      /\ Loop(rest).by = get[h].by /\ Loop(rest).key = get[h].key
      /\ Loop(rest).seen = get[h].seen /\ Loop(rest).pc \in {"proxy", "answer"}
  BY <1>2, <1>3, LoopSound, Zenon
<1>5. get'[h] = Loop(rest)
  BY Zenon DEF GetTimeout, rest
<1>6. ASSUME NEW g \in Handler \ {h}
      PROVE  /\ get'[g] \in GetType /\ Sound(get'[g])
             /\ get'[g].pc = get[g].pc /\ get'[g].key = get[g].key /\ get'[g].seen = get[g].seen
             /\ get'[g].by = IF get[g].by = h THEN Nobody ELSE get[g].by
  <2>1. CASE get[g].by = h
    <3> DEFINE new == [get[g] EXCEPT !.by = Nobody]
    <3>1. get'[g] = new
      BY <2>1, Zenon DEF GetTimeout
    <3>2. /\ new \in GetType /\ new.by = Nobody
          /\ \A f \in {"pc", "node", "key", "todo", "val", "err", "seen"} : new[f] = get[g][f]
      BY <1>1 DEF GetType
    <3> HIDE DEF new
    <3>3. /\ new.pc = get[g].pc /\ new.node = get[g].node /\ new.key = get[g].key
          /\ new.val = get[g].val /\ new.err = get[g].err /\ new.seen = get[g].seen
      BY <3>2, Zenon
    <3>4. Sound(new)
      BY <3>3, <1>1 DEF Sound, AllHold, LocalHold, Excused, NotBehind
    <3> QED
      BY <2>1, <3>1, <3>2, <3>3, <3>4, Zenon
  <2>2. CASE get[g].by # h
    <3>1. get'[g] = get[g]
      BY <2>2, Zenon DEF GetTimeout
    <3> QED
      BY <2>2, <3>1, <1>1, Zenon
  <2> QED
    BY <2>1, <2>2, Zenon
<1>7. get' \in [Handler -> GetType] /\ \A g \in Handler : Sound(get'[g])
  <2>1. \A g \in Handler : get'[g] \in GetType /\ Sound(get'[g])
    BY <1>4, <1>5, <1>6, Zenon
  <2>2. get' = [g \in Handler |-> get'[g]]
    BY Zenon DEF GetTimeout
  <2> QED
    BY <2>1, <2>2, Zenon
<1>8. Linked'
  BY <1>1, <1>4, <1>5, <1>6, RoutingConstants DEF RInv, GetsSound, Linked
<1> QED
  BY <1>1, <1>7, <1>8, ReadStep, Zenon
\* What a Get that waits makes of an answer that is sound.
LEMMA ReceivedSound ==
  ASSUME NEW w \in GetType, NEW a \in GetType, w.pc = "wait", a.pc = "answer",
         Sound(w), Sound(a), a.key = w.key, a.seen = w.seen
  PROVE  /\ Received(w, a) \in GetType /\ Sound(Received(w, a))
         /\ Received(w, a).by = w.by /\ Received(w, a).key = w.key
         /\ Received(w, a).seen = w.seen /\ Received(w, a).pc # "wait"
<1>1. w.val = NoVal /\ AllHold(w)
  BY Zenon DEF Sound
<1>2. CASE Live(a.val)
  <2> DEFINE new == [w EXCEPT !.pc = "answer", !.val = a.val]
  <2>1. Received(w, a) = new
    BY <1>2, Zenon DEF Received
  <2>2. /\ new \in GetType /\ new.pc = "answer" /\ new.val = a.val
        /\ new.by = w.by /\ new.key = w.key /\ new.seen = w.seen
    BY Zenon DEF GetType
  <2> HIDE DEF new
  <2>3. Sound(new)
    BY <1>2, <2>2, Zenon DEF Sound, NotBehind
  <2> QED
    BY <2>1, <2>2, <2>3, Zenon
<1>3. CASE ~Live(a.val)
  <2> DEFINE new == [w EXCEPT !.err = @ \/ a.err]
  <2>1. Received(w, a) = Loop(new)
    BY <1>3, Zenon DEF Received
  <2>2. /\ new \in GetType /\ new.val = w.val /\ (a.err => new.err)
        /\ new.by = w.by /\ new.key = w.key /\ new.seen = w.seen
    BY Zenon DEF GetType
  <2> HIDE DEF new
  <2>3. Excused(a)
    BY <1>3, Zenon DEF Sound
  <2>4. AllHold(new) /\ Excused(new)
    BY <1>1, <2>2, <2>3, Zenon DEF AllHold, Excused, NotBehind
  <2> QED
    BY <1>1, <2>1, <2>2, <2>4, LoopSound
<1> QED
  BY <1>2, <1>3, Zenon

\* An answer reaches the Get that waits for it, and no other.
LEMMA AnswerSound ==
  ASSUME RInv, NEW h \in Handler, Answer(h)
  PROVE  GetsSound'
<1>1. /\ mem' = mem /\ written' = written /\ get[h].pc = "answer"
      /\ get' = [g \in Handler |-> IF g = h THEN NoGet
                                   ELSE IF get[h].by = g THEN Received(get[g], get[h])
                                   ELSE get[g]]
  BY Zenon DEF Answer, vars
<1>2. /\ \A g \in Handler : get[g] \in GetType /\ Sound(get[g])
      /\ Linked
  BY Zenon DEF RInv, GetsSound
<1>3. /\ NoGet \in GetType /\ Sound(NoGet) /\ NoGet.pc = "idle" /\ NoGet.by = Nobody
  BY ClusterConstants, LwwConstants DEF NoGet, GetType, Sound, Node, Key, Version
<1>4. get'[h] = NoGet
  BY <1>1, Zenon
<1>5. ASSUME NEW g \in Handler \ {h}, get[h].by = g
      PROVE  /\ get'[g] \in GetType /\ Sound(get'[g])
             /\ get'[g].by = get[g].by /\ get'[g].key = get[g].key
             /\ get'[g].seen = get[g].seen /\ get'[g].pc # "wait" /\ get[g].pc = "wait"
  <2>1. get[g].pc = "wait" /\ get[h].key = get[g].key /\ get[h].seen = get[g].seen
    BY <1>1, <1>2, <1>5, Zenon DEF Linked
  <2>2. get'[g] = Received(get[g], get[h])
    BY <1>1, <1>5, Zenon
  <2> QED
    BY <2>1, <2>2, <1>1, <1>2, ReceivedSound
<1>6. \A g \in Handler \ {h} : get[h].by # g => get'[g] = get[g]
  BY <1>1, Zenon
<1>7. get' \in [Handler -> GetType] /\ \A g \in Handler : Sound(get'[g])
  <2>1. \A g \in Handler : get'[g] \in GetType /\ Sound(get'[g])
    BY <1>2, <1>3, <1>4, <1>5, <1>6, Zenon
  <2>2. get' = [g \in Handler |-> get'[g]]
    BY <1>1, Zenon
  <2> QED
    BY <2>1, <2>2, Zenon
<1>8. Linked'
  <2>1. \A g \in Handler : get'[g].pc # "idle" =>
          /\ g # h /\ get[g].pc # "idle"
          /\ get'[g].by = get[g].by /\ get'[g].key = get[g].key /\ get'[g].seen = get[g].seen
    BY <1>3, <1>4, <1>5, <1>6, Zenon
  <2>2. \A g \in Handler \ {h} : get'[g].key = get[g].key /\ get'[g].seen = get[g].seen
    BY <1>5, <1>6, Zenon
  <2>3. ASSUME NEW g \in Handler, get'[g].pc # "idle", get'[g].by \in Handler
        PROVE  /\ get'[g].key = get'[get'[g].by].key /\ get'[g].seen = get'[get'[g].by].seen
               /\ get'[g].by # g /\ get'[get'[g].by].pc = "wait"
    <3> DEFINE p == get[g].by
    <3>1. /\ g # h /\ get[g].pc # "idle" /\ get'[g].by = p /\ p \in Handler
          /\ get'[g].key = get[g].key /\ get'[g].seen = get[g].seen
      BY <2>1, <2>3, Zenon
    <3>2. /\ get[p].pc = "wait" /\ p # g /\ get[g].key = get[p].key /\ get[g].seen = get[p].seen
      BY <3>1, <1>2, Zenon DEF Linked
    <3>3. p # h /\ get[h].by # p
      BY <3>1, <3>2, <1>1, <1>2, Zenon DEF Linked
    <3>4. get'[p] = get[p]
      BY <3>1, <3>3, <1>6, Zenon
    <3> QED
      BY <3>1, <3>2, <3>4, Zenon
  <2>4. \A f, g \in Handler : /\ get'[f].pc # "idle" /\ get'[g].pc # "idle"
                              /\ get'[f].by = get'[g].by /\ get'[g].by \in Handler
                              => f = g
    BY <2>1, <1>2 DEF Linked
  <2> QED
    BY <2>3, <2>4, Zenon DEF Linked
<1> QED
  BY <1>1, <1>7, <1>8, ReadStep, Zenon
-----------------------------------------------------------------------------
\* The first state.
LEMMA RInvInit == RoutingInit => RInv
<1> SUFFICES ASSUME RoutingInit PROVE RInv
  OBVIOUS
<1>1. IInv
  BY InitIInv, Zenon DEF RoutingInit
<1>2. Sourced
  BY Zenon DEF RoutingInit, Init, Sourced, NoCall, NoSync
<1>3. Stamped
  BY Zenon DEF RoutingInit, Init, Stamped
<1>4. NoGet \in GetType /\ NoGet.pc = "idle"
  BY ClusterConstants, LwwConstants DEF NoGet, GetType, Node, Key, Version
<1>5. get = [h \in Handler |-> NoGet]
  BY Zenon DEF RoutingInit
<1>6. GetsSound
  BY <1>4, <1>5, Zenon DEF GetsSound, Sound, Linked
<1> QED
  BY <1>1, <1>2, <1>3, <1>6, Zenon DEF RInv

\* Every step preserves the invariant and is a step of Replicas.
LEMMA RInvNext == RInv /\ [RoutingNext]_allVars => RInv' /\ Refines
<1> SUFFICES ASSUME RInv, [RoutingNext]_allVars PROVE RInv' /\ Refines
  OBVIOUS
<1>1. CASE WriteOrSync
  <2>1. IInv' /\ Keeps
    BY <1>1, NextKeeps, Zenon DEF RInv
  <2>2. get' = get /\ written \subseteq written'
    BY <1>1, Zenon DEF WriteOrSync, routingVars
  <2>3. GetsSound'
    BY <2>1, <2>2, WritesKeepGets, Zenon DEF RInv, Keeps
  <2> QED
    BY <2>1, <2>3, Zenon DEF RInv, Keeps
<1>2. ASSUME UNCHANGED <<vars, written>>
      PROVE  IInv' /\ Sourced' /\ Stamped' /\ Refines
  <2>1. IInv'
    BY <1>2, NextIInv, Zenon DEF RInv
  <2>2. Sourced' /\ Stamped' /\ Refines
    BY <1>2, Zenon DEF vars, RInv, Sourced, Stamped, Refines
  <2> QED
    BY <2>1, <2>2, Zenon
<1>3. CASE Read
  <2>1. UNCHANGED <<vars, written>>
    BY <1>3 DEF Read, Serve, Ask, UserGet, Load, Proxy, ProxyFails, GetTimeout, Answer
  <2>2. GetsSound'
    BY <1>3, UserGetSound, LoadSound, ProxySound, ProxyFailsSound, GetTimeoutSound, Zenon,
       AnswerSound DEF Read, Serve, Ask
  <2> QED
    BY <2>1, <2>2, <1>2, Zenon DEF RInv
<1>4. CASE UNCHANGED allVars
  <2>1. UNCHANGED <<vars, written>> /\ get' = get
    BY <1>4, Zenon DEF allVars
  <2>2. IInv' /\ Sourced' /\ Stamped' /\ Refines
    BY <2>1, <1>2, Zenon
  <2>3. GetsSound'
    BY <2>1, <2>2, WritesKeepGets, Zenon DEF RInv
  <2> QED
    BY <2>2, <2>3, Zenon DEF RInv
<1> QED
  BY <1>1, <1>3, <1>4, Zenon DEF RoutingNext

\* The invariant holds throughout.
LEMMA RInvAlways == RoutingSpec => []RInv
BY RInvInit, RInvNext, PTL DEF RoutingSpec

\* Gateway, Push and anti-entropy implement Replicas: owners only ever take versions that
\* a client wrote, each under a stamp of its own, later ones in place of earlier ones,
\* and a write is acknowledged only when the owners that the failure mode asks for
\* hold it or a later one.
THEOREM ClusterImplements == RoutingSpec => Implements
<1>1. RoutingInit => Abstract!Init
  BY Zenon DEF RoutingInit, Init, Abstract!Init, NoVal, Abstract!NoVal, Key, Abstract!Key
<1>2. RInv /\ [RoutingNext]_allVars => [Abstract!Next]_(Abstract!rvars)
  BY RInvNext, Zenon DEF Refines, Abstract!rvars
<1> QED
  BY <1>1, <1>2, RInvAlways, PTL DEF RoutingSpec, Implements, Abstract!Spec

\* What Node.Get tells its user: a value somebody wrote, not older than what the node
\* held or, in Strict mode, than what was acknowledged when the call was made; "not
\* found" only for a reason.
THEOREM GetSoundCorrect == RoutingSpec => []GetSound
<1>1. RInv => GetSound
  BY Zenon DEF RInv, GetsSound, Sound, GetSound, Waiting, Fresh, NotBehind, Excused, Versioned
<1> QED
  BY <1>1, RInvAlways, PTL

\* Replicas that agree on the timestamp and the node of a version agree on its payload:
\* no clock gives one timestamp to two writes.
THEOREM StampsIdentify == RoutingSpec => []StampIdentifies
<1>1. RInv => StampIdentifies
  <2> SUFFICES ASSUME RInv, NEW n \in Node, NEW p \in Node, NEW k \in Key,
                      mem[n][k].ts = mem[p][k].ts, mem[n][k].node = mem[p][k].node
               PROVE  mem[n][k] = mem[p][k]
    BY Zenon DEF StampIdentifies
  <2>1. mem[n][k] \in Version /\ mem[p][k] \in Version
    BY DEF RInv, IInv, Typed
  <2>2. NoVal.ts = 0 /\ \A v \in Value : v.ts # 0
    BY LwwConstants DEF NoVal, Value, Timestamp
  <2>3. CASE mem[n][k] = NoVal \/ mem[p][k] = NoVal
    BY <2>1, <2>2, <2>3, Zenon DEF Version
  <2>4. CASE mem[n][k] # NoVal /\ mem[p][k] # NoVal
    <3>1. Versioned(k, mem[n][k]) \in written /\ Versioned(k, mem[p][k]) \in written
      BY <2>4, Zenon DEF RInv, Sourced
    <3> QED
      BY <3>1, Zenon DEF RInv, Stamped, Versioned
  <2> QED
    BY <2>3, <2>4, Zenon
<1> QED
  BY <1>1, RInvAlways, PTL
=============================================================================
