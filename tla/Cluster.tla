------------------------------ MODULE Cluster ------------------------------
(***************************************************************************)
(* Replication in a cluster: the gateway's quorum-less writes              *)
(* (cluster/gateway/gateway.go), the server side of Push                   *)
(* (server/server.go), and anti-entropy (cluster/entropy/sync.go).         *)
(*                                                                         *)
(* A node is its in-memory map and its clock; what the node does to its    *)
(* log and snapshots is the module Storage.  The membership is fixed and   *)
(* every node has the same view of it.  A Push is a message that may be    *)
(* lost, delayed past the caller's timeout, or applied while its reply is  *)
(* lost.                                                                   *)
(***************************************************************************)
EXTENDS Digest

CONSTANTS
  Client,     \* concurrent calls of Node.Set and Node.Delete
  OwnersOf,   \* GetOwners: the replicas of each key
  Strict,     \* ReplicationFailureMode: Strict, or else Lenient
  MaxOps,     \* bound: calls made
  MaxRounds   \* bound: rounds of anti-entropy in progress at one time

Node == 1 .. MaxNode

ASSUME ClusterConstants ==
  /\ MaxNode > 0
  /\ OwnersOf \in [Key -> (SUBSET Node) \ {{}}]
  /\ Strict \in BOOLEAN
  /\ MaxOps \in Nat
  /\ MaxRounds \in Nat

VARIABLES
  mem,    \* mem[n][k]: the version node n holds, NoVal for none
  clk,    \* clk[n]: the last timestamp node n gave to a write
  call,   \* call[c]: the write in progress
  net,    \* Push requests in flight
  acked,  \* writes whose caller was told they succeeded
  ops,    \* calls made so far
  sync,   \* sync[n]: node n's round of anti-entropy
  req     \* req[n]: the digests that round has read

vars == <<mem, clk, call, net, acked, ops, sync, req>>

Entry == [key : Key, val : Value]
Message == [to : Node, key : Key, val : Value]

NoCall == [pc |-> "idle", node |-> 1, key |-> 1, val |-> NoVal, todo |-> {}, errs |-> {}]
NoSync == [pc |-> "idle", peer |-> 1, mask |-> {}, resp |-> {}]
NoReq == [shards |-> << >>, buckets |-> << >>, root |-> {}]

Init ==
  /\ mem = [n \in Node |-> [k \in Key |-> NoVal]]
  /\ clk = [n \in Node |-> 0]
  /\ call = [c \in Client |-> NoCall]
  /\ net = {}
  /\ acked = {}
  /\ ops = 0
  /\ sync = [n \in Node |-> NoSync]
  /\ req = [n \in Node |-> NoReq]
-----------------------------------------------------------------------------
(* Writes.                                                                 *)

\* ApplySet and ApplyDelete merge the version.  They also call Clock.Update,
\* which can only make the next timestamp of this node larger: Set and Delete
\* below take any larger timestamp already, learned or read off the wall clock.
Apply(n, k, v) == mem' = [mem EXCEPT ![n][k] = Merge(k, @, v)]

\* Mutation: the clock repeats a timestamp.
NowRepeats(n, t) == t >= clk[n]

\* Clock.Now may give node n the timestamp t.
Now(n, t) == t > clk[n]

\* The goroutines that Set and Delete start for the remote owners.
Replicate(n, k, v) == net' = net \cup [to : OwnersOf[k] \ {n}, key : {k}, val : {v}]

\* Node.Set stamps the value, then gateway.Set starts one write per owner.
Set(c, n, k, d, t) ==
  LET v == [ts |-> t, node |-> n, data |-> d, tomb |-> FALSE]
  IN  /\ call[c].pc = "idle" /\ ops < MaxOps /\ Now(n, t)
      /\ ops' = ops + 1
      /\ clk' = [clk EXCEPT ![n] = t]
      /\ call' = [call EXCEPT ![c] = [pc |-> "send", node |-> n, key |-> k, val |-> v,
                                      todo |-> OwnersOf[k], errs |-> {}]]
      /\ Replicate(n, k, v)
      /\ UNCHANGED <<mem, acked, sync, req>>

\* Node.Delete stamps the tombstone; gateway.Delete first asks the owners
\* whether the key exists.
Delete(c, n, k, t) ==
  LET v == [ts |-> t, node |-> n, data |-> NoData, tomb |-> TRUE]
  IN  /\ call[c].pc = "idle" /\ ops < MaxOps /\ Now(n, t)
      /\ ops' = ops + 1
      /\ clk' = [clk EXCEPT ![n] = t]
      /\ call' = [call EXCEPT ![c] = [pc |-> "exists", node |-> n, key |-> k, val |-> v,
                                      todo |-> OwnersOf[k], errs |-> {}]]
      /\ UNCHANGED <<mem, net, acked, sync, req>>

\* The answer of the probe does not change what Delete does next.
Exists(c) ==
  /\ call[c].pc = "exists"
  /\ call' = [call EXCEPT ![c].pc = "send"]
  /\ Replicate(call[c].node, call[c].key, call[c].val)
  /\ UNCHANGED <<mem, clk, acked, ops, sync, req>>

\* applySetLocal and applyDeleteLocal.
ApplyLocal(c) ==
  /\ call[c].pc = "send" /\ call[c].node \in call[c].todo
  /\ Apply(call[c].node, call[c].key, call[c].val)
  /\ call' = [call EXCEPT ![c].todo = @ \ {call[c].node}]
  /\ UNCHANGED <<clk, net, acked, ops, sync, req>>

Awaits(c, m) ==
  /\ call[c].pc = "send" /\ call[c].key = m.key /\ call[c].val = m.val
  /\ m.to \in call[c].todo

\* server.Push at the replica answers the caller, if it still waits.  A request
\* that is lost is one that stays in net; a request whose answer is lost is one
\* that arrives after the caller's timeout.
Push(m) ==
  /\ net' = net \ {m}
  /\ Apply(m.to, m.key, m.val)
  /\ call' = [c \in Client |-> IF Awaits(c, m)
                               THEN [call[c] EXCEPT !.todo = @ \ {m.to}]
                               ELSE call[c]]
  /\ UNCHANGED <<clk, acked, ops, sync, req>>

\* applySetRemote and applyDeleteRemote give up: no address, no connection, or
\* no answer within the timeout.
Timeout(c, o) ==
  /\ call[c].pc = "send" /\ o \in call[c].todo \ {call[c].node}
  /\ call' = [call EXCEPT ![c].todo = @ \ {o}, ![c].errs = @ \cup {o}]
  /\ UNCHANGED <<mem, clk, net, acked, ops, sync, req>>

\* Mutation: a replica that fails is not counted.
FailedIfAll(c) == call[c].errs = OwnersOf[call[c].key]

\* Whether Set and Delete return an error once every goroutine is done.
Failed(c) ==
  IF Strict THEN call[c].errs # {} ELSE call[c].errs = OwnersOf[call[c].key]

Return(c) ==
  /\ call[c].pc = "send" /\ call[c].todo = {}
  /\ acked' = acked \cup [key : {call[c].key}, val : IF Failed(c) THEN {} ELSE {call[c].val}]
  /\ call' = [call EXCEPT ![c] = NoCall]
  /\ UNCHANGED <<mem, clk, net, ops, sync, req>>
-----------------------------------------------------------------------------
(* Anti-entropy.                                                           *)

AtPc(n, pc) == sync[n].pc = pc
GoTo(n, pc) == sync' = [sync EXCEPT ![n].pc = pc]
Peer(n) == mem[sync[n].peer]

\* performSync picks a peer; preparePullRequest reads the three levels of
\* digests one after the other.
performSync(n, p) ==
  /\ AtPc(n, "idle") /\ p # n
  /\ Cardinality({q \in Node : sync[q].pc # "idle"}) < MaxRounds
  /\ sync' = [sync EXCEPT ![n] = [NoSync EXCEPT !.pc = "digests", !.peer = p]]
  /\ req' = [req EXCEPT ![n].shards = [s \in Shard |-> ShardDigest(mem[n], s)]]
  /\ UNCHANGED <<mem, clk, net, call, acked, ops>>

FillDigests(n) ==
  /\ AtPc(n, "digests") /\ GoTo(n, "root")
  /\ req' = [req EXCEPT ![n].buckets =
                [s \in Shard |-> [b \in Bucket |-> BucketDigest(mem[n], s, b)]]]
  /\ UNCHANGED <<mem, clk, net, call, acked, ops>>

FillRoot(n) ==
  /\ AtPc(n, "root") /\ GoTo(n, "pull")
  /\ req' = [req EXCEPT ![n].root = RootDigest(mem[n])]
  /\ UNCHANGED <<mem, clk, net, call, acked, ops>>

\* The connection or the pull fails, or times out.  Pull changes nothing at the
\* peer, so it makes no difference how far it got.
PullFails(n) ==
  /\ AtPc(n, "pull")
  /\ sync' = [sync EXCEPT ![n] = NoSync]
  /\ req' = [req EXCEPT ![n] = NoReq]
  /\ UNCHANGED <<mem, clk, net, call, acked, ops>>

\* Pull at the peer, level 1: nothing to send when the roots are equal.  A
\* digest is forgotten here when nothing reads it any more.
PullRoot(n) ==
  LET same == req[n].root = RootDigest(Peer(n)) IN
  /\ AtPc(n, "pull")
  /\ GoTo(n, IF same THEN "apply" ELSE "shards")
  /\ req' = [req EXCEPT ![n] = IF same THEN NoReq ELSE [@ EXCEPT !.root = {}]]
  /\ UNCHANGED <<mem, clk, net, call, acked, ops>>

\* Level 2: the shards whose digests differ, with all of their buckets.
PullShards(n) ==
  /\ AtPc(n, "shards")
  /\ sync' = [sync EXCEPT
                ![n].pc = "buckets",
                ![n].mask = {s \in Shard : ShardDigest(Peer(n), s) # req[n].shards[s]} \X Bucket]
  /\ req' = [req EXCEPT ![n].shards = << >>]
  /\ UNCHANGED <<mem, clk, net, call, acked, ops>>

\* Mutation: the first bucket is not compared.
MaskButFirst(n) ==
  {sb \in sync[n].mask : /\ sb[2] > 1
                         /\ BucketDigest(Peer(n), sb[1], sb[2]) # req[n].buckets[sb[1]][sb[2]]}

\* Level 3: the buckets that differ, in the shards that differ.
calculateMismatchMask(n) ==
  {sb \in sync[n].mask : BucketDigest(Peer(n), sb[1], sb[2]) # req[n].buckets[sb[1]][sb[2]]}

PullBuckets(n) ==
  /\ AtPc(n, "buckets")
  /\ sync' = [sync EXCEPT ![n].pc = "collect", ![n].mask = calculateMismatchMask(n)]
  /\ req' = [req EXCEPT ![n] = NoReq]
  /\ UNCHANGED <<mem, clk, net, call, acked, ops>>

\* Mutation: a peer is sent every key.
AnyRequester(k, n) == TRUE

isRequesterResponsible(k, n) == n \in OwnersOf[k]

\* Mutation: RangeShard does not skip an absent value.
MismatchesNil(n, s) ==
  {[key |-> k, val |-> Peer(n)[k]] :
     k \in {k \in Key : /\ ShardOf[k] = s /\ <<s, BucketOf[k]>> \in sync[n].mask
                        /\ isRequesterResponsible(k, n)}}

\* What the peer holds in the buckets of the mask of shard s, for the keys the
\* requester replicates.
Mismatches(n, s) ==
  {[key |-> k, val |-> Peer(n)[k]] :
     k \in {k \in Key : /\ ShardOf[k] = s /\ <<s, BucketOf[k]>> \in sync[n].mask
                        /\ Peer(n)[k] # NoVal
                        /\ isRequesterResponsible(k, n)}}

collectShardMismatches(n, s) ==
  /\ AtPc(n, "collect") /\ \E b \in Bucket : <<s, b>> \in sync[n].mask
  /\ sync' = [sync EXCEPT ![n].mask = @ \ ({s} \X Bucket),
                          ![n].resp = @ \cup Mismatches(n, s)]
  /\ UNCHANGED <<mem, clk, net, call, acked, ops, req>>

Respond(n) ==
  /\ AtPc(n, "collect") /\ sync[n].mask = {}
  /\ GoTo(n, "apply")
  /\ UNCHANGED <<mem, clk, net, call, acked, ops, req>>

\* Syncer.Push merges the response, the sets before the deletes.
ApplyEntry(n, e) ==
  /\ AtPc(n, "apply") /\ e \in sync[n].resp
  /\ e.val.tomb => \A f \in sync[n].resp : f.val.tomb
  /\ Apply(n, e.key, e.val)
  /\ sync' = [sync EXCEPT ![n].resp = @ \ {e}]
  /\ UNCHANGED <<clk, net, call, acked, ops, req>>

SyncDone(n) ==
  /\ AtPc(n, "apply") /\ sync[n].resp = {}
  /\ sync' = [sync EXCEPT ![n] = NoSync]
  /\ UNCHANGED <<mem, clk, net, call, acked, ops, req>>
-----------------------------------------------------------------------------
Write ==
  \/ \E c \in Client, n \in Node, k \in Key, t \in Timestamp :
       \/ \E d \in Data : Set(c, n, k, d, t)
       \/ Delete(c, n, k, t)
  \/ \E c \in Client : Exists(c) \/ ApplyLocal(c) \/ Return(c)
  \/ \E c \in Client, o \in Node : Timeout(c, o)
  \/ \E m \in net : Push(m)

\* The steps of a round that nothing outside the two nodes can prevent.
Proceed(n) ==
  \/ FillDigests(n) \/ FillRoot(n)
  \/ PullShards(n) \/ PullBuckets(n) \/ Respond(n)
  \/ \E s \in Shard : collectShardMismatches(n, s)
  \/ \E e \in sync[n].resp : ApplyEntry(n, e)
  \/ SyncDone(n)

Sync(n) ==
  \/ \E p \in Node : performSync(n, p)
  \/ PullRoot(n) \/ PullFails(n)
  \/ Proceed(n)

Next == Write \/ \E n \in Node : Sync(n)

Spec == Init /\ [][Next]_vars

\* The ticker starts rounds for ever and rand.Intn picks every peer again and
\* again; a round that is under way goes on, and of the pulls that are tried
\* for ever some reach the peer and return in time.
FairSpec ==
  /\ Spec
  /\ \A n \in Node :
       /\ WF_vars(Proceed(n))
       /\ SF_vars(PullRoot(n))
       /\ \A p \in Node \ {n} : SF_vars(performSync(n, p))
-----------------------------------------------------------------------------
(* Properties.                                                             *)

\* Every variable has its type.
TypeOK ==
  /\ mem \in [Node -> [Key -> Value \cup {NoVal}]]
  /\ clk \in [Node -> 0 .. MaxTs]
  /\ call \in [Client -> [pc : {"idle", "exists", "send"}, node : Node, key : Key,
                          val : Value \cup {NoVal}, todo : SUBSET Node, errs : SUBSET Node]]
  /\ net \subseteq Message
  /\ acked \subseteq Entry
  /\ ops \in 0 .. MaxOps
  /\ sync \in [Node -> [pc : {"idle", "digests", "root", "pull", "shards", "buckets",
                              "collect", "apply"},
                        peer : Node, mask : SUBSET (Shard \X Bucket), resp : SUBSET Entry]]
  /\ DOMAIN req = Node
  /\ \A n \in Node : req[n].root \subseteq Token

\* Replica n holds version v of key k or a later one.
Holds(n, k, v) == ~lwwWins(k, mem[n][k], v)

\* A write that gateway.Set or gateway.Delete reported as successful is, from
\* then on, held or superseded at every owner in Strict mode, and at one owner
\* at least in Lenient mode: no late Push, no answer of a slow anti-entropy
\* round and no older write brings back what it replaced, a deleted value in
\* particular.
AckedHeld ==
  \A a \in acked :
    IF Strict THEN \A n \in OwnersOf[a.key] : Holds(n, a.key, a.val)
              ELSE \E n \in OwnersOf[a.key] : Holds(n, a.key, a.val)

\* A key is stored only at its owners: neither the gateway nor the answer of a
\* Pull (isRequesterResponsible) leaves copies elsewhere, where no Delete would
\* reach them.
OnlyOwnersHold ==
  \A n \in Node, k \in Key : mem[n][k] # NoVal => n \in OwnersOf[k]

\* A timestamp and a node name identify a version: two replicas that agree on
\* both hold the same payload, although writes race at one coordinator and its
\* clock also moves with remote timestamps.
StampIdentifies ==
  \A n, p \in Node, k \in Key :
    /\ mem[n][k].ts = mem[p][k].ts
    /\ mem[n][k].node = mem[p][k].node
    => mem[n][k] = mem[p][k]

\* Level 1 of Pull takes two nodes with one root digest to hold the same data.
RootIdentifies ==
  \A n, p \in Node : mem[n] # mem[p] => RootDigest(mem[n]) # RootDigest(mem[p])

\* When the clients stop writing, the owners of every key come to hold the same
\* version and keep it, whatever was lost: performSync reconciles what the pushes
\* did not.  RootIdentifies is what stands in the way with several keys.
Converges ==
  <>[](\A k \in Key : \A n, p \in OwnersOf[k] : mem[n][k] = mem[p][k])
=============================================================================
