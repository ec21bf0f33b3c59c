-------------------------------- MODULE Ring --------------------------------
(***************************************************************************)
(* The consistent-hash ring (cluster/mesh/hashring.go) as a value:         *)
(*   nodeList  the physical nodes in the order in which they were added    *)
(*   nodes     their indices in nodeList                                   *)
(*   weights   their numbers of virtual nodes                              *)
(*   vnodes    all virtual nodes, [hash, nodeIdx], sorted by hash          *)
(* Every operation runs under the ring's lock.                             *)
(***************************************************************************)
EXTENDS Integers, Sequences, SequencesExt

CONSTANTS
  NodeID,
  Key,
  HashSpace,          \* hashes are 0 .. HashSpace - 1
  VnodeHash(_, _),    \* the hash of "<id>-<j>"
  KeyHash(_),         \* the hash of a key
  defaultVnodes,
  ReplicationFactor

\* Different virtual nodes have different hashes.
ASSUME RingConstants ==
  /\ HashSpace \in Nat \ {0} /\ defaultVnodes \in Nat \ {0} /\ ReplicationFactor \in Int
  /\ \A k \in Key : KeyHash(k) \in 0 .. HashSpace - 1
  /\ \A m, n \in NodeID, i, j \in 0 .. defaultVnodes - 1 :
       /\ VnodeHash(m, i) \in 0 .. HashSpace - 1
       /\ VnodeHash(m, i) = VnodeHash(n, j) => m = n /\ i = j

NewHashRing == [nodeList |-> << >>, nodes |-> << >>, weights |-> << >>, vnodes |-> << >>]

\* The elements of S in the order of their different values under rank.
Ranked(S, rank(_)) ==
  [i \in 1 .. Cardinality(S) |->
     CHOOSE x \in S : Cardinality({y \in S : rank(y) < rank(x)}) = i - 1]

\* How many virtual nodes a weight stands for.
Count(w) == IF w < 0 THEN defaultVnodes ELSE w

\* Mutation: a virtual node is named after the index of its host.
VnodesByIndex(r, id) ==
  LET named == CHOOSE n \in NodeID : Cardinality({m \in NodeID : m < n}) = r.nodes[id] - 1 IN
    {[hash |-> VnodeHash(named, j), nodeIdx |-> r.nodes[id]] : j \in 0 .. Count(r.weights[id]) - 1}

\* The virtual nodes of one host.
VnodesOf(r, id) ==
  {[hash |-> VnodeHash(id, j), nodeIdx |-> r.nodes[id]] : j \in 0 .. Count(r.weights[id]) - 1}

rebuildVnodes(r) ==
  [r EXCEPT !.vnodes = Ranked(UNION {VnodesOf(r, id) : id \in ToSet(r.nodeList)},
                              LAMBDA v : v.hash)]

Weighted(r, id, w) == [r EXCEPT !.weights = [n \in DOMAIN @ \cup {id} |-> IF n = id THEN w ELSE @[n]]]

\* nodes as it is computed from nodeList.
Indexed(list) == [id \in ToSet(list) |-> CHOOSE i \in DOMAIN list : list[i] = id]

Listed(r, list) == [r EXCEPT !.nodeList = list, !.nodes = Indexed(list)]

AddNodeWithWeight(r, id, w) ==
  rebuildVnodes(Weighted(IF id \in DOMAIN r.nodes THEN r ELSE Listed(r, Append(r.nodeList, id)), id, w))

\* Mutation: the virtual nodes stay as they were.
UpdateWithoutRebuild(r, id, w) == IF id \in DOMAIN r.nodes THEN Weighted(r, id, w) ELSE r

UpdateNodeWeight(r, id, w) ==
  IF id \in DOMAIN r.nodes THEN rebuildVnodes(Weighted(r, id, w)) ELSE r

RemoveNode(r, id) ==
  IF id \notin DOMAIN r.nodes THEN r
  ELSE rebuildVnodes([Listed(r, SelectSeq(r.nodeList, LAMBDA n : n # id)) EXCEPT
                        !.weights = [n \in DOMAIN @ \ {id} |-> @[n]]])

\* The first virtual node at or after the key, counted from 0; the number of
\* virtual nodes when there is none.
Search(r, k) == Cardinality({i \in DOMAIN r.vnodes : r.vnodes[i].hash < KeyHash(k)})

\* The hosts of the virtual nodes, clockwise from the key.
Clockwise(r, k) ==
  LET n == Len(r.vnodes)
      idx == Search(r, k) IN
    [i \in 1 .. n |-> r.nodeList[r.vnodes[1 + ((idx + i - 1) % n)].nodeIdx]]

\* gateway's replication factor, and the cap of GetOwners.
getReplicationFactor == IF ReplicationFactor <= 0 THEN 1 ELSE ReplicationFactor
Target(r) ==
  IF getReplicationFactor > Len(r.nodeList) THEN Len(r.nodeList) ELSE getReplicationFactor

GetOwners(r, k) ==
  FoldLeft(LAMBDA owners, n :
             IF n \in ToSet(owners) \/ Len(owners) = Target(r) THEN owners
             ELSE Append(owners, n),
           << >>, Clockwise(r, k))

GetNode(r, k) == IF r.vnodes = << >> THEN {} ELSE {r.nodeList[r.vnodes[1 + (Search(r, k) % Len(r.vnodes))].nodeIdx]}
-----------------------------------------------------------------------------
(* What the ring is for, without the ring.                                 *)

\* How far clockwise from the key the nearest virtual node of n is, when n has w.
Distance(k, n, w) ==
  Min({(VnodeHash(n, j) - KeyHash(k)) % HashSpace : j \in 0 .. w - 1})

\* The owners of k when w gives the members their weights: the nearest first.
Nearest(w, k) ==
  LET members == {n \in DOMAIN w : w[n] > 0} IN
    SubSeq(Ranked(members, LAMBDA n : Distance(k, n, w[n])),
           1, Min({Cardinality(members), getReplicationFactor}))
=============================================================================
