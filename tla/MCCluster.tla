----------------------------- MODULE MCCluster -----------------------------
(***************************************************************************)
(* Small instances of Cluster.                                             *)
(***************************************************************************)
EXTENDS Cluster, TLC

MCItemHash(k, v) ==
  v.ts * 100 + v.node * 20 + (IF v.data = NoData THEN 0 ELSE v.data) * 2
    + (IF v.tomb THEN 1 ELSE 0)

\* Every node owns every key.
AllOwn == [k \in Key |-> Node]

\* Key 1 is owned by nodes 1 and 2; the other keys by node 2 alone.
FirstShared == [k \in Key |-> IF k = 1 THEN {1, 2} ELSE {2}]

OneShard == [k \in Key |-> 1]
BucketPerKey == [k \in Key |-> k]
=============================================================================
