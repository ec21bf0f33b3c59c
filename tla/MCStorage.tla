---------------------------- MODULE MCStorage ----------------------------
(***************************************************************************)
(* Small instances of Storage: two keys in different map shards, payloads  *)
(* 1 and 2, and a getItemHash that ranks payloads and tombstones.          *)
(***************************************************************************)
EXTENDS Storage, TLC

MCItemHash(k, v) ==
  v.ts * 100 + v.node * 20 + (IF v.data = NoData THEN 0 ELSE v.data) * 2
    + (IF v.tomb THEN 1 ELSE 0)

MCEvictorOf == [k \in Key |-> CHOOSE e \in Evictor : TRUE]
OneSegment == [k \in Key |-> 1]
SegmentPerKey == [k \in Key |-> k]
ShardPerKey == [k \in Key |-> k]
OneShard == [k \in Key |-> 1]

\* Writers are interchangeable.
WriterSymmetry == Permutations(Writer)

\* A delete from another node, with a timestamp that a local write may carry too.
RemoteTie == { [ts |-> 2, node |-> 2, data |-> NoData, tomb |-> TRUE] }
=============================================================================
