------------------------------- MODULE Lww -------------------------------
(***************************************************************************)
(* Versions of a key and the last-write-wins order between them            *)
(* (kv/types.go, core/hashmap/shardedmap.go).                              *)
(*                                                                         *)
(* Node names are compared as strings by the code; here they are their     *)
(* ranks, 0 being the empty name.  Timestamps are the non-negative part of *)
(* int64, whose largest value is MaxTs.  getItemHash is a parameter: its   *)
(* only use in the order is to break ties, and the assumption below is     *)
(* that it does not collide on two versions of one key.                    *)
(***************************************************************************)
EXTENDS Naturals

CONSTANTS
  NKeys,          \* number of keys; keys are numbered in the order Range visits them
  MaxTs,          \* largest timestamp
  MaxNode,        \* rank of the largest node name
  Data,           \* payloads
  NoData,         \* the empty payload
  ItemHash(_, _)  \* getItemHash(key, version)

Key == 1 .. NKeys
NodeID == 0 .. MaxNode
Timestamp == 1 .. MaxTs

Value == [ts : Timestamp, node : NodeID, data : Data \cup {NoData}, tomb : BOOLEAN]

\* What a key that the map does not hold looks like to the order: older than
\* every version, so a first insertion is a win.
NoVal == [ts |-> 0, node |-> 0, data |-> NoData, tomb |-> FALSE]

ASSUME LwwConstants ==
  /\ NKeys \in Nat \ {0}
  /\ MaxTs \in Nat \ {0}
  /\ MaxNode \in Nat

ASSUME ItemHashInjective ==
  \A k \in Key : \A v, w \in Value :
     /\ ItemHash(k, v) \in Nat
     /\ ItemHash(k, v) = ItemHash(k, w) => v = w

\* The order (Timestamp, NodeID, ItemHash).
lwwWins(k, existing, incoming) ==
  \/ incoming.ts > existing.ts
  \/ /\ incoming.ts = existing.ts
     /\ \/ incoming.node > existing.node
        \/ /\ incoming.node = existing.node
           /\ ItemHash(k, incoming) > ItemHash(k, existing)

\* The version StoreLWW leaves in the map.
Merge(k, existing, incoming) ==
  IF lwwWins(k, existing, incoming) THEN incoming ELSE existing

\* What Get answers for a version: its payload, or nothing.
Live(v) == v.ts > 0 /\ ~v.tomb
Get(v) == IF Live(v) THEN <<v.data>> ELSE << >>
=============================================================================
