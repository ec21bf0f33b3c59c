---------------------------- MODULE LwwProofs ----------------------------
(***************************************************************************)
(* lwwWins is a strict total order on the versions of a key, and the merge *)
(* StoreLWW performs is therefore a join: replicas that apply the same     *)
(* versions, in whatever order and however often, end with the same one.   *)
(***************************************************************************)
EXTENDS Lww, TLAPS

\* Versions are comparable: their fields are numbers, and so are their hashes.
LEMMA VersionFields ==
  ASSUME NEW k \in Key, NEW v \in Value
  PROVE  v.ts \in Nat /\ v.node \in Nat /\ ItemHash(k, v) \in Nat
BY LwwConstants, ItemHashInjective DEF Value, Timestamp, NodeID

\* No version replaces itself: applying a byte-identical write again is a no-op
\* (lwwWins: "Two byte-identical writes compare equal and are correctly a no-op").
THEOREM LwwIrreflexive ==
  ASSUME NEW k \in Key, NEW v \in Value
  PROVE  ~lwwWins(k, v, v)
BY VersionFields DEF lwwWins

\* lwwWins is transitive.
THEOREM LwwTransitive ==
  ASSUME NEW k \in Key, NEW u \in Value, NEW v \in Value, NEW w \in Value,
         lwwWins(k, u, v), lwwWins(k, v, w)
  PROVE  lwwWins(k, u, w)
<1>1. /\ u.ts \in Nat /\ u.node \in Nat /\ ItemHash(k, u) \in Nat
      /\ v.ts \in Nat /\ v.node \in Nat /\ ItemHash(k, v) \in Nat
      /\ w.ts \in Nat /\ w.node \in Nat /\ ItemHash(k, w) \in Nat
  BY VersionFields
<1> QED
  BY <1>1 DEF lwwWins

\* Of two different versions of a key one wins, on every replica the same one.
THEOREM LwwTotal ==
  ASSUME NEW k \in Key, NEW v \in Value, NEW w \in Value, v # w
  PROVE  /\ lwwWins(k, v, w) \/ lwwWins(k, w, v)
         /\ ~(lwwWins(k, v, w) /\ lwwWins(k, w, v))
<1>1. /\ v.ts \in Nat /\ v.node \in Nat /\ ItemHash(k, v) \in Nat
      /\ w.ts \in Nat /\ w.node \in Nat /\ ItemHash(k, w) \in Nat
  BY VersionFields
<1>2. ItemHash(k, v) # ItemHash(k, w)
  BY ItemHashInjective
<1> QED
  BY <1>1, <1>2 DEF lwwWins

\* StoreLWW applied twice with one version is StoreLWW applied once.
THEOREM MergeIdempotent ==
  ASSUME NEW k \in Key, NEW u \in Value, NEW v \in Value
  PROVE  Merge(k, Merge(k, u, v), v) = Merge(k, u, v)
BY LwwIrreflexive DEF Merge

\* The order in which two replicas' versions meet does not matter.
THEOREM MergeCommutative ==
  ASSUME NEW k \in Key, NEW v \in Value, NEW w \in Value
  PROVE  Merge(k, v, w) = Merge(k, w, v)
<1>1. CASE v = w
  BY <1>1 DEF Merge
<1>2. CASE v # w
  BY <1>2, LwwTotal DEF Merge
<1> QED
  BY <1>1, <1>2

\* Two writes to a key leave the same version in whichever order they are
\* applied to whatever the map held (StoreLWW).
THEOREM MergeOrderIrrelevant ==
  ASSUME NEW k \in Key, NEW u \in Value, NEW v \in Value, NEW w \in Value
  PROVE  Merge(k, Merge(k, u, v), w) = Merge(k, Merge(k, u, w), v)
<1> DEFINE wins(a, b) == lwwWins(k, a, b)
<1>1. \A a, b \in Value : a # b => (wins(a, b) \/ wins(b, a)) /\ ~(wins(a, b) /\ wins(b, a))
  BY LwwTotal
<1>2. \A a, b, c \in Value : wins(a, b) /\ wins(b, c) => wins(a, c)
  BY LwwTransitive
<1>3. \A a \in Value : ~wins(a, a)
  BY LwwIrreflexive
<1> HIDE DEF wins
<1>4. \A a, b : Merge(k, a, b) = IF wins(a, b) THEN b ELSE a
  BY DEF Merge, wins
<1> QED
  BY <1>1, <1>2, <1>3, <1>4
=============================================================================
