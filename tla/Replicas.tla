------------------------------ MODULE Replicas ------------------------------
(***************************************************************************)
(* What the cluster promises of its writes, without saying how: every      *)
(* replica of a key is a last-write-wins register that only ever takes     *)
(* versions somebody wrote, a version is known by its timestamp and its    *)
(* node, and a write is acknowledged when the replicas that the            *)
(* replication failure mode asks for hold it or a later one.               *)
(***************************************************************************)
EXTENDS Lww

CONSTANTS
  Replica,    \* the nodes
  Owners,     \* the replicas of each key
  AllOwners   \* whether a write needs every owner, or one of them

VARIABLES
  reg,      \* reg[n][k]: the version replica n holds of k
  written,  \* the writes that were begun
  acked     \* the writes that were acknowledged

rvars == <<reg, written, acked>>

Init ==
  /\ reg = [n \in Replica |-> [k \in Key |-> NoVal]]
  /\ written = {}
  /\ acked = {}

\* A new version, with a stamp that no other version of the key has.
Write(k, v) ==
  /\ written' = written \cup {[key |-> k, val |-> v]}
  /\ \A w \in written : w.key = k => w.val.ts # v.ts \/ w.val.node # v.node
  /\ UNCHANGED <<reg, acked>>

\* An owner learns a version, from the writer or from another owner.
Learn(n, w) ==
  /\ w \in written /\ n \in Owners[w.key]
  /\ reg' = [reg EXCEPT ![n][w.key] = Merge(w.key, @, w.val)]
  /\ UNCHANGED <<written, acked>>

Has(n, w) == ~lwwWins(w.key, reg[n][w.key], w.val)

Acknowledge(w) ==
  /\ w \in written
  /\ IF AllOwners THEN \A n \in Owners[w.key] : Has(n, w)
                  ELSE \E n \in Owners[w.key] : Has(n, w)
  /\ acked' = acked \cup {w}
  /\ UNCHANGED <<reg, written>>

Next ==
  \/ \E n \in Replica, w \in written : Learn(n, w)
  \/ \E w \in written : Acknowledge(w)
  \/ \E k \in Key, v \in Value : Write(k, v)

Spec == Init /\ [][Next]_rvars
=============================================================================
