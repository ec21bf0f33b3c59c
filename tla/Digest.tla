------------------------------ MODULE Digest ------------------------------
(***************************************************************************)
(* The XOR digests that anti-entropy compares (core/hashmap/shardedmap.go).*)
(*                                                                         *)
(* A digest is an exclusive or of 64-bit words.  Here a word is a set of   *)
(* tokens and XOR is symmetric difference, so the digests of two maps are  *)
(* equal exactly when the words cancel for every choice of the underlying  *)
(* hash function; accidental collisions of that function are left out.     *)
(* getItemHash hashes the key, the node name and the payload, each of      *)
(* which becomes one token, but it only rotates the timestamp: that one is *)
(* the set of its bits.                                                    *)
(***************************************************************************)
EXTENDS Lww, FiniteSets

CONSTANTS
  NShards,   \* ShardCount
  NBuckets,  \* SubBucketCount
  ShardOf,   \* the shard of each key
  BucketOf   \* and its sub-bucket in that shard

Shard == 1 .. NShards
Bucket == 1 .. NBuckets

ASSUME DigestConstants ==
  /\ NShards \in Nat \ {0}
  /\ NBuckets \in Nat \ {0}
  /\ ShardOf \in [Key -> Shard]
  /\ BucketOf \in [Key -> Bucket]

Token ==
  ({"key"} \X Key) \cup ({"ts"} \X (0 .. MaxTs)) \cup ({"node"} \X NodeID)
    \cup ({"data"} \X Data) \cup ({"tomb"} \X {1}) \cup ({"count"} \X (0 .. NKeys))

\* The positions of the ones of n written in binary.
Bits(n) == {i \in 0 .. n : (n \div 2^i) % 2 = 1}

getItemHash(k, v) ==
  {<<"key", k>>}
    \cup {<<"ts", i>> : i \in Bits(v.ts)}
    \cup {<<"node", n>> : n \in {v.node} \ {0}}
    \cup {<<"data", d>> : d \in {v.data} \ {NoData}}
    \cup {<<"tomb", i>> : i \in IF v.tomb THEN {1} ELSE {}}

\* The exclusive or of word[i] for i in I: the tokens an odd number of words hold.
XorOf(I, word) ==
  LET terms == UNION {{i} \X word[i] : i \in I}
  IN  {t \in {x[2] : x \in terms} : Cardinality({x \in terms : x[2] = t}) % 2 = 1}

mixCount(n) == {<<"count", n>>}

\* A digest and a count, both kept up to date by Store, StoreLWW and Delete.
Digest(m, K) ==
  LET held == {k \in K : m[k] # NoVal}
  IN  XorOf(held, [k \in held |-> getItemHash(k, m[k])]) \cup mixCount(Cardinality(held))

ShardDigest(m, s) == Digest(m, {k \in Key : ShardOf[k] = s})
BucketDigest(m, s, b) == Digest(m, {k \in Key : ShardOf[k] = s /\ BucketOf[k] = b})
RootDigest(m) == XorOf(Shard, [s \in Shard |-> ShardDigest(m, s)])
=============================================================================
