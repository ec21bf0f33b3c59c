------------------------------ MODULE MCPeers ------------------------------
(***************************************************************************)
(* A small instance of Peers: three nodes with up to three virtual nodes,  *)
(* interleaved on a circle of thirteen positions.                          *)
(***************************************************************************)
EXTENDS Peers

MCVnodeHash(n, j) == <<<<0, 5, 9>>, <<3, 7, 12>>, <<1, 10, 4>>>>[n][j + 1]
MCKeyHash(k) == <<2, 11, 6>>[k]

CONSTANTS a1, a2, a3, a4

\* Node 3 may come back under another address.
MCAddressesOf == <<{a1}, {a2}, {a3, a4}>>

CallerSymmetry == Permutations(Caller) \cup Permutations(Client)
=============================================================================
