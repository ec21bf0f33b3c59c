----------------------------- MODULE MCRouting -----------------------------
(***************************************************************************)
(* Small instances of Routing.                                             *)
(***************************************************************************)
EXTENDS MCCluster, Routing
=============================================================================
