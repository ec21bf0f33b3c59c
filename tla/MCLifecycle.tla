---------------------------- MODULE MCLifecycle ----------------------------
(***************************************************************************)
(* Small instances of Lifecycle, with the definitions of MCStorage.        *)
(***************************************************************************)
EXTENDS MCStorage, Lifecycle

\* A delete from a node whose clock is ahead.
RemoteLater == { [ts |-> 3, node |-> 2, data |-> NoData, tomb |-> TRUE] }
=============================================================================
