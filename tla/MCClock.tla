------------------------------ MODULE MCClock ------------------------------
(***************************************************************************)
(* Small instances of Clock: a logical part of at most two, a physical     *)
(* part of at most three, and a drift of one.                              *)
(***************************************************************************)
EXTENDS Clock

\* A negative timestamp, one of the present, one with an exhausted counter, and
\* one that is too far ahead until the wall clock nears the ceiling.
RemoteStamps == {[p |-> -1, l |-> 0], [p |-> 1, l |-> 0],
                 [p |-> 1, l |-> LogicalMask], [p |-> 3, l |-> 0]}
=============================================================================
