------------------------------- MODULE MCResp -------------------------------
(***************************************************************************)
(* A small instance of Resp: every kind of command, one of them with more  *)
(* arguments than maxArgs.                                                 *)
(***************************************************************************)
EXTENDS Resp

CONSTANTS c1, c2, k1, k2, v1, v2

\* One client works with a key, the other one disturbs it.
MCCommandOf ==
  (c1 :> {<<"SET", k1, v1>>, <<"GET", k1>>, <<"DEL", k1, k2>>, <<"EXISTS", k1>>,
          <<"SET", k1, v1, v2>>}
   @@ c2 :> {<<"SET", k2, v2>>, <<"DEL", k1>>, <<"PING">>, <<"ECHO", v1>>, <<"QUIT">>,
             <<"GET">>, <<"SELECT", v1>>, << >>})

\* Event loops are interchangeable.
RespSymmetry == Permutations(EventLoop)
=============================================================================
