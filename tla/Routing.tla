------------------------------ MODULE Routing ------------------------------
(***************************************************************************)
(* Reads in a cluster (cluster/node.go Get, cluster/gateway/gateway.go Get *)
(* and proxyGetRemote, server/server.go Get), composed with the writes and *)
(* the anti-entropy of Cluster.                                            *)
(*                                                                         *)
(* A node that is not an owner of the key, or that finds nothing, asks the *)
(* owners one after the other.  The owner that is asked serves the request *)
(* with the same Get: when it finds nothing either, it asks in its turn.   *)
(* A call waits for its answer for a second; the node that was asked does  *)
(* not learn that nobody waits any more.                                   *)
(***************************************************************************)
EXTENDS Cluster

CONSTANTS
  Handler,   \* bound: Gets that are being served at one time
  User,      \* who a Get answers: a user,
  Nobody,    \* or a caller that has given up
  MaxGets    \* bound: Gets that users make

ASSUME RoutingConstants ==
  /\ User \notin Handler /\ Nobody \notin Handler /\ User # Nobody
  /\ MaxGets \in Nat

VARIABLES
  get,      \* get[h]: a Get in progress at some node
  gets,     \* Gets made so far
  written   \* (history) the writes that were begun

routingVars == <<get, gets>>
allVars == <<vars, get, gets, written>>

\* seen: (history) what was known of the key when the user made the call that this
\* one serves; err: (history) a call it depends on failed.
NoGet == [pc |-> "idle", node |-> 1, key |-> 1, todo |-> {}, by |-> Nobody,
          val |-> NoVal, err |-> FALSE, seen |-> {}]

RoutingInit ==
  /\ Init
  /\ get = [h \in Handler |-> NoGet]
  /\ gets = 0
  /\ written = {}
-----------------------------------------------------------------------------
\* Node.Get is called at node n for key k.
Called(n, k, by, seen) ==
  [pc |-> "load", node |-> n, key |-> k, todo |-> {}, by |-> by,
   val |-> NoVal, err |-> FALSE, seen |-> seen]

\* The versions a Get of k at node n must not fall behind: the writes a client has been
\* told of in Strict mode, and what the node itself holds.
Known(n, k) ==
  {a.val : a \in {a \in acked : Strict /\ a.key = k}} \cup ({mem[n][k]} \ {NoVal})

UserGet(h, n, k) ==
  /\ get[h].pc = "idle" /\ gets < MaxGets
  /\ gets' = gets + 1
  /\ get' = [get EXCEPT ![h] = Called(n, k, User, Known(n, k))]
  /\ UNCHANGED <<vars, written>>

isOwner(n, k) == n \in OwnersOf[k]

\* Mutation: a tombstone is not told from an absent key.
TrustedUnlessDeleted(n, k) == isOwner(n, k) /\ Live(mem[n][k])

\* The local answer stands: an owner's value or tombstone.
Trusted(n, k) == isOwner(n, k) /\ mem[n][k] # NoVal

\* Mutation: a Get that no owner answers begins again.
LoopRetries(g) == [g EXCEPT !.pc = IF g.todo = {} THEN "load" ELSE "proxy"]

\* The loop of gateway.Get: the next owner is asked, or there is none left and the
\* answer is what was found, nothing.
Loop(g) == [g EXCEPT !.pc = IF g.todo = {} THEN "answer" ELSE "proxy"]

\* Node.Get answers from local storage, or gateway.Get begins its loop over the
\* owners.
Load(h) ==
  LET n == get[h].node
      k == get[h].key IN
  /\ get[h].pc = "load"
  /\ get' = [get EXCEPT ![h] = IF Trusted(n, k)
                               THEN [@ EXCEPT !.pc = "answer", !.val = mem[n][k]]
                               ELSE Loop([@ EXCEPT !.todo = OwnersOf[k] \ {n}])]
  /\ UNCHANGED <<vars, gets, written>>

\* proxyGetRemote reaches the owner o, whose server.Get calls Node.Get.
Proxy(h, o, g) ==
  /\ get[h].pc = "proxy" /\ o \in get[h].todo /\ get[g].pc = "idle"
  /\ get' = [get EXCEPT ![h].pc = "wait", ![h].todo = @ \ {o},
                        ![g] = Called(o, get[h].key, h, get[h].seen)]
  /\ UNCHANGED <<vars, gets, written>>

\* proxyGetRemote has no address for o, or no connection.
ProxyFails(h, o) ==
  /\ get[h].pc = "proxy" /\ o \in get[h].todo
  /\ get' = [get EXCEPT ![h] = Loop([get[h] EXCEPT !.todo = @ \ {o}, !.err = TRUE])]
  /\ UNCHANGED <<vars, gets, written>>

\* client.Get gives up after a second, or the connection breaks.  The request
\* goes on at the owner.
GetTimeout(h) ==
  /\ get[h].pc = "wait"
  /\ get' = [g \in Handler |->
               IF g = h THEN Loop([get[h] EXCEPT !.err = TRUE])
               ELSE IF get[g].by = h THEN [get[g] EXCEPT !.by = Nobody]
               ELSE get[g]]
  /\ UNCHANGED <<vars, gets, written>>

\* What a waiting Get does with the answer a: a value is passed on, otherwise the
\* loop goes on with the next owner.
Received(w, a) ==
  IF Live(a.val) THEN [w EXCEPT !.pc = "answer", !.val = a.val]
                 ELSE Loop([w EXCEPT !.err = @ \/ a.err])

\* The answer reaches whoever waits for it.
Answer(h) ==
  /\ get[h].pc = "answer"
  /\ get' = [g \in Handler |->
               IF g = h THEN NoGet
               ELSE IF get[h].by = g THEN Received(get[g], get[h])
               ELSE get[g]]
  /\ UNCHANGED <<vars, gets, written>>
-----------------------------------------------------------------------------
Begun == {[key |-> call[c].key, val |-> call[c].val] : c \in {c \in Client : call[c].pc # "idle"}}

WriteOrSync ==
  /\ Next
  /\ written' = written \cup Begun'
  /\ UNCHANGED routingVars

\* gateway.Get asks the next owner.
Ask(h) ==
  \E o \in Node : ProxyFails(h, o) \/ \E g \in Handler : Proxy(h, o, g)

\* The next step of a Get.  At most one kind of step is possible at a time.
Serve(h) == Load(h) \/ Ask(h) \/ GetTimeout(h) \/ Answer(h)

Read ==
  \/ \E h \in Handler, n \in Node, k \in Key : UserGet(h, n, k)
  \/ \E h \in Handler : Serve(h)

RoutingNext == WriteOrSync \/ Read

RoutingSpec == RoutingInit /\ [][RoutingNext]_allVars

\* A goroutine that serves a Get is scheduled, and the second a call may wait for
\* passes.  Users, writes and anti-entropy are not fair.
RoutingFairSpec ==
  /\ RoutingSpec
  /\ \A h \in Handler : WF_allVars(Serve(h))
-----------------------------------------------------------------------------
(* Properties.                                                             *)

Waiting(h) == get[h].pc = "answer" /\ get[h].by = User

\* The version v is not older than anything that was known when h began.
Fresh(h, v) == \A a \in get[h].seen : ~lwwWins(get[h].key, v, a)

\* What Node.Get tells its user.  A value was written by somebody, and it is not older
\* than the version the node held when Get was called nor, in Strict mode, than
\* any write acknowledged by then, wherever it was served and whatever was lost.
\* "Not found" in spite of such a version means that a later one was a tombstone,
\* or that a proxied call failed.
GetSound ==
  \A h \in Handler : Waiting(h) =>
    LET k == get[h].key
        v == get[h].val IN
      IF Live(v)
      THEN [key |-> k, val |-> v] \in written /\ Fresh(h, v)
      ELSE \/ get[h].seen = {} \/ get[h].err
           \/ \E w \in written : w.key = k /\ w.val.tomb /\ Fresh(h, w.val)

\* Every Get of a user is answered, whatever the nodes it asks do.
GetReturns ==
  \A h \in Handler : (get[h].by = User) ~> (get[h].by # User)

\* "Get [...] routes the read request to the first reachable peer": when the users
\* have stopped asking, the nodes come to rest.
GetsEnd == <>[](\A h \in Handler : get[h].pc = "idle")

Abstract == INSTANCE Replicas WITH
  reg <- mem, Replica <- Node, Owners <- OwnersOf, AllOwners <- Strict

\* Gateway, Push and anti-entropy together implement what Replicas promises.
Implements == Abstract!Spec
=============================================================================
