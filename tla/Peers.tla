------------------------------- MODULE Peers -------------------------------
(***************************************************************************)
(* The way from a key to a connection: the gateway's calls                 *)
(* (cluster/gateway/gateway.go) read the owners from the ring and then the *)
(* owner's address from the table of Mesh, while callbacks change both,    *)
(* and share one connection per address (cluster/gateway/clientcache.go)   *)
(* until Node.Stop closes them.                                            *)
(***************************************************************************)
EXTENDS Mesh

CONSTANTS
  Caller,    \* goroutines of the gateway and the syncer that call a peer
  Nobody,
  Client,    \* bound: connections
  NoClient,
  MaxCalls   \* bound: calls

ASSUME PeersConstants == NoClient \notin Client /\ Nobody \notin Caller /\ MaxCalls \in Nat

VARIABLES
  caller,    \* what each goroutine is doing: [pc, node, addr, client]
  clients,   \* the cache: address -> client
  conn,      \* connections: [addr, state]
  flight,    \* singleflight: the goroutine that dials an address
  closed,    \* the cache's flag
  calls      \* calls so far

cacheVars == <<clients, conn, flight, closed>>
pvars == <<meshVars, caller, cacheVars, calls>>

Resting == [pc |-> "idle", node |-> Self, addr |-> NoAddr, client |-> NoClient]

PeersInit ==
  /\ MeshInit
  /\ caller = [c \in Caller |-> Resting]
  /\ clients = [a \in PeerAddress |-> NoClient]
  /\ conn = [x \in Client |-> [addr |-> NoAddr, state |-> "unused"]]
  /\ flight = [a \in PeerAddress |-> Nobody]
  /\ closed = FALSE
  /\ calls = 0
-----------------------------------------------------------------------------
(* Owner and address.                                                      *)

\* gateway.Get, Set or Delete takes the owners of k; one goroutine per owner.
TakeOwner(c, k) ==
  /\ node = "up" /\ caller[c].pc = "idle" /\ calls < MaxCalls
  /\ calls' = calls + 1
  /\ \E o \in ToSet(GetOwners(ring, k)) \ {Self} :
       caller' = [caller EXCEPT ![c] = [Resting EXCEPT !.pc = "address", !.node = o]]
  /\ UNCHANGED <<meshVars, cacheVars>>

\* proxyGetRemote, applySetRemote and applyDeleteRemote ask for its address, and
\* give up without one.
Resolve(c) ==
  LET a == AddressForNode(caller[c].node) IN
  /\ caller[c].pc = "address"
  /\ caller' = [caller EXCEPT ![c] = IF a = NoAddr THEN Resting
                                     ELSE [@ EXCEPT !.pc = "get", !.addr = a]]
  /\ UNCHANGED <<meshVars, cacheVars, calls>>
-----------------------------------------------------------------------------
(* ClientCache.Get.                                                        *)

\* The goroutines that wait for what c's dial returns, c included.
Sharing(c) ==
  {d \in Caller : caller[d].addr = caller[c].addr
                  /\ caller[d].pc \in {"follow", "recheck", "dial", "publish"}}

\* c's function returns the client x, or an error when x is NoClient.
Deliver(c, x) ==
  /\ caller' = [d \in Caller |->
                  IF d \notin Sharing(c) THEN caller[d]
                  ELSE IF x = NoClient THEN Resting
                  ELSE [caller[d] EXCEPT !.pc = "use", !.client = x]]
  /\ flight' = [flight EXCEPT ![caller[c].addr] = Nobody]

\* The check of closed and the optimistic read.
Lookup(c) ==
  LET a == caller[c].addr IN
  /\ caller[c].pc = "get"
  /\ caller' = [caller EXCEPT ![c] =
       IF closed THEN Resting
       ELSE IF clients[a] # NoClient THEN [@ EXCEPT !.pc = "use", !.client = clients[a]]
       ELSE [@ EXCEPT !.pc = "do"]]
  /\ UNCHANGED <<meshVars, cacheVars, calls>>

\* Mutation: every miss dials.
LeaderAlways(c) == TRUE

\* Nobody dials the address yet.
Leader(c) == flight[caller[c].addr] = Nobody

\* singleflight's Do.
Do(c) ==
  /\ caller[c].pc = "do"
  /\ IF Leader(c)
     THEN /\ flight' = [flight EXCEPT ![caller[c].addr] = c]
          /\ caller' = [caller EXCEPT ![c].pc = "recheck"]
     ELSE caller' = [caller EXCEPT ![c].pc = "follow"] /\ UNCHANGED flight
  /\ UNCHANGED <<meshVars, clients, conn, closed, calls>>

\* The second read of the cache.
Recheck(c) ==
  /\ caller[c].pc = "recheck"
  /\ IF clients[caller[c].addr] # NoClient THEN Deliver(c, clients[caller[c].addr])
     ELSE caller' = [caller EXCEPT ![c].pc = "dial"] /\ UNCHANGED flight
  /\ UNCHANGED <<meshVars, clients, conn, closed, calls>>

\* newClient.
Dial(c, x) ==
  /\ caller[c].pc = "dial" /\ conn[x].state = "unused"
  /\ conn' = [conn EXCEPT ![x] = [addr |-> caller[c].addr, state |-> "open"]]
  /\ caller' = [caller EXCEPT ![c].pc = "publish", ![c].client = x]
  /\ UNCHANGED <<meshVars, clients, flight, closed, calls>>

DialFails(c) ==
  /\ caller[c].pc = "dial"
  /\ Deliver(c, NoClient)
  /\ UNCHANGED <<meshVars, clients, conn, closed, calls>>

\* Mutation: closed is not read again.
RefusedNever == FALSE

\* Close has begun.
Refused == closed

\* The client that Get returns when c has dialled x.
Actual(c, x) ==
  LET cached == clients[caller[c].addr] IN
    IF Refused THEN NoClient ELSE IF cached # NoClient THEN cached ELSE x

\* Under the lock: the client joins the cache, or it is closed because the cache is,
\* or because there is one already.
Publish(c) ==
  LET x == caller[c].client
      actual == Actual(c, x) IN
  /\ caller[c].pc = "publish"
  /\ clients' = IF actual = x THEN [clients EXCEPT ![caller[c].addr] = x] ELSE clients
  /\ conn' = IF actual = x THEN conn ELSE [conn EXCEPT ![x].state = "closed"]
  /\ Deliver(c, actual)
  /\ UNCHANGED <<meshVars, closed, calls>>

\* The remote call ends.
Return(c) ==
  /\ caller[c].pc = "use"
  /\ caller' = [caller EXCEPT ![c] = Resting]
  /\ UNCHANGED <<meshVars, cacheVars, calls>>

\* Gateway.Close, the last step of Node.Stop before the engine's: the flag ...
CloseFlag ==
  /\ node = "gwClose" /\ ~closed
  /\ closed' = TRUE
  /\ UNCHANGED <<meshVars, caller, clients, conn, flight, calls>>

\* ... and, under the lock, every cached client.
CloseClients ==
  /\ node = "gwClose" /\ closed
  /\ conn' = [x \in Client |-> IF \E a \in PeerAddress : clients[a] = x
                               THEN [conn[x] EXCEPT !.state = "closed"] ELSE conn[x]]
  /\ clients' = [a \in PeerAddress |-> NoClient]
  /\ node' = "stopped"
  /\ UNCHANGED <<attempt, view, callback, ring, nodeAddrs, monitor, events>>
  /\ UNCHANGED <<caller, flight, closed, calls>>

CallStep(c) ==
  \/ Resolve(c) \/ Lookup(c) \/ Do(c) \/ Recheck(c)
  \/ DialFails(c) \/ (\E x \in Client : Dial(c, x))
  \/ Publish(c) \/ Return(c)

PeersNext ==
  \/ MeshNext /\ UNCHANGED <<caller, cacheVars, calls>>
  \/ \E c \in Caller, k \in Key : TakeOwner(c, k)
  \/ \E c \in Caller : node # "failed" /\ CallStep(c)
  \/ CloseFlag \/ CloseClients

PeersSpec == PeersInit /\ [][PeersNext]_pvars
-----------------------------------------------------------------------------
(* Properties.                                                             *)

\* Type invariant: one callback at a time, about a node memberlist knows of, and a
\* goroutine that uses a client has one.
TypeOK ==
  /\ node \in {"starting", "up", "failed", "leaving", "gwClose", "stopped"}
  /\ attempt \in 1 .. JoinRetries + 1
  /\ \A n \in NodeID : view[n] = NotMember \/ view[n] \in Meta(n)
  /\ callback.kind \in {"none", "join", "leave", "update"}
  /\ nodeAddrs \in [NodeID -> PeerAddress \cup {NoAddr}]
  /\ monitor \in [weight : Weight, pc : {"off", "idle", "set"}]
  /\ \A c \in Caller : caller[c].pc \in {"publish", "use"} <=> caller[c].client \in Client

\* The weights memberlist's table gives to its members.
Members == [n \in {m \in NodeID : view[m] # NotMember} |-> view[n].weight]

\* GetOwners gives the nearest nodes clockwise on a circle that only the members
\* and their weights determine: in whatever order members came, left and
\* changed their weights, two nodes that agree on these agree on every owner.
OwnersAgree ==
  callback = NoCallback =>
    \A k \in Key :
      LET owners == Nearest(Members, k) IN
        GetOwners(ring, k) = owners /\ GetNode(ring, k) = {owners[i] : i \in DOMAIN owners \cap {1}}

\* A member that comes, leaves or changes its weight moves only keys that it owns
\* before or after.
MovesOnlyItsKeys ==
  [][ring' = ring \/ \A k \in Key :
       LET before == GetOwners(ring, k)
           after == GetOwners(ring', k) IN
         before = after \/ {callback.node, callback'.node} \cap (ToSet(before) \cup ToSet(after)) # {}
    ]_pvars

\* Whoever the ring names as an owner has an address, at every moment of every
\* callback: NotifyJoin stores it first, NotifyLeave drops it last.
OwnersAddressable == \A n \in ToSet(ring.nodeList) : nodeAddrs[n] # NoAddr

\* However many calls miss the cache at once, there is at most one connection to an
\* address (singleflight, #73).
OneConnection ==
  \A x, y \in Client :
    conn[x].state = "open" /\ conn[y].state = "open" /\ conn[x].addr = conn[y].addr => x = y

\* Nobody is given a closed client before Close, and nothing stays open after it:
\* a dial that Close overtakes is undone.
NoStrayClients ==
  /\ \A c \in Caller : caller[c].pc = "use" /\ ~closed => conn[caller[c].client].state = "open"
  /\ node = "stopped" =>
       \A x \in Client : conn[x].state = "open" =>
         \E c \in Caller : caller[c].pc = "publish" /\ caller[c].client = x
=============================================================================
