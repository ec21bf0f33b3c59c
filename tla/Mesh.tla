-------------------------------- MODULE Mesh --------------------------------
(***************************************************************************)
(* One node's picture of the cluster (cluster/mesh/mesh.go): memberlist's  *)
(* callbacks maintain the hash ring and the address table, which the       *)
(* gateway reads without a common lock; the capacity monitor               *)
(* (cluster/stats/monitor.go) changes this node's own weight.              *)
(*                                                                         *)
(* memberlist is external.  It keeps a table of members and calls back for *)
(* one change of it at a time.                                             *)
(***************************************************************************)
EXTENDS Ring

CONSTANTS
  Self,
  PeerAddress, NoAddr,
  AddressesOf,    \* the addresses under which a node may come up
  NotMember,
  Low, Mid,       \* the weights 16 and 64; defaultVnodes is 128
  JoinRetries,
  MaxEvents       \* bound: changes of other members

ASSUME MeshConstants ==
  /\ AddressesOf \in [NodeID -> SUBSET PeerAddress]
  /\ Self \in NodeID /\ NoAddr \notin PeerAddress
  /\ Low \in Nat /\ Mid \in Nat /\ 0 < Low /\ Low < Mid /\ Mid < defaultVnodes
  /\ JoinRetries \in Nat \ {0} /\ MaxEvents \in Nat

VARIABLES
  node,       \* where Node.Start or Node.Stop is
  attempt,    \* Start's loop variable, 1 outside of it
  view,       \* memberlist's table: NotMember or [addr, weight]
  callback,   \* the callback that is running
  ring,       \* the HashRing
  nodeAddrs,  \* the address table
  monitor,    \* the monitor: [weight, pc]
  events      \* changes so far

meshVars == <<node, attempt, view, callback, ring, nodeAddrs, monitor, events>>

Weight == {Low, Mid, defaultVnodes}
Meta(n) == [addr : AddressesOf[n], weight : Weight]
NoCallback == [kind |-> "none", node |-> Self]

\* NewMesh: memberlist.Create calls NotifyJoin for this node itself.
MeshInit ==
  /\ node = "starting" /\ attempt = 1
  /\ \E a \in AddressesOf[Self] :
       /\ view = [n \in NodeID |-> IF n = Self THEN [addr |-> a, weight |-> defaultVnodes]
                                               ELSE NotMember]
       /\ nodeAddrs = [n \in NodeID |-> IF n = Self THEN a ELSE NoAddr]
  /\ ring = AddNodeWithWeight(NewHashRing, Self, defaultVnodes)
  /\ callback = NoCallback
  /\ monitor = [weight |-> defaultVnodes, pc |-> "off"]
  /\ events = 0
-----------------------------------------------------------------------------
(* Callbacks.                                                              *)

\* memberlist runs from NewMesh to Shutdown.
Gossiping == node \notin {"failed", "gwClose", "stopped"}
Free == Gossiping /\ callback = NoCallback

Event == events < MaxEvents /\ events' = events + 1

Running(kind, n) == [kind |-> kind, node |-> n]

\* Mutation: the ring learns of the node first.
NotifyJoinRingFirst(n, meta) ==
  /\ Free /\ Event /\ view[n] = NotMember
  /\ view' = [view EXCEPT ![n] = meta]
  /\ ring' = AddNodeWithWeight(ring, n, meta.weight)
  /\ callback' = Running("address", n)
  /\ UNCHANGED <<node, attempt, nodeAddrs, monitor>>

\* NotifyJoin stores the address ...
NotifyJoin(n, meta) ==
  /\ Free /\ Event /\ n # Self /\ view[n] = NotMember
  /\ view' = [view EXCEPT ![n] = meta]
  /\ nodeAddrs' = [nodeAddrs EXCEPT ![n] = meta.addr]
  /\ callback' = Running("join", n)
  /\ UNCHANGED <<node, attempt, ring, monitor>>

\* ... and adds the node to the ring.
NotifyJoinRing ==
  /\ callback.kind = "join"
  /\ ring' = AddNodeWithWeight(ring, callback.node, view[callback.node].weight)
  /\ callback' = NoCallback
  /\ UNCHANGED <<node, attempt, view, nodeAddrs, monitor, events>>

\* NotifyLeave removes the node from the ring ...
Leaves(n) ==
  /\ view' = [view EXCEPT ![n] = NotMember]
  /\ ring' = RemoveNode(ring, n)
  /\ callback' = Running("leave", n)

NotifyLeave(n) ==
  /\ Free /\ Event /\ n # Self /\ view[n] # NotMember
  /\ Leaves(n)
  /\ UNCHANGED <<node, attempt, nodeAddrs, monitor>>

\* ... and forgets its address.
NotifyLeaveAddr ==
  /\ callback.kind = "leave"
  /\ nodeAddrs' = [nodeAddrs EXCEPT ![callback.node] = NoAddr]
  /\ callback' = NoCallback
  /\ UNCHANGED <<node, attempt, view, ring, monitor, events>>

\* NotifyUpdate stores the address ...
Updates(n, meta) ==
  /\ view' = [view EXCEPT ![n] = meta]
  /\ nodeAddrs' = [nodeAddrs EXCEPT ![n] = meta.addr]
  /\ callback' = Running("update", n)

NotifyUpdate(n, meta) ==
  /\ Free /\ Event /\ n # Self /\ view[n] # NotMember /\ view[n] # meta
  /\ Updates(n, meta)
  /\ UNCHANGED <<node, attempt, ring, monitor>>

\* ... and changes the weight.
NotifyUpdateRing ==
  /\ callback.kind = "update"
  /\ ring' = UpdateNodeWeight(ring, callback.node, view[callback.node].weight)
  /\ callback' = NoCallback
  /\ UNCHANGED <<node, attempt, view, nodeAddrs, monitor, events>>
-----------------------------------------------------------------------------
(* The monitor, start and stop.                                            *)

\* An iteration of Monitor.run that finds the occupancy in another range.
MonitorTick(w) ==
  /\ monitor.pc = "idle" /\ w # monitor.weight /\ Event
  /\ monitor' = [weight |-> w, pc |-> "set"]
  /\ UNCHANGED <<node, attempt, view, callback, ring, nodeAddrs>>

\* Its call of UpdateLocalWeight: memberlist's UpdateNode takes the new NodeMeta and
\* calls back NotifyUpdate for this node.
UpdateLocalWeight ==
  /\ monitor.pc = "set" /\ Free
  /\ Updates(Self, [view[Self] EXCEPT !.weight = monitor.weight])
  /\ monitor' = [monitor EXCEPT !.pc = "idle"]
  /\ UNCHANGED <<node, attempt, ring, events>>

\* Mutation: one attempt too many.
JoinFailsLate ==
  /\ node = "starting"
  /\ attempt' = attempt + 1
  /\ node' = IF attempt <= JoinRetries THEN "starting" ELSE "failed"
  /\ UNCHANGED <<view, callback, ring, nodeAddrs, monitor, events>>

\* Mesh.Start: Join, with JoinRetries attempts; Node.Start panics when all fail ...
JoinFails ==
  /\ node = "starting"
  /\ attempt' = attempt + 1
  /\ node' = IF attempt < JoinRetries THEN "starting" ELSE "failed"
  /\ UNCHANGED <<view, callback, ring, nodeAddrs, monitor, events>>

\* ... and starts the monitor otherwise.
Joined ==
  /\ node = "starting"
  /\ node' = "up" /\ attempt' = 1 /\ monitor' = [monitor EXCEPT !.pc = "idle"]
  /\ UNCHANGED <<view, callback, ring, nodeAddrs, events>>

\* Node.Stop: Monitor.Stop waits for run to return ...
MonitorStop ==
  /\ node = "up" /\ monitor.pc = "idle"
  /\ node' = "leaving" /\ monitor' = [monitor EXCEPT !.pc = "off"]
  /\ UNCHANGED <<attempt, view, callback, ring, nodeAddrs, events>>

\* ... Mesh.Stop has set stopping and leaves the cluster, which calls NotifyLeave
\* for this node ...
Leave ==
  /\ node = "leaving" /\ Free /\ view[Self] # NotMember
  /\ Leaves(Self)
  /\ UNCHANGED <<node, attempt, nodeAddrs, monitor, events>>

\* ... and shuts memberlist down.
Shutdown ==
  /\ node = "leaving" /\ Free /\ view[Self] = NotMember
  /\ node' = "gwClose"
  /\ UNCHANGED <<attempt, view, callback, ring, nodeAddrs, monitor, events>>

MeshNext ==
  \/ \E n \in NodeID : NotifyLeave(n) \/ \E m \in Meta(n) : NotifyJoin(n, m) \/ NotifyUpdate(n, m)
  \/ NotifyJoinRing \/ NotifyLeaveAddr \/ NotifyUpdateRing
  \/ (\E w \in Weight : MonitorTick(w)) \/ UpdateLocalWeight
  \/ JoinFails \/ Joined
  \/ MonitorStop \/ Leave \/ Shutdown
-----------------------------------------------------------------------------
stopping == node \in {"leaving", "gwClose", "stopped"}

AddressForNode(n) == IF stopping THEN NoAddr ELSE nodeAddrs[n]
=============================================================================
