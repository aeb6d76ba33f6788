------------------------------ MODULE IPRouter ------------------------------
(***************************************************************************)
(* The IP router of pkg/services/ip_router.go at one node.  The networks   *)
(* that other nodes advertise become kernel routes into a tunnel device,   *)
(* and packets from the device go to the cheapest node that advertises a   *)
(* network with their destination.                                         *)
(*                                                                         *)
(* Three goroutines: the watcher, which copies advertisements into         *)
(* knownRoutes and knownRoutes into the kernel, and the two forwarders.    *)
(* Advertisements and routes of the mesh change under it.  A network is    *)
(* the set of its addresses.                                               *)
(***************************************************************************)
EXTENDS Naturals

CONSTANTS
    Routers,     \* other nodes with a router of this network name
    Self,        \* this node
    Networks,    \* networks they may advertise
    Local,       \* localNet, advertised by Self
    LinkLocal,   \* fe80::/10
    MaxChanges   \* bound on the changes in the mesh

VARIABLES
    advertised,    \* networks in the advertisements that this node holds
    cost,          \* routingPathCosts, 0 for a node not in the routing table
    reachable,     \* the watcher's copy of the routing table's nodes
    knownRoutes,
    kernel,        \* the kernel's routes through the tunnel device
    watcher,       \* "table", "ads", "reconcile" or "wait"
    sending,       \* packets handed to the mesh: where to, and what for
    changes

vars == <<advertised, cost, reachable, knownRoutes, kernel, watcher, sending, changes>>

Nodes == Routers \cup {Self}
Nowhere == [to |-> Self, address |-> 0]

(* run: the device is up with its own network, which is advertised.        *)
Init ==
    /\ advertised = [n \in Nodes |-> IF n = Self THEN {Local} ELSE {}]
    /\ cost = [n \in Nodes |-> 0]
    /\ reachable = {}
    /\ knownRoutes = {}
    /\ kernel = {Local, LinkLocal}
    /\ watcher = "table"
    /\ sending = Nowhere
    /\ changes = 0

-----------------------------------------------------------------------------
(* The mesh: a node comes, moves or goes, and advertises what it likes.    *)
MeshChanges(n) ==
    /\ changes < MaxChanges
    /\ changes' = changes + 1
    /\ \/ \E c \in 0 .. 2 : cost' = [cost EXCEPT ![n] = c] /\ UNCHANGED advertised
       \/ \E nets \in SUBSET Networks :
             advertised' = [advertised EXCEPT ![n] = nets] /\ UNCHANGED cost
    /\ UNCHANGED <<reachable, knownRoutes, kernel, watcher, sending>>

-----------------------------------------------------------------------------
(* updateKnownRoutes.  Status reads the routing table and the              *)
(* advertisements one after the other.                                     *)
ReadTable ==
    /\ watcher = "table"
    /\ reachable' = {n \in Nodes : cost[n] # 0}
    /\ watcher' = "ads"
    /\ UNCHANGED <<advertised, cost, knownRoutes, kernel, sending, changes>>

(* Faulty variant: new routes are added to those known before.             *)
UpdateKnownRoutesAdds ==
    /\ watcher = "ads"
    /\ knownRoutes' = knownRoutes \cup
         {r \in [dest : Networks \cup {Local}, via : reachable] : r.dest \in advertised[r.via]}
    /\ watcher' = "reconcile"
    /\ UNCHANGED <<advertised, cost, reachable, kernel, sending, changes>>

UpdateKnownRoutes ==
    /\ watcher = "ads"
    /\ knownRoutes' =
         {r \in [dest : Networks \cup {Local}, via : reachable] : r.dest \in advertised[r.via]}
    /\ watcher' = "reconcile"
    /\ UNCHANGED <<advertised, cost, reachable, kernel, sending, changes>>

(* route.Dst.IP: the lowest address of the network.                        *)
BaseAddress(net) == CHOOSE a \in net : \A b \in net : a <= b

(* Routes that begin in the local or the link-local network are never      *)
(* removed, whoever advertised them.                                       *)
Spared(route) == BaseAddress(route) \in Local \cup LinkLocal

(* The routes to add and to remove.                                        *)
Dests == {r.dest : r \in knownRoutes}
Missing == Dests \ kernel
Superfluous == {route \in kernel \ Dests : ~Spared(route)}

(* reconcileRoutingTable: each call of the kernel may fail, the first one  *)
(* (which lists its routes) too, and then nothing is done.                 *)
Reconcile ==
    /\ watcher = "reconcile"
    /\ \E added \in SUBSET Missing, removed \in SUBSET Superfluous :
          kernel' = (kernel \cup added) \ removed
    /\ watcher' = "wait"
    /\ UNCHANGED <<advertised, cost, reachable, knownRoutes, sending, changes>>

(* runAdvertisingWatcher, after its ten seconds.                           *)
Again ==
    /\ watcher = "wait"
    /\ watcher' = "table"
    /\ UNCHANGED <<advertised, cost, reachable, knownRoutes, kernel, sending, changes>>

-----------------------------------------------------------------------------
(* runTunToNetceptor: the kernel gives a packet to the device if a route   *)
(* covers its destination; the cheapest known route for it that can be     *)
(* reached now takes it, and otherwise it is dropped.                      *)
Candidates(address) ==
    {r.via : r \in {k \in knownRoutes : cost[k.via] # 0 /\ address \in k.dest}}

TunToNetceptor(address) ==
    /\ \E route \in kernel : address \in route
    /\ \/ \E n \in Candidates(address) :
             /\ \A other \in Candidates(address) : cost[n] <= cost[other]
             /\ sending' = [to |-> n, address |-> address]
       \/ Candidates(address) = {} /\ sending' = Nowhere
    /\ UNCHANGED <<advertised, cost, reachable, knownRoutes, kernel, watcher, changes>>

(* runNetceptorToTun at the other end takes what it gets.                  *)
Delivered ==
    /\ sending # Nowhere
    /\ sending' = Nowhere
    /\ UNCHANGED <<advertised, cost, reachable, knownRoutes, kernel, watcher, changes>>

-----------------------------------------------------------------------------
Watcher == ReadTable \/ UpdateKnownRoutes \/ Reconcile \/ Again

Next ==
    \/ \E n \in Routers : MeshChanges(n)
    \/ Watcher
    \/ \E address \in UNION Networks : TunToNetceptor(address)
    \/ Delivered

ReconcileAll == Reconcile /\ kernel' = (kernel \cup Missing) \ Superfluous

(* The watcher goes on, a call of the kernel that is tried for ever works  *)
(* some time, and packets do not stay in the device.                       *)
Fairness ==
    /\ WF_vars(Watcher)
    /\ SF_vars(ReconcileAll)
    /\ WF_vars(Delivered)

Spec == Init /\ [][Next]_vars /\ Fairness

-----------------------------------------------------------------------------
(* Routes that nodes within reach advertise.                               *)
Wanted == UNION {advertised[n] : n \in {m \in Routers : cost[m] # 0}}

(* When the mesh has changed for the last time, the kernel gets every      *)
(* route that nodes within reach advertise, keeps of the others only those *)
(* that begin in the local or link-local network, and packets go only to a *)
(* node that advertises their destination now (runAdvertisingWatcher,      *)
(* reconcileRoutingTable, runTunToNetceptor).                              *)
RoutesFollow ==
    <>[](/\ {Local, LinkLocal} \cup Wanted \subseteq kernel
         /\ \A route \in kernel \ Wanted : Spared(route)
         /\ \/ sending = Nowhere
            \/ /\ cost[sending.to] # 0
               /\ \E dest \in advertised[sending.to] : sending.address \in dest)
=============================================================================
