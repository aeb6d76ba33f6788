---------------------------- MODULE RoutingTable ----------------------------
(***************************************************************************)
(* updateRoutingTable of pkg/netceptor/netceptor.go: the next hop and the  *)
(* path cost for every known node, from the connection costs that the      *)
(* routing updates have brought together.                                  *)
(*                                                                         *)
(* The code calls it Dijkstra's algorithm, but the queue it uses (package  *)
(* jupp0r/go-priority-queue) ignores an Insert of an element it already    *)
(* holds: a node keeps the priority it was first queued with, MaxFloat64,  *)
(* when a path to it is found.  Nodes are thus taken in the wrong order    *)
(* and taken again when their cost improves later.                         *)
(*                                                                         *)
(* Costs are naturals; Inf stands for MaxFloat64, which absorbs what is    *)
(* added to it.  A Go map gives 0 for a key it does not have: cost[n] is 0 *)
(* for a node that is nobody's key in knownConnectionCosts.                *)
(***************************************************************************)
EXTENDS Integers, FiniteSets, Sequences

CONSTANTS
    Nodes,    \* node names
    Self,     \* s.nodeID
    NoNode,   \* the empty string in prev, and an absent key in the table
    Inf,      \* math.MaxFloat64
    Graphs,   \* the contents knownConnectionCosts may have
    Walks     \* what the result is compared with: sequences of the nodes
              \* come to, each with the length of the way so far

(* A graph maps each key of knownConnectionCosts to its row; 0 is an edge  *)
(* that the row does not list, since costs are positive.                   *)
ASSUME RoutingTableAssumption ==
    /\ Self \in Nodes
    /\ NoNode \notin Nodes
    /\ Inf \in Nat \ {0}
    /\ \A g \in Graphs :
          /\ DOMAIN g \subseteq Nodes
          /\ g \in [DOMAIN g -> [Nodes -> 0..(Inf - 1)]]

Start == [node |-> Self, length |-> 0]

End(w) == w[Len(w)]

(* Walks may have more, but has all ways from this node, in any graph, on  *)
(* which no node comes twice.                                              *)
ASSUME WalksAssumption ==
    /\ Walks \subseteq Seq([node : Nodes, length : Nat]) \ {<<>>}
    /\ <<Start>> \in Walks
    /\ \A g \in Graphs : \A w \in Walks : \A m \in Nodes :
          /\ End(w).node \in DOMAIN g
          /\ g[End(w).node][m] > 0
          /\ \A i \in 1..Len(w) : w[i].node # m
          => Append(w, [node |-> m, length |-> End(w).length + g[End(w).node][m]]) \in Walks

VARIABLES
    known,      \* s.knownConnectionCosts, under knownNodeLock throughout
    queue,      \* the elements in Q
    priority,   \* [Nodes -> Nat]: the priority a queued element came with
    cost,       \* the local map cost
    prev,       \* the local map prev
    phase,      \* "search", then "table", then "done"
    todo,       \* destinations for which the table is still to be filled
    dest,       \* the destination being worked on
    hop,        \* the local p: where the walk back from dest has come to
    table,      \* s.routingTable
    pathCosts   \* s.routingPathCosts

vars == <<known, queue, priority, cost, prev, phase, todo, dest, hop, table,
          pathCosts>>

Rows == DOMAIN known

(* s.knownConnectionCosts[u][v], with 0 for absent.                        *)
EdgeCost(u, v) == IF u \in Rows THEN known[u][v] ELSE 0

(* Addition of floating point numbers at the top of their range.           *)
Plus(a, b) == IF a + b >= Inf THEN Inf ELSE a + b

-----------------------------------------------------------------------------
(* The queue is filled with this node and every key of the map.            *)
Init ==
    /\ known \in Graphs
    /\ queue = Rows \cup {Self}
    /\ cost = [n \in Nodes |-> IF n \in Rows \ {Self} THEN Inf ELSE 0]
    /\ priority = cost
    /\ prev = [n \in Nodes |-> NoNode]
    /\ phase = "search"
    /\ todo = {}
    /\ dest = NoNode
    /\ hop = NoNode
    /\ table = [n \in Nodes |-> NoNode]
    /\ pathCosts = [n \in {} |-> 0]

(* Faulty variants: every edge is taken, better or not; an edge is read    *)
(* against its direction.                                                  *)
ImprovedAlways(n) == {m \in Nodes : EdgeCost(n, m) > 0 /\ m # Self}

ImprovedBackwards(n) ==
    {m \in Nodes : EdgeCost(m, n) > 0 /\ Plus(cost[n], EdgeCost(m, n)) < cost[m]}

(* The neighbours of n to which the path through n is cheaper.             *)
Improved(n) ==
    {m \in Nodes : EdgeCost(n, m) > 0 /\ Plus(cost[n], EdgeCost(n, m)) < cost[m]}

(* The queue after n is popped and the improved neighbours are inserted.   *)
Requeue(n) == (queue \ {n}) \cup Improved(n)

(* prev after the neighbours of n are relaxed.                             *)
Prev(n) == [m \in Nodes |-> IF m \in Improved(n) THEN n ELSE prev[m]]

(* One turn of the search loop: pop an element of least priority and relax *)
(* the edges of its row.  Only what is not in the queue gets a priority.   *)
Pop(n) ==
    /\ phase = "search"
    /\ n \in queue
    /\ \A m \in queue : priority[n] <= priority[m]
    /\ queue' = Requeue(n)
    /\ LET better(m) == Plus(cost[n], EdgeCost(n, m))
       IN  /\ cost' = [m \in Nodes |->
                          IF m \in Improved(n) THEN better(m) ELSE cost[m]]
           /\ priority' = [m \in Nodes |->
                 IF m \in Improved(n) \ (queue \ {n}) THEN better(m)
                                                      ELSE priority[m]]
    /\ prev' = Prev(n)
    /\ UNCHANGED <<known, phase, todo, dest, hop, table, pathCosts>>

(* The queue is empty: the table is built anew.                            *)
BeginTable ==
    /\ phase = "search"
    /\ queue = {}
    /\ phase' = "table"
    /\ todo' = Rows
    /\ table' = [n \in Nodes |-> NoNode]
    /\ UNCHANGED <<known, queue, priority, cost, prev, dest, hop, pathCosts>>

(* The outer loop over the keys of the map, in any order.                  *)
NextDest(d) ==
    /\ phase = "table"
    /\ dest = NoNode
    /\ d \in todo
    /\ todo' = todo \ {d}
    /\ dest' = d
    /\ hop' = d
    /\ UNCHANGED <<known, queue, priority, cost, prev, phase, table, pathCosts>>

(* The inner loop is left and the destination is done with.                *)
Walked == dest' = NoNode /\ hop' = NoNode

(* The inner loop follows prev: a node reached from here is the next hop,  *)
(* a node reached from nowhere leaves the destination out of the table.    *)
FoundHop ==
    /\ dest # NoNode
    /\ prev[hop] = Self
    /\ table' = [table EXCEPT ![dest] = hop]
    /\ Walked
    /\ UNCHANGED <<known, queue, priority, cost, prev, phase, todo, pathCosts>>

NoPath ==
    /\ dest # NoNode
    /\ prev[hop] = NoNode
    /\ Walked
    /\ UNCHANGED <<known, queue, priority, cost, prev, phase, todo, table,
                   pathCosts>>

WalkBack ==
    /\ dest # NoNode
    /\ prev[hop] \notin {Self, NoNode}
    /\ hop' = prev[hop]
    /\ UNCHANGED <<known, queue, priority, cost, prev, phase, todo, dest, table,
                   pathCosts>>

(* The path costs go with the table.                                       *)
EndTable ==
    /\ phase = "table"
    /\ dest = NoNode
    /\ todo = {}
    /\ phase' = "done"
    /\ pathCosts' = [n \in Rows |-> cost[n]]
    /\ UNCHANGED <<known, queue, priority, cost, prev, todo, dest, hop, table>>

Next ==
    \/ \E n \in Nodes : Pop(n) \/ NextDest(n)
    \/ BeginTable \/ FoundHop \/ NoPath \/ WalkBack \/ EndTable

Spec == Init /\ [][Next]_vars

(* PathCost: the cost of a node, NoNode for the error "node not found".    *)
PathCost(n) == IF n \in DOMAIN pathCosts THEN pathCosts[n] ELSE NoNode

(* One goroutine runs the function from beginning to end.                  *)
FairSpec == Spec /\ WF_vars(Next)

-----------------------------------------------------------------------------
(* Types of the locals of updateRoutingTable.                              *)
TypeOK ==
    /\ known \in Graphs
    /\ queue \subseteq Nodes
    /\ priority \in [Nodes -> 0..Inf]
    /\ cost \in [Nodes -> 0..Inf]
    /\ prev \in [Nodes -> Nodes \cup {NoNode}]
    /\ phase \in {"search", "table", "done"}
    /\ todo \subseteq Nodes
    /\ dest \in Nodes \cup {NoNode}
    /\ hop \in Nodes \cup {NoNode}
    /\ hop = NoNode <=> dest = NoNode
    /\ table \in [Nodes -> Nodes \cup {NoNode}]
    /\ DOMAIN pathCosts \subseteq Nodes
    /\ pathCosts \in [DOMAIN pathCosts -> 0..Inf]

(* Whatever order the stale priorities bring the nodes out in, when the    *)
(* queue is empty no edge improves any cost, and a node with a predecessor *)
(* costs exactly what the edge from its predecessor makes it cost.         *)
CostsSettled ==
    queue = {} =>
        /\ \A n, m \in Nodes :
              EdgeCost(n, m) > 0 => cost[m] <= Plus(cost[n], EdgeCost(n, m))
        /\ \A n \in Nodes :
              prev[n] # NoNode =>
                 /\ EdgeCost(prev[n], n) > 0
                 /\ cost[n] = cost[prev[n]] + EdgeCost(prev[n], n)

(* The walk back along prev gets strictly nearer to this node with every   *)
(* step, so the inner loop, which holds two locks, cannot go round for     *)
(* ever.                                                                   *)
WalkDescends ==
    [][hop # NoNode /\ hop' # NoNode /\ hop' # hop => cost[hop'] < cost[hop]]_vars

(* The next hop is a neighbour, and the way through it costs no more than  *)
(* the path cost that PathCost reports for the destination.                *)
HopIsNeighbour ==
    \A d \in Nodes :
        table[d] # NoNode =>
           /\ EdgeCost(Self, table[d]) > 0
           /\ cost[table[d]] = EdgeCost(Self, table[d])
           /\ cost[table[d]] <= cost[d]

(* The computation comes to its end, for every graph and every order.      *)
Terminates == <>(phase = "done")

(* w is a way from this node along edges of the graph.                     *)
IsWalk(w) ==
    /\ w[1] = Start
    /\ \A i \in 1..(Len(w) - 1) :
          /\ EdgeCost(w[i].node, w[i + 1].node) > 0
          /\ w[i + 1].length = w[i].length + EdgeCost(w[i].node, w[i + 1].node)

WalksTo(n) == {w \in Walks : IsWalk(w) /\ End(w).node = n}

(* When updateRoutingTable returns, no way to a node is shorter than its   *)
(* path cost, the table has an entry for exactly the nodes that can be     *)
(* reached, and the next hop is the first step of a way as long as that.   *)
ShortestPaths ==
    phase = "done" =>
        \A n \in Rows \ {Self} :
            /\ \A w \in WalksTo(n) : PathCost(n) <= End(w).length
            /\ table[n] = NoNode <=> PathCost(n) = Inf
            /\ table[n] # NoNode =>
                  \E w \in WalksTo(n) : End(w).length = PathCost(n) /\ w[2].node = table[n]
=============================================================================
