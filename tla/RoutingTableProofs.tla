------------------------- MODULE RoutingTableProofs -------------------------
(***************************************************************************)
(* Proofs about RoutingTable, for any set of nodes, any costs and any      *)
(* contents of knownConnectionCosts.                                       *)
(*                                                                         *)
(* The argument does not use the order in which the queue gives its        *)
(* elements out, which is as well, since the priorities are stale: an edge *)
(* that could improve something always leaves a node that is still queued. *)
(*                                                                         *)
(* That no way is shorter than the path cost, and that prev gives one that *)
(* is not longer, goes by induction on the steps of a way and on the cost  *)
(* of a node; LeastOf, the least element of a set of numbers, stands for   *)
(* the principle: the first step, or the cheapest node, that fails has one *)
(* before it that does not.                                                *)
(***************************************************************************)
EXTENDS RoutingTable, WellFoundedInduction, TLAPS

(* This node is where the search starts; nothing improves on it.           *)
SelfIsRoot == cost[Self] = 0 /\ prev[Self] = NoNode

(* Edges out of nodes that are not queued have nothing left to improve.    *)
Relaxed ==
    \A n, m \in Nodes :
        n \notin queue /\ EdgeCost(n, m) > 0 => cost[m] <= Plus(cost[n], EdgeCost(n, m))

(* The predecessor's cost may have fallen since it set ours, never risen.  *)
PrevIsCheaper ==
    \A n \in Nodes :
        prev[n] # NoNode =>
            /\ EdgeCost(prev[n], n) > 0
            /\ cost[prev[n]] + EdgeCost(prev[n], n) <= cost[n]

(* The table is built from settled costs.                                  *)
Phases ==
    /\ phase # "search" => queue = {}
    /\ phase = "search" => dest = NoNode /\ \A n \in Nodes : table[n] = NoNode

(* Walking back never gets dearer, and what is in the table is one edge    *)
(* away from this node.                                                    *)
WalkIsNearer ==
    /\ dest # NoNode => cost[hop] <= cost[dest]
    /\ \A d \in Nodes :
          table[d] # NoNode => prev[table[d]] = Self /\ cost[table[d]] <= cost[d]

IInv ==
    /\ TypeOK
    /\ SelfIsRoot
    /\ Relaxed
    /\ PrevIsCheaper
    /\ Phases
    /\ WalkIsNearer

-----------------------------------------------------------------------------
(* An edge has a natural number for its cost.                              *)
LEMMA EdgeCostType ==
    ASSUME known \in Graphs, NEW u \in Nodes, NEW v \in Nodes
    PROVE  EdgeCost(u, v) \in Nat
  BY RoutingTableAssumption DEF EdgeCost, Rows

(* The sum of a cost and an edge is a cost; below Inf it is their sum.     *)
LEMMA PlusType ==
    ASSUME NEW x \in 0..Inf, NEW y \in Nat
    PROVE  /\ Plus(x, y) \in 0..Inf
           /\ Plus(x, y) <= x + y
           /\ Plus(x, y) < Inf => Plus(x, y) = x + y
           /\ y > 0 => ~(Plus(x, y) < x)
  BY RoutingTableAssumption DEF Plus

(* A greater cost gives a sum that is not smaller.                         *)
LEMMA PlusMonotone ==
    ASSUME NEW x \in 0..Inf, NEW z \in 0..Inf, NEW y \in Nat, x <= z
    PROVE  Plus(x, y) <= Plus(z, y)
  BY RoutingTableAssumption DEF Plus

LEMMA InitIInv == Init => IInv
<1> SUFFICES ASSUME Init PROVE IInv
  OBVIOUS
<1>1. TypeOK
  <2>1. 0 \in 0..Inf /\ Inf \in 0..Inf
    BY RoutingTableAssumption
  <2>2. Rows \subseteq Nodes
    BY RoutingTableAssumption DEF Init, Rows
  <2>3. cost \in [Nodes -> 0..Inf] /\ priority \in [Nodes -> 0..Inf]
    BY <2>1 DEF Init
  <2>4. DOMAIN pathCosts = {} /\ pathCosts \in [DOMAIN pathCosts -> 0..Inf]
    BY DEF Init
  <2> QED
    BY <2>2, <2>3, <2>4, RoutingTableAssumption DEF Init, TypeOK
<1>2. SelfIsRoot
  BY RoutingTableAssumption DEF Init, SelfIsRoot
<1>3. Relaxed
  BY DEF Init, Relaxed, EdgeCost
<1>4. PrevIsCheaper /\ Phases /\ WalkIsNearer
  BY DEF Init, PrevIsCheaper, Phases, WalkIsNearer
<1> QED
  BY <1>1, <1>2, <1>3, <1>4 DEF IInv

-----------------------------------------------------------------------------
(* What one turn of the search loop does to the costs: none rises, that of *)
(* the popped node stays, and its neighbours are no dearer than through it.*)
LEMMA PopCosts ==
    ASSUME IInv, NEW n \in Nodes, Pop(n)
    PROVE  /\ cost' \in [Nodes -> 0..Inf]
           /\ \A m \in Nodes : cost'[m] <= cost[m]
           /\ n \notin Improved(n) /\ Self \notin Improved(n)
           /\ \A m \in Nodes \ Improved(n) :
                 /\ cost'[m] = cost[m]
                 /\ EdgeCost(n, m) > 0 => cost[m] <= Plus(cost[n], EdgeCost(n, m))
           /\ \A m \in Improved(n) :
                 /\ EdgeCost(n, m) > 0
                 /\ cost'[m] = cost[n] + EdgeCost(n, m)
                 /\ cost'[m] = Plus(cost[n], EdgeCost(n, m))
<1>1. cost \in [Nodes -> 0..Inf] /\ known \in Graphs
  BY DEF IInv, TypeOK
<1>2. Self \in Nodes /\ Inf \in Nat
  BY RoutingTableAssumption
<1>3. \A m \in Nodes : EdgeCost(n, m) \in Nat
  BY <1>1, EdgeCostType
<1>4. \A m \in Nodes : /\ Plus(cost[n], EdgeCost(n, m)) \in 0..Inf
                       /\ Plus(cost[n], EdgeCost(n, m)) < Inf =>
                            Plus(cost[n], EdgeCost(n, m)) = cost[n] + EdgeCost(n, m)
                       /\ EdgeCost(n, m) > 0 =>
                            ~(Plus(cost[n], EdgeCost(n, m)) < cost[n])
  BY <1>1, <1>3, PlusType
<1>5. cost' = [m \in Nodes |-> IF m \in Improved(n)
                               THEN Plus(cost[n], EdgeCost(n, m)) ELSE cost[m]]
  BY DEF Pop
<1>6. \A m \in Nodes : m \in Improved(n) <=>
          EdgeCost(n, m) > 0 /\ Plus(cost[n], EdgeCost(n, m)) < cost[m]
  BY DEF Improved
<1>7. Improved(n) \subseteq Nodes
  BY DEF Improved
<1>8. n \notin Improved(n)
  BY <1>4, <1>6
<1>9. Self \notin Improved(n)
  <2>1. cost[Self] = 0
    BY DEF IInv, SelfIsRoot
  <2> QED
    BY <1>2, <1>4, <1>6, <2>1
<1>10. \A m \in Improved(n) :
          /\ EdgeCost(n, m) > 0
          /\ cost'[m] = Plus(cost[n], EdgeCost(n, m))
          /\ cost'[m] < cost[m]
          /\ cost'[m] = cost[n] + EdgeCost(n, m)
  BY <1>1, <1>2, <1>4, <1>5, <1>6, <1>7
<1>11. \A m \in Nodes \ Improved(n) :
          /\ cost'[m] = cost[m]
          /\ EdgeCost(n, m) > 0 => cost[m] <= Plus(cost[n], EdgeCost(n, m))
  BY <1>1, <1>2, <1>4, <1>5, <1>6
<1>12. \A m \in Nodes : cost'[m] \in 0..Inf /\ cost'[m] <= cost[m]
  BY <1>1, <1>2, <1>4, <1>10, <1>11
<1>13. cost' \in [Nodes -> 0..Inf]
  BY <1>5, <1>12
<1> QED
  BY <1>8, <1>9, <1>10, <1>11, <1>12, <1>13

(* Popping an element of the queue preserves the invariant.                *)
LEMMA PopIInv ==
    ASSUME IInv, NEW n \in Nodes, Pop(n)
    PROVE  IInv'
<1>1. cost \in [Nodes -> 0..Inf] /\ known \in Graphs /\ Self \in Nodes
  BY RoutingTableAssumption DEF IInv, TypeOK
<1>2. \A u, v \in Nodes : EdgeCost(u, v) \in Nat
  BY <1>1, EdgeCostType
<1>3. \A u, v \in Nodes : EdgeCost(u, v)' = EdgeCost(u, v)
  BY DEF Pop, EdgeCost, Rows
<1>4. phase = "search" /\ phase' = "search" /\ dest' = dest /\ hop' = hop
      /\ table' = table /\ known' = known /\ pathCosts' = pathCosts /\ todo' = todo
  BY DEF Pop
<1>5. TypeOK'
  <2>1. priority' \in [Nodes -> 0..Inf]
    <3>1. \A m \in Nodes : Plus(cost[n], EdgeCost(n, m)) \in 0..Inf
      BY <1>1, <1>2, PlusType
    <3> QED
      BY <3>1 DEF IInv, TypeOK, Pop
  <2>2. queue' \subseteq Nodes
    BY DEF IInv, TypeOK, Pop, Requeue, Improved
  <2>3. prev' \in [Nodes -> Nodes \cup {NoNode}]
    BY DEF IInv, TypeOK, Pop, Prev
  <2> QED
    BY <1>4, <2>1, <2>2, <2>3, PopCosts DEF IInv, TypeOK
<1>6. SelfIsRoot'
  <2>1. cost'[Self] = cost[Self]
    BY <1>1, PopCosts
  <2>2. prev'[Self] = prev[Self]
    BY <1>1, PopCosts DEF Pop, Prev
  <2> QED
    BY <2>1, <2>2 DEF IInv, SelfIsRoot
<1>7. Relaxed'
  <2> SUFFICES ASSUME NEW u \in Nodes, NEW v \in Nodes, u \notin queue',
                      EdgeCost(u, v) > 0
               PROVE  cost'[v] <= Plus(cost'[u], EdgeCost(u, v))
    BY <1>3 DEF Relaxed, Plus
  <2>1. u \notin Improved(n) /\ cost'[u] = cost[u]
    BY PopCosts DEF Pop, Requeue
  <2>2. cost'[v] <= cost[v] /\ cost'[v] \in 0..Inf
    BY PopCosts
  <2>3. Plus(cost[u], EdgeCost(u, v)) \in 0..Inf
    BY <1>1, <1>2, PlusType
  <2>4. CASE u = n
    <3>1. CASE v \in Improved(n)
      BY <2>1, <2>2, <2>4, <3>1, PopCosts
    <3>2. CASE v \notin Improved(n)
      BY <2>1, <2>2, <2>4, <3>2, PopCosts
    <3> QED
      BY <3>1, <3>2
  <2>5. CASE u # n
    <3>1. cost[v] <= Plus(cost[u], EdgeCost(u, v))
      BY <2>1, <2>5 DEF IInv, Relaxed, Pop, Requeue
    <3>2. cost[v] \in 0..Inf /\ Inf \in Nat
      BY <1>1, RoutingTableAssumption
    <3> QED
      BY <2>1, <2>2, <2>3, <3>1, <3>2
  <2> QED
    BY <2>4, <2>5
<1>8. PrevIsCheaper'
  <2> SUFFICES ASSUME NEW m \in Nodes, prev'[m] # NoNode
               PROVE  /\ EdgeCost(prev'[m], m) > 0
                      /\ cost'[prev'[m]] + EdgeCost(prev'[m], m) <= cost'[m]
    <3>1. \A m \in Nodes : prev'[m] # NoNode => prev'[m] \in Nodes
      BY <1>5 DEF TypeOK
    <3> QED
      BY <1>3, <3>1 DEF PrevIsCheaper
  <2>1. CASE m \in Improved(n)
    <3>1. prev'[m] = n
      BY <2>1 DEF Pop, Prev
    <3>2. cost'[n] = cost[n] /\ cost'[m] = cost[n] + EdgeCost(n, m)
      BY <2>1, PopCosts
    <3>3. cost[n] \in Nat /\ EdgeCost(n, m) \in Nat /\ EdgeCost(n, m) > 0
      BY <1>1, <1>2, <2>1, PopCosts, RoutingTableAssumption
    <3> QED
      BY <3>1, <3>2, <3>3
  <2>2. CASE m \notin Improved(n)
    <3>1. prev'[m] = prev[m] /\ cost'[m] = cost[m]
      BY <2>2, PopCosts DEF Pop, Prev
    <3>2. prev[m] \in Nodes
      BY <3>1 DEF IInv, TypeOK
    <3>3. EdgeCost(prev[m], m) > 0 /\ cost[prev[m]] + EdgeCost(prev[m], m) <= cost[m]
      BY <3>1 DEF IInv, PrevIsCheaper
    <3>4. /\ cost'[prev[m]] <= cost[prev[m]] /\ cost'[prev[m]] \in Nat
          /\ cost[prev[m]] \in Nat /\ cost[m] \in Nat /\ EdgeCost(prev[m], m) \in Nat
      BY <1>1, <1>2, <3>2, PopCosts, RoutingTableAssumption
    <3> QED
      BY <3>1, <3>3, <3>4
  <2> QED
    BY <2>1, <2>2
<1>9. Phases'
  BY <1>4 DEF IInv, Phases
<1>10. WalkIsNearer'
  BY <1>4 DEF IInv, Phases, WalkIsNearer
<1> QED
  BY <1>5, <1>6, <1>7, <1>8, <1>9, <1>10 DEF IInv

-----------------------------------------------------------------------------
(* What the steps of the second half leave alone.                          *)
LEMMA TablePhaseIInv ==
    ASSUME IInv,
           UNCHANGED <<known, queue, priority, cost, prev>>,
           TypeOK', Phases', WalkIsNearer'
    PROVE  IInv'
<1>1. SelfIsRoot'
  BY DEF IInv, SelfIsRoot
<1>2. Relaxed' /\ PrevIsCheaper'
  BY DEF IInv, Relaxed, PrevIsCheaper, EdgeCost, Rows, Plus
<1> QED
  BY <1>1, <1>2 DEF IInv

LEMMA NextIInv == IInv /\ [Next]_vars => IInv'
<1> SUFFICES ASSUME IInv, [Next]_vars PROVE IInv'
  OBVIOUS
<1>0. /\ NoNode \notin Nodes /\ Self \in Nodes /\ Rows \subseteq Nodes
      /\ \A n \in Nodes : cost[n] \in Nat
  BY RoutingTableAssumption DEF IInv, TypeOK, Rows
<1>1. ASSUME NEW n \in Nodes, Pop(n) PROVE IInv'
  BY <1>1, PopIInv
<1>2. CASE BeginTable
  <2>1. TypeOK'
    BY <1>0, <1>2 DEF IInv, TypeOK, BeginTable
  <2>2. Phases' /\ WalkIsNearer'
    BY <1>2 DEF IInv, Phases, WalkIsNearer, BeginTable
  <2> QED
    BY <1>2, <2>1, <2>2, TablePhaseIInv DEF BeginTable
<1>3. ASSUME NEW d \in Nodes, NextDest(d) PROVE IInv'
  <2>1. TypeOK'
    BY <1>0, <1>3 DEF IInv, TypeOK, NextDest
  <2>2. Phases' /\ WalkIsNearer'
    BY <1>0, <1>3 DEF IInv, Phases, WalkIsNearer, NextDest
  <2> QED
    BY <1>3, <2>1, <2>2, TablePhaseIInv DEF NextDest
<1>4. CASE FoundHop
  <2>1. dest \in Nodes /\ hop \in Nodes
    BY <1>4 DEF IInv, TypeOK, FoundHop
  <2>2. TypeOK'
    BY <1>4, <2>1 DEF IInv, TypeOK, FoundHop, Walked
  <2>3. Phases'
    BY <1>4 DEF IInv, Phases, FoundHop, Walked
  <2>4. WalkIsNearer'
    BY <1>4, <2>1 DEF IInv, TypeOK, WalkIsNearer, FoundHop, Walked
  <2> QED
    BY <1>4, <2>2, <2>3, <2>4, TablePhaseIInv DEF FoundHop
<1>5. CASE NoPath
  <2>1. TypeOK'
    BY <1>5 DEF IInv, TypeOK, NoPath, Walked
  <2>2. Phases' /\ WalkIsNearer'
    BY <1>5 DEF IInv, Phases, WalkIsNearer, NoPath, Walked
  <2> QED
    BY <1>5, <2>1, <2>2, TablePhaseIInv DEF NoPath
<1>6. CASE WalkBack
  <2>1. dest \in Nodes /\ hop \in Nodes /\ prev[hop] \in Nodes
    BY <1>6 DEF IInv, TypeOK, WalkBack
  <2>2. TypeOK'
    BY <1>0, <1>6, <2>1 DEF IInv, TypeOK, WalkBack
  <2>3. cost[prev[hop]] <= cost[dest]
    <3>1. EdgeCost(prev[hop], hop) \in Nat
      BY <2>1, EdgeCostType DEF IInv, TypeOK
    <3>2. cost[prev[hop]] + EdgeCost(prev[hop], hop) <= cost[hop]
      BY <1>0, <2>1 DEF IInv, PrevIsCheaper
    <3>3. cost[hop] <= cost[dest]
      BY <1>6 DEF IInv, WalkIsNearer, WalkBack
    <3> QED
      BY <1>0, <2>1, <3>1, <3>2, <3>3
  <2>4. Phases' /\ WalkIsNearer'
    BY <1>6, <2>3 DEF IInv, Phases, WalkIsNearer, WalkBack
  <2> QED
    BY <1>6, <2>2, <2>4, TablePhaseIInv DEF WalkBack
<1>7. CASE EndTable
  <2>1. TypeOK'
    <3>1. Rows \subseteq Nodes /\ DOMAIN pathCosts' = Rows
      BY <1>0, <1>7 DEF EndTable
    <3>2. pathCosts' \in [Rows -> 0..Inf]
      BY <1>0, <1>7 DEF IInv, TypeOK, EndTable
    <3> QED
      BY <1>7, <3>1, <3>2 DEF IInv, TypeOK, EndTable
  <2>2. Phases' /\ WalkIsNearer'
    BY <1>7 DEF IInv, Phases, WalkIsNearer, EndTable
  <2> QED
    BY <1>7, <2>1, <2>2, TablePhaseIInv DEF EndTable
<1>8. CASE UNCHANGED vars
  <2>1. TypeOK' /\ Phases' /\ WalkIsNearer'
    BY <1>8 DEF IInv, TypeOK, Phases, WalkIsNearer, vars
  <2> QED
    BY <1>8, <2>1, TablePhaseIInv DEF vars
<1> QED
  BY <1>1, <1>2, <1>3, <1>4, <1>5, <1>6, <1>7, <1>8 DEF Next

(* The inductive invariant holds of every computation of a table.          *)
THEOREM Invariance == Spec => []IInv
  BY InitIInv, NextIInv, PTL DEF Spec

(* Type correctness of updateRoutingTable.                                 *)
THEOREM TypeCorrect == Spec => []TypeOK
<1>1. IInv => TypeOK
  BY DEF IInv
<1> QED
  BY <1>1, Invariance, PTL

-----------------------------------------------------------------------------
(* In the states of the invariant the costs are settled when the queue is  *)
(* empty.                                                                  *)
LEMMA InvSettles == IInv => CostsSettled
<1> SUFFICES ASSUME IInv, queue = {} PROVE CostsSettled
  BY DEF CostsSettled
<1>1. \A n, m \in Nodes :
          EdgeCost(n, m) > 0 => cost[m] <= Plus(cost[n], EdgeCost(n, m))
  BY DEF IInv, Relaxed
<1>2. ASSUME NEW n \in Nodes, prev[n] # NoNode
      PROVE  /\ EdgeCost(prev[n], n) > 0
             /\ cost[n] = cost[prev[n]] + EdgeCost(prev[n], n)
  <2>1. prev[n] \in Nodes
    BY <1>2 DEF IInv, TypeOK
  <2>2. EdgeCost(prev[n], n) \in Nat
    BY <2>1, EdgeCostType DEF IInv, TypeOK
  <2>3. cost[n] \in 0..Inf /\ cost[prev[n]] \in 0..Inf /\ Inf \in Nat
    BY <2>1, RoutingTableAssumption DEF IInv, TypeOK
  <2>4. EdgeCost(prev[n], n) > 0 /\ cost[prev[n]] + EdgeCost(prev[n], n) <= cost[n]
    BY <1>2 DEF IInv, PrevIsCheaper
  <2>5. cost[n] <= Plus(cost[prev[n]], EdgeCost(prev[n], n))
    BY <1>1, <2>1, <2>4
  <2>6. /\ Plus(cost[prev[n]], EdgeCost(prev[n], n)) \in 0..Inf
        /\ Plus(cost[prev[n]], EdgeCost(prev[n], n))
              <= cost[prev[n]] + EdgeCost(prev[n], n)
    BY <2>2, <2>3, PlusType
  <2> QED
    BY <2>2, <2>3, <2>4, <2>5, <2>6
<1> QED
  BY <1>1, <1>2 DEF CostsSettled

(* The queue's stale priorities do no harm: when it is empty, the costs    *)
(* satisfy the equations of the shortest paths from this node.             *)
THEOREM Settled == Spec => []CostsSettled
  BY InvSettles, Invariance, PTL

(* Every next hop in the table is a neighbour of this node, no dearer than *)
(* the destination, at all times.                                          *)
THEOREM HopsAreNeighbours == Spec => []HopIsNeighbour
<1>1. IInv => HopIsNeighbour
  <2> SUFFICES ASSUME IInv, NEW d \in Nodes, table[d] # NoNode
               PROVE  /\ EdgeCost(Self, table[d]) > 0
                      /\ cost[table[d]] = EdgeCost(Self, table[d])
                      /\ cost[table[d]] <= cost[d]
    BY DEF HopIsNeighbour
  <2>1. table[d] \in Nodes /\ prev[table[d]] = Self /\ cost[table[d]] <= cost[d]
    BY DEF IInv, TypeOK, WalkIsNearer
  <2>2. queue = {}
    BY DEF IInv, TypeOK, Phases
  <2>3. Self \in Nodes /\ Self # NoNode /\ cost[Self] = 0
    BY RoutingTableAssumption DEF IInv, SelfIsRoot
  <2>4. /\ EdgeCost(Self, table[d]) > 0
        /\ cost[table[d]] = cost[Self] + EdgeCost(Self, table[d])
    BY <2>1, <2>2, <2>3, InvSettles DEF CostsSettled
  <2>5. EdgeCost(Self, table[d]) \in Nat
    BY <2>1, <2>3, EdgeCostType DEF IInv, TypeOK
  <2> QED
    BY <2>1, <2>3, <2>4, <2>5
<1> QED
  BY <1>1, Invariance, PTL

(* The inner loop that walks back along prev comes nearer to this node     *)
(* with every turn.                                                        *)
THEOREM WalkTerminates == Spec => WalkDescends
<1>1. IInv /\ [Next]_vars =>
        [hop # NoNode /\ hop' # NoNode /\ hop' # hop => cost[hop'] < cost[hop]]_vars
  <2> SUFFICES ASSUME IInv, Next, hop # NoNode, hop' # NoNode, hop' # hop
               PROVE  cost[hop'] < cost[hop]
    BY DEF vars
  <2>1. WalkBack
    BY DEF Next, Pop, BeginTable, NextDest, FoundHop, NoPath, EndTable, Walked,
       IInv, TypeOK
  <2>2. hop \in Nodes /\ hop' = prev[hop] /\ prev[hop] \in Nodes /\ prev[hop] # NoNode
    BY <2>1, RoutingTableAssumption DEF WalkBack, IInv, TypeOK
  <2>3. EdgeCost(prev[hop], hop) > 0 /\ cost[prev[hop]] + EdgeCost(prev[hop], hop) <= cost[hop]
    BY <2>2 DEF IInv, PrevIsCheaper
  <2>4. EdgeCost(prev[hop], hop) \in Nat /\ cost[hop] \in Nat /\ cost[prev[hop]] \in Nat
    BY <2>2, EdgeCostType, RoutingTableAssumption DEF IInv, TypeOK
  <2> QED
    BY <2>2, <2>3, <2>4
<1> QED
  BY <1>1, Invariance, PTL DEF Spec, WalkDescends

-----------------------------------------------------------------------------
(* A known node has a predecessor exactly if a way to it has been found.   *)
Reached == \A n \in Rows \ {Self} : cost[n] < Inf <=> prev[n] # NoNode

(* h is d or comes when prev is followed from d.                           *)
Chain(d, h) ==
    \A S \in SUBSET Nodes :
        d \in S /\ (\A x \in S : prev[x] \in Nodes => prev[x] \in S) => h \in S

(* The walk back is on its way from a known destination.                   *)
WalkIsOnChain ==
    dest # NoNode => /\ dest \in Rows /\ hop \in Rows
                     /\ dest # Self => hop # Self
                     /\ Chain(dest, hop)

(* What was found lies on the way back, and was found if it exists.        *)
TableIsOnChain == \A d \in Nodes : table[d] # NoNode => Chain(d, table[d])

TableIsFilled ==
    phase # "search" =>
        \A d \in Rows \ {Self} :
            d \notin todo /\ d # dest => (table[d] = NoNode <=> prev[d] = NoNode)

(* What the function leaves behind.                                        *)
Returned ==
    /\ todo \subseteq Rows
    /\ phase = "done" => todo = {} /\ dest = NoNode /\ pathCosts = [n \in Rows |-> cost[n]]

TInv == Reached /\ WalkIsOnChain /\ TableIsOnChain /\ TableIsFilled /\ Returned

-----------------------------------------------------------------------------
(* Costs are natural numbers up to Inf.                                    *)
LEMMA CostType ==
    ASSUME TypeOK, NEW n \in Nodes
    PROVE  cost[n] \in Nat /\ cost[n] <= Inf /\ Inf \in Nat
BY RoutingTableAssumption DEF TypeOK

(* Keys of the map are nodes.                                              *)
LEMMA RowsAreNodes == TypeOK => Rows \subseteq Nodes
BY RoutingTableAssumption DEF TypeOK, Rows

(* One turn of the search gives every node it improves a predecessor.      *)
LEMMA PopTInv ==
    ASSUME IInv, TInv, NEW n \in Nodes, Pop(n)
    PROVE  TInv'
<1>1. /\ phase = "search" /\ UNCHANGED <<known, phase, todo, dest, hop, table, pathCosts>>
      /\ prev' = Prev(n)
  BY DEF Pop
<1>2. Rows' = Rows /\ Rows \subseteq Nodes
  BY <1>1, RowsAreNodes DEF Rows, IInv
<1>3. ASSUME NEW m \in Rows \ {Self} PROVE cost'[m] < Inf <=> prev'[m] # NoNode
  <2>1. m \in Nodes
    BY <1>2
  <2>2. CASE m \in Improved(n)
    <3>1. prev'[m] = n /\ n # NoNode
      BY <1>1, <2>1, <2>2, RoutingTableAssumption DEF Prev
    <3>2. cost'[m] = Plus(cost[n], EdgeCost(n, m))
      BY <2>2, PopCosts
    <3>3. Plus(cost[n], EdgeCost(n, m)) < cost[m]
      BY <2>2 DEF Improved
    <3>4. cost[m] \in Nat /\ cost[m] <= Inf /\ Inf \in Nat
      BY <2>1, CostType DEF IInv
    <3>5. EdgeCost(n, m) \in Nat /\ cost[n] \in 0..Inf
      BY <2>1, EdgeCostType DEF IInv, TypeOK
    <3>6. Plus(cost[n], EdgeCost(n, m)) \in 0..Inf
      BY <3>5, PlusType
    <3>7. cost'[m] < Inf
      BY <3>2, <3>3, <3>4, <3>6
    <3> QED BY <3>1, <3>7
  <2>3. CASE m \notin Improved(n)
    <3>1. prev'[m] = prev[m]
      BY <1>1, <2>1, <2>3 DEF Prev
    <3>2. cost'[m] = cost[m]
      BY <2>1, <2>3, PopCosts
    <3> QED BY <3>1, <3>2 DEF TInv, Reached
  <2> QED BY <2>2, <2>3
<1>4. Reached'
  BY <1>2, <1>3 DEF Reached
<1>5. dest = NoNode /\ \A d \in Nodes : table[d] = NoNode
  BY <1>1 DEF IInv, Phases
<1>6. WalkIsOnChain' /\ TableIsOnChain' /\ TableIsFilled' /\ Returned'
  BY <1>1, <1>2, <1>5 DEF TInv, WalkIsOnChain, TableIsOnChain, TableIsFilled, Returned
<1> QED BY <1>4, <1>6 DEF TInv

(* A destination is on its own way back.                                   *)
LEMMA ChainSelf ==
    ASSUME NEW d PROVE Chain(d, d)
BY DEF Chain

(* Following prev once more stays on the way back.                         *)
LEMMA ChainStep ==
    ASSUME NEW d, NEW h \in Nodes, Chain(d, h), prev[h] \in Nodes
    PROVE  Chain(d, prev[h])
BY DEF Chain

(* Without a predecessor there is nowhere to go.                           *)
LEMMA ChainEnds ==
    ASSUME NEW d \in Nodes, NEW h, Chain(d, h), prev[d] \notin Nodes
    PROVE  h = d
<1>1. {d} \in SUBSET Nodes /\ \A x \in {d} : prev[x] \in Nodes => prev[x] \in {d}
  OBVIOUS
<1> QED BY <1>1 DEF Chain

(* Otherwise the way back goes on through the predecessor.                 *)
LEMMA ChainThrough ==
    ASSUME NEW d \in Nodes, NEW h, Chain(d, h), h # d, prev[d] \in Nodes
    PROVE  Chain(prev[d], h)
<1> SUFFICES ASSUME NEW S \in SUBSET Nodes, prev[d] \in S,
                    \A x \in S : prev[x] \in Nodes => prev[x] \in S
             PROVE  h \in S
  BY DEF Chain
<1>1. PICK U \in SUBSET Nodes : U = S \cup {d}
  OBVIOUS
<1>2. d \in U /\ \A x \in U : prev[x] \in Nodes => prev[x] \in U
  BY <1>1
<1> QED BY <1>1, <1>2 DEF Chain

(* A node without a predecessor is not found when prev is followed from    *)
(* one that has a predecessor.                                             *)
LEMMA WalkGoesOn ==
    ASSUME IInv, TInv, dest # NoNode, dest # Self
    PROVE  prev[dest] = NoNode <=> prev[hop] = NoNode
<1>1. dest \in Rows \ {Self} /\ hop \in Rows \ {Self} /\ Chain(dest, hop)
  BY DEF TInv, WalkIsOnChain
<1>2. dest \in Nodes /\ hop \in Nodes /\ NoNode \notin Nodes
  BY <1>1, RowsAreNodes, RoutingTableAssumption DEF IInv
<1>3. ASSUME prev[dest] = NoNode PROVE prev[hop] = NoNode
  BY <1>1, <1>2, <1>3, ChainEnds
<1>4. ASSUME prev[dest] # NoNode PROVE prev[hop] # NoNode
  <2>1. cost[dest] < Inf
    BY <1>1, <1>4 DEF TInv, Reached
  <2>2. cost[hop] <= cost[dest]
    BY DEF IInv, WalkIsNearer
  <2>3. cost[hop] \in Nat /\ cost[dest] \in Nat /\ Inf \in Nat
    BY <1>2, CostType DEF IInv
  <2>4. cost[hop] < Inf
    BY <2>1, <2>2, <2>3
  <2> QED BY <1>1, <2>4 DEF TInv, Reached
<1> QED BY <1>3, <1>4

(* Every step keeps the way back.                                          *)
LEMMA NextTInv == IInv /\ TInv /\ [Next]_vars => TInv'
<1> SUFFICES ASSUME IInv, TInv, [Next]_vars PROVE TInv'
  OBVIOUS
<1>0. /\ NoNode \notin Nodes /\ Self \in Nodes /\ Rows \subseteq Nodes
      /\ table \in [Nodes -> Nodes \cup {NoNode}]
  BY RowsAreNodes, RoutingTableAssumption DEF IInv, TypeOK
<1>1. ASSUME UNCHANGED <<known, cost, prev>>
      PROVE  /\ Rows' = Rows /\ Reached'
             /\ \A d, h \in Nodes : Chain(d, h)' <=> Chain(d, h)
  BY <1>1 DEF TInv, Reached, Rows, Chain
<1>2. CASE BeginTable
  <2>1. /\ UNCHANGED <<known, cost, prev, dest>> /\ phase' = "table" /\ todo' = Rows
        /\ table' = [n \in Nodes |-> NoNode] /\ phase = "search"
    BY <1>2 DEF BeginTable
  <2>2. dest' = NoNode
    BY <2>1 DEF IInv, Phases
  <2> QED BY <1>0, <1>1, <2>1, <2>2
       DEF TInv, WalkIsOnChain, TableIsOnChain, TableIsFilled, Returned
<1>3. ASSUME NEW d \in Nodes, NextDest(d) PROVE TInv'
  <2>1. /\ UNCHANGED <<known, cost, prev, table, phase>> /\ phase = "table" /\ d \in todo
        /\ todo' = todo \ {d} /\ dest' = d /\ hop' = d /\ dest = NoNode
    BY <1>3 DEF NextDest
  <2>2. WalkIsOnChain'
    <3>1. d \in Rows /\ Chain(d, d)'
      BY <1>1, <2>1, ChainSelf DEF TInv, Returned
    <3> QED BY <1>1, <2>1, <3>1 DEF WalkIsOnChain
  <2>3. TableIsOnChain'
    BY <1>0, <1>1, <2>1 DEF TInv, TableIsOnChain
  <2>4. TableIsFilled'
    BY <1>0, <1>1, <2>1 DEF TInv, TableIsFilled
  <2>5. Returned'
    BY <1>1, <2>1 DEF TInv, Returned
  <2> QED BY <1>1, <2>1, <2>2, <2>3, <2>4, <2>5 DEF TInv
<1>4. CASE FoundHop
  <2>1. /\ UNCHANGED <<known, cost, prev, phase, todo, pathCosts>> /\ dest # NoNode
        /\ prev[hop] = Self /\ table' = [table EXCEPT ![dest] = hop]
        /\ dest' = NoNode /\ hop' = NoNode
    BY <1>4 DEF FoundHop, Walked
  <2>2. dest \in Rows /\ hop \in Rows /\ dest \in Nodes /\ hop \in Nodes /\ Chain(dest, hop)
    BY <1>0, <2>1 DEF TInv, WalkIsOnChain
  <2>3. table'[dest] = hop /\ \A d \in Nodes : d # dest => table'[d] = table[d]
    BY <1>0, <2>1, <2>2
  <2>4. TableIsOnChain'
    <3> SUFFICES ASSUME NEW d \in Nodes, table'[d] # NoNode PROVE Chain(d, table[d])'
      BY DEF TableIsOnChain
    <3>1. PICK t \in Nodes : t = table'[d]
      BY <1>0, <2>2, <2>3
    <3>2. Chain(d, t)
      BY <2>2, <2>3, <3>1 DEF TInv, TableIsOnChain
    <3>3. Chain(d, t)'
      BY <1>1, <2>1, <3>2
    <3> QED BY <3>1, <3>3 DEF Chain
  <2>5. TableIsFilled'
    <3> SUFFICES ASSUME phase # "search", NEW d \in Rows \ {Self}, d \notin todo
                 PROVE  table'[d] = NoNode <=> prev[d] = NoNode
      BY <1>1, <2>1 DEF TableIsFilled
    <3>1. CASE d = dest
      <4>1. prev[hop] # NoNode
        BY <1>0, <2>1
      <4>2. prev[d] # NoNode
        BY <2>1, <3>1, <4>1, WalkGoesOn
      <4> QED BY <1>0, <2>2, <2>3, <3>1, <4>2
    <3>2. CASE d # dest
      BY <1>0, <2>3, <3>2 DEF TInv, TableIsFilled
    <3> QED BY <3>1, <3>2
  <2>6. WalkIsOnChain' /\ Returned'
    BY <1>1, <2>1 DEF TInv, WalkIsOnChain, Returned
  <2> QED BY <1>1, <2>1, <2>4, <2>5, <2>6 DEF TInv
<1>5. CASE NoPath
  <2>1. /\ UNCHANGED <<known, cost, prev, phase, todo, table, pathCosts>> /\ dest # NoNode
        /\ prev[hop] = NoNode /\ dest' = NoNode /\ hop' = NoNode
    BY <1>5 DEF NoPath, Walked
  <2>2. dest \in Rows /\ dest \in Nodes
    BY <1>0, <2>1 DEF TInv, WalkIsOnChain
  <2>3. TableIsOnChain'
    BY <1>0, <1>1, <2>1 DEF TInv, TableIsOnChain
  <2>4. TableIsFilled'
    <3> SUFFICES ASSUME phase # "search", NEW d \in Rows \ {Self}, d \notin todo
                 PROVE  table[d] = NoNode <=> prev[d] = NoNode
      BY <1>1, <2>1 DEF TableIsFilled
    <3>1. CASE d = dest
      <4>1. prev[d] = NoNode
        BY <2>1, <3>1, WalkGoesOn
      <4>2. ASSUME table[d] # NoNode PROVE FALSE
        <5>1. PICK t \in Nodes : t = table[d]
          BY <1>0, <2>2, <3>1, <4>2
        <5>2. Chain(d, t) /\ prev[t] = Self
          BY <1>0, <2>2, <3>1, <4>2, <5>1 DEF TInv, TableIsOnChain, IInv, WalkIsNearer
        <5>3. t = d
          BY <1>0, <2>2, <3>1, <4>1, <5>2, ChainEnds
        <5> QED BY <1>0, <4>1, <5>2, <5>3
      <4> QED BY <4>1, <4>2
    <3>2. CASE d # dest
      BY <1>0, <3>2 DEF TInv, TableIsFilled
    <3> QED BY <3>1, <3>2
  <2>5. WalkIsOnChain' /\ Returned'
    BY <1>1, <2>1 DEF TInv, WalkIsOnChain, Returned
  <2> QED BY <1>1, <2>1, <2>3, <2>4, <2>5 DEF TInv
<1>6. CASE WalkBack
  <2>1. /\ UNCHANGED <<known, cost, prev, phase, todo, dest, table, pathCosts>>
        /\ dest # NoNode /\ prev[hop] \notin {Self, NoNode} /\ hop' = prev[hop]
    BY <1>6 DEF WalkBack
  <2>2. dest \in Rows /\ hop \in Rows /\ dest \in Nodes /\ hop \in Nodes /\ Chain(dest, hop)
    BY <1>0, <2>1 DEF TInv, WalkIsOnChain
  <2>3. PICK p \in Nodes : p = prev[hop]
    BY <2>1, <2>2 DEF IInv, TypeOK
  <2>4. p \in Rows
    <3>1. EdgeCost(p, hop) > 0
      BY <2>1, <2>2, <2>3 DEF IInv, PrevIsCheaper
    <3> QED BY <3>1 DEF EdgeCost
  <2>5. Chain(dest, p)
    BY <2>2, <2>3, ChainStep
  <2>6. WalkIsOnChain'
    <3>1. Chain(dest, p)'
      BY <1>1, <2>1, <2>2, <2>5
    <3> QED BY <1>1, <2>1, <2>2, <2>3, <2>4, <3>1 DEF WalkIsOnChain, Chain
  <2>7. TableIsOnChain'
    BY <1>0, <1>1, <2>1 DEF TInv, TableIsOnChain
  <2>8. TableIsFilled' /\ Returned'
    BY <1>1, <2>1 DEF TInv, TableIsFilled, Returned
  <2> QED BY <1>1, <2>1, <2>6, <2>7, <2>8 DEF TInv
<1>7. CASE EndTable
  <2>1. /\ UNCHANGED <<known, cost, prev, todo, dest, hop, table>> /\ phase = "table"
        /\ phase' = "done" /\ todo = {} /\ dest = NoNode /\ pathCosts' = [n \in Rows |-> cost[n]]
    BY <1>7 DEF EndTable
  <2>2. WalkIsOnChain' /\ TableIsOnChain'
    BY <1>0, <1>1, <2>1 DEF TInv, WalkIsOnChain, TableIsOnChain
  <2>3. TableIsFilled' /\ Returned'
    BY <1>1, <2>1 DEF TInv, TableIsFilled, Returned
  <2> QED BY <1>1, <2>1, <2>2, <2>3 DEF TInv
<1>8. CASE UNCHANGED vars
  BY <1>8 DEF vars, TInv, Reached, WalkIsOnChain, TableIsOnChain, TableIsFilled, Returned,
     Rows, Chain
<1> QED BY <1>2, <1>3, <1>4, <1>5, <1>6, <1>7, <1>8, PopTInv DEF Next

-----------------------------------------------------------------------------
(* Induction, in the form the proofs below use it: a set of natural        *)
(* numbers that is not empty has a least element.                          *)
LEMMA LeastOf ==
    ASSUME NEW T \in SUBSET Nat, T # {}
    PROVE  \E k \in T : \A j \in T : k <= j
<1>1. PICK R : R = {p \in Nat \X Nat : p[1] < p[2]}
  OBVIOUS
<1>2. IsWellFoundedOn(R, Nat)
  BY <1>1, NatLessThanWellFounded DEF OpToRel
<1>3. PICK k \in T : \A j \in T : ~(<<j, k>> \in R)
  BY <1>2, WFMin
<1>4. ASSUME NEW j \in T PROVE k <= j
  <2>1. j \in Nat /\ k \in Nat /\ <<j, k>> \notin R
    BY <1>3
  <2>2. ~(j < k)
    BY <1>1, <2>1
  <2> QED BY <2>1, <2>2
<1> QED BY <1>4

(* The parts of a walk.                                                    *)
LEMMA WalkIs ==
    ASSUME NEW w \in Walks
    PROVE  /\ w \in Seq([node : Nodes, length : Nat]) /\ Len(w) \in Nat \ {0}
           /\ \A i \in 1..Len(w) : /\ w[i] \in [node : Nodes, length : Nat]
                                   /\ w[i].node \in Nodes /\ w[i].length \in Nat
<1>1. w \in Seq([node : Nodes, length : Nat]) /\ w # <<>>
  BY WalksAssumption
<1>2. Len(w) \in Nat /\ Len(w) # 0
  BY <1>1
<1>3. \A i \in 1..Len(w) : w[i] \in [node : Nodes, length : Nat]
  <2>1. \A R : \A q \in Seq(R) : \A i \in 1..Len(q) : q[i] \in R
    OBVIOUS
  <2> QED BY ONLY <1>1, <2>1
<1>4. ASSUME NEW i \in 1..Len(w) PROVE w[i].node \in Nodes /\ w[i].length \in Nat
  BY <1>3
<1> QED BY <1>1, <1>2, <1>3, <1>4

(* No way to a node is shorter than its cost: by the first place on the    *)
(* way where it would be.                                                  *)
LEMMA NoShorterWalk ==
    ASSUME IInv, queue = {}, NEW w \in Walks, IsWalk(w)
    PROVE  \A i \in 1..Len(w) : cost[w[i].node] <= w[i].length
<1>1. PICK l \in Nat \ {0} : l = Len(w)
  BY WalkIs
<1>2. \A i \in 1..l : w[i].node \in Nodes /\ w[i].length \in Nat
  BY <1>1, WalkIs
<1>3. PICK T \in SUBSET Nat : T = {i \in 1..l : ~(cost[w[i].node] <= w[i].length)}
  <2>1. 1..l \subseteq Nat
    BY <1>1
  <2> QED BY <2>1
<1>4. CASE T = {}
  BY <1>1, <1>3, <1>4
<1>5. CASE T # {}
  <2>1. PICK k \in T : \A j \in T : k <= j
    BY <1>5, LeastOf
  <2>2. k \in 1..l /\ ~(cost[w[k].node] <= w[k].length)
    BY <1>3, <2>1
  <2>3. k # 1
    <3>1. w[1].node = Self /\ w[1].length = 0 /\ cost[Self] = 0
      BY DEF IsWalk, Start, IInv, SelfIsRoot
    <3> QED BY <2>2, <3>1
  <2>4. PICK j \in 1..l : j = k - 1 /\ j \in 1..(l - 1) /\ k = j + 1
    BY <2>2, <2>3
  <2>5. j \notin T
    BY <2>1, <2>4
  <2>6. cost[w[j].node] <= w[j].length
    BY <1>3, <2>5
  <2>7. PICK e : e = EdgeCost(w[j].node, w[k].node)
    OBVIOUS
  <2>8. e > 0 /\ w[k].length = w[j].length + e
    BY <1>1, <2>4, <2>7 DEF IsWalk
  <2>9. PICK x \in Nodes, y \in Nodes : x = w[j].node /\ y = w[k].node
    BY <1>2, <2>2
  <2>10. e \in Nat
    BY <2>7, <2>9, EdgeCostType DEF IInv, TypeOK
  <2>11. cost[y] <= Plus(cost[x], e)
    BY <2>7, <2>8, <2>9 DEF IInv, Relaxed
  <2>12. cost[x] \in 0..Inf /\ cost[y] \in Nat /\ cost[x] \in Nat /\ Inf \in Nat
    BY CostType DEF IInv, TypeOK
  <2>13. Plus(cost[x], e) <= cost[x] + e /\ Plus(cost[x], e) \in 0..Inf
    BY <2>10, <2>12, PlusType
  <2>14. w[j].length \in Nat
    BY <1>2
  <2>15. cost[x] <= w[j].length /\ ~(cost[y] <= w[j].length + e)
    BY <2>2, <2>6, <2>8, <2>9
  <2> QED BY ONLY <2>10, <2>11, <2>12, <2>13, <2>14, <2>15
<1> QED BY <1>4, <1>5

-----------------------------------------------------------------------------
(* w is a way to n as long as its cost, through nothing dearer.            *)
Arrives(w, n) ==
    /\ IsWalk(w)
    /\ End(w) = [node |-> n, length |-> cost[n]]
    /\ \A i \in 1..Len(w) : cost[w[i].node] <= cost[n]

(* A way to the predecessor of n goes on to n.                             *)
LEMMA WalkExtends ==
    ASSUME IInv, queue = {}, NEW n \in Nodes, NEW p \in Nodes, p = prev[n],
           NEW w \in Walks, Arrives(w, p)
    PROVE  \E v \in Walks :
               /\ Arrives(v, n) /\ Len(v) = Len(w) + 1 /\ v[Len(v)].node = n
               /\ \A i \in 1..Len(w) : v[i] = w[i]
<1>1. PICK l \in Nat \ {0} : l = Len(w)
  BY WalkIs
<1>2. /\ w \in Seq([node : Nodes, length : Nat])
      /\ \A i \in 1..l : w[i].node \in Nodes /\ w[i].length \in Nat
  BY <1>1, WalkIs
<1>3. NoNode \notin Nodes /\ known \in Graphs
  BY RoutingTableAssumption DEF IInv, TypeOK
<1>4. EdgeCost(p, n) > 0 /\ cost[n] = cost[p] + EdgeCost(p, n) /\ EdgeCost(p, n) \in Nat
  <2>1. prev[n] # NoNode
    BY <1>3
  <2>2. EdgeCost(prev[n], n) > 0 /\ cost[n] = cost[prev[n]] + EdgeCost(prev[n], n)
    BY <2>1, InvSettles DEF CostsSettled
  <2> QED BY <1>3, <2>2, EdgeCostType
<1>5. cost[n] \in Nat /\ cost[p] \in Nat /\ cost[p] < cost[n]
  <2>1. cost[n] \in Nat /\ cost[p] \in Nat
    BY CostType DEF IInv
  <2> QED BY <1>4, <2>1
<1>6. w[l].node = p /\ w[l].length = cost[p]
  BY <1>1 DEF Arrives, End
<1>7. \A i \in 1..l : cost[w[i].node] \in Nat /\ cost[w[i].node] <= cost[p]
  BY <1>1, <1>2, CostType DEF Arrives, IInv
<1>8. \A i \in 1..l : w[i].node # n
  BY <1>5, <1>7
<1>9. PICK r : r = [node |-> n, length |-> cost[n]]
  OBVIOUS
<1>10. PICK v : v = Append(w, r)
  OBVIOUS
<1>11. v \in Walks
  <2>1. p \in DOMAIN known /\ known[p][n] = EdgeCost(p, n)
    BY <1>4 DEF EdgeCost, Rows
  <2>2. End(w).node = p /\ End(w).length = cost[p]
    BY <1>1, <1>6 DEF End
  <2>3. \A i \in 1..Len(w) : w[i].node # n
    BY <1>1, <1>8
  <2>4. r = [node |-> n, length |-> End(w).length + known[End(w).node][n]]
    BY <1>4, <1>9, <2>1, <2>2
  <2>5. End(w).node \in DOMAIN known /\ known[End(w).node][n] > 0
    BY <1>4, <2>1, <2>2
  <2> QED BY <1>3, <1>10, <2>3, <2>4, <2>5, WalksAssumption
<1>12. r \in [node : Nodes, length : Nat]
  BY <1>5, <1>9
<1>13. Len(v) = l + 1 /\ v[l + 1] = r /\ \A i \in 1..l : v[i] = w[i]
  BY <1>1, <1>2, <1>10, <1>12
<1>14. v[l + 1].node = n /\ v[l + 1].length = cost[n]
  BY <1>9, <1>13
<1>15. IsWalk(v)
  <2>1. v[1] = Start
    BY <1>1, <1>13 DEF Arrives, IsWalk
  <2>2. ASSUME NEW i \in 1..(Len(v) - 1)
        PROVE  /\ EdgeCost(v[i].node, v[i + 1].node) > 0
               /\ v[i + 1].length = v[i].length + EdgeCost(v[i].node, v[i + 1].node)
    <3>1. i \in 1..l
      BY <1>13
    <3>2. CASE i = l
      BY <1>4, <1>6, <1>13, <1>14, <3>1, <3>2
    <3>3. CASE i # l
      <4>1. i \in 1..(Len(w) - 1) /\ i + 1 \in 1..l
        BY <1>1, <3>1, <3>3
      <4>2. v[i] = w[i] /\ v[i + 1] = w[i + 1]
        BY <1>13, <3>1, <4>1
      <4> QED BY <4>1, <4>2 DEF Arrives, IsWalk
    <3> QED BY <3>2, <3>3
  <2> QED BY <2>1, <2>2 DEF IsWalk
<1>16. \A i \in 1..Len(v) : cost[v[i].node] <= cost[n]
  <2> SUFFICES ASSUME NEW i \in 1..Len(v) PROVE cost[v[i].node] <= cost[n]
    OBVIOUS
  <2>1. CASE i = l + 1
    BY <1>5, <1>14, <2>1
  <2>2. CASE i # l + 1
    <3>1. i \in 1..l
      BY <1>13, <2>2
    <3>2. v[i] = w[i] /\ cost[w[i].node] \in Nat /\ cost[w[i].node] <= cost[p]
      BY <1>7, <1>13, <3>1
    <3> QED BY <1>5, <3>2
  <2> QED BY <2>1, <2>2
<1>17. End(v) = r
  BY <1>13 DEF End
<1>18. Arrives(v, n)
  BY <1>9, <1>15, <1>16, <1>17 DEF Arrives
<1> QED BY <1>1, <1>11, <1>13, <1>14, <1>18

(* The way of no steps.                                                    *)
LEMMA WalkStarts ==
    ASSUME IInv
    PROVE  \E w \in Walks : Arrives(w, Self) /\ Len(w) = 1
<1>1. PICK w : w = <<Start>>
  OBVIOUS
<1>2. w \in Walks /\ Len(w) = 1 /\ w[1] = Start
  BY <1>1, WalksAssumption
<1>3. cost[Self] = 0
  BY DEF IInv, SelfIsRoot
<1>4. IsWalk(w)
  BY <1>2 DEF IsWalk
<1>5. Arrives(w, Self)
  BY <1>2, <1>3, <1>4 DEF Arrives, End, Start
<1> QED BY <1>2, <1>5

(* A node with a predecessor is at the end of a way as long as its cost,   *)
(* that begins where the walk back ends: by the cheapest one that is not.  *)
LEMMA WalkExists ==
    ASSUME IInv, queue = {}, NEW d \in Nodes, NEW t \in Nodes, prev[d] # NoNode,
           prev[t] = Self, Chain(d, t)
    PROVE  \E w \in Walks : Arrives(w, d) /\ Len(w) >= 2 /\ w[2].node = t
<1> DEFINE Good(w, n) == Arrives(w, n) /\ Len(w) >= 2 /\ w[2].node = t
<1> DEFINE Lost(n) == /\ prev[n] # NoNode /\ Chain(n, t)
                      /\ \A w \in Walks : ~Good(w, n)
<1> SUFFICES ASSUME Lost(d) PROVE FALSE
  OBVIOUS
<1>0. NoNode \notin Nodes /\ Self \in Nodes /\ prev \in [Nodes -> Nodes \cup {NoNode}]
  BY RoutingTableAssumption DEF IInv, TypeOK
<1>1. PICK T \in SUBSET Nat : T = {c \in Nat : \E n \in Nodes : Lost(n) /\ cost[n] = c}
  OBVIOUS
<1>2. T # {}
  <2>1. cost[d] \in Nat
    BY CostType DEF IInv
  <2> QED BY <1>1, <2>1
<1>3. PICK c \in T : \A j \in T : c <= j
  BY <1>2, LeastOf
<1>4. PICK n \in Nodes : Lost(n) /\ cost[n] = c
  BY <1>1, <1>3
<1>5. PICK p \in Nodes : p = prev[n]
  BY <1>0, <1>4
<1>6. CASE p = Self
  <2>1. PICK v \in Walks :
          /\ Arrives(v, n) /\ Len(v) = 1 + 1 /\ v[Len(v)].node = n
    <3>1. PICK u \in Walks : Arrives(u, Self) /\ Len(u) = 1
      BY WalkStarts
    <3>2. p = prev[n] /\ Arrives(u, p)
      BY <1>5, <1>6, <3>1
    <3>3. \E v \in Walks :
            /\ Arrives(v, n) /\ Len(v) = Len(u) + 1 /\ v[Len(v)].node = n
            /\ \A i \in 1..Len(u) : v[i] = u[i]
      BY <3>2, WalkExtends
    <3> QED BY <3>1, <3>3
  <2>2. t = n
    <3>1. PICK S \in SUBSET Nodes : S = {n, Self}
      BY <1>0
    <3>2. prev[Self] = NoNode
      BY DEF IInv, SelfIsRoot
    <3>3. \A x \in S : prev[x] \in Nodes => prev[x] \in S
      BY <1>0, <1>5, <1>6, <3>1, <3>2
    <3>4. t \in S
      BY <1>4, <3>1, <3>3 DEF Chain
    <3> QED BY <1>0, <3>1, <3>2, <3>4
  <2>3. Len(v) = 2
    BY <2>1
  <2>4. v[2].node = t /\ Len(v) >= 2
    BY <2>1, <2>2, <2>3
  <2>5. Good(v, n)
    BY <2>1, <2>4
  <2> QED BY <1>4, <2>5
<1>7. CASE p # Self
  <2>1. t # n
    BY <1>5, <1>7
  <2>2. Chain(p, t)
    BY <1>4, <1>5, <2>1, ChainThrough
  <2>3. prev[p] # NoNode
    <3> SUFFICES ASSUME prev[p] = NoNode PROVE FALSE
      OBVIOUS
    <3>1. t = p
      BY <1>0, <2>2, ChainEnds
    <3> QED BY <1>0, <3>1
  <2>4. cost[p] \in Nat /\ cost[p] < c
    <3>1. EdgeCost(p, n) > 0 /\ cost[p] + EdgeCost(p, n) <= cost[n]
      BY <1>4, <1>5 DEF IInv, PrevIsCheaper
    <3>2. cost[p] \in Nat /\ cost[n] \in Nat /\ EdgeCost(p, n) \in Nat
      BY CostType, EdgeCostType DEF IInv, TypeOK
    <3> QED BY <1>4, <3>1, <3>2
  <2>5. cost[p] \notin T
    BY <1>3, <2>4
  <2>6. ~Lost(p)
    BY <1>1, <2>4, <2>5
  <2>7. PICK w \in Walks : Good(w, p)
    BY <2>2, <2>3, <2>6
  <2>8. PICK v \in Walks :
          /\ Arrives(v, n) /\ Len(v) = Len(w) + 1
          /\ \A i \in 1..Len(w) : v[i] = w[i]
    BY <1>5, <2>7, WalkExtends
  <2>9. Len(w) \in Nat /\ Len(w) >= 2
    BY <2>7, WalkIs
  <2>10. Len(v) >= 2 /\ v[2].node = t
    BY <2>7, <2>8, <2>9
  <2> QED BY <1>4, <2>8, <2>10
<1> QED BY <1>6, <1>7

(* The table is that of the shortest ways.                                 *)
LEMMA InvIsShortest == IInv /\ TInv => ShortestPaths
<1> SUFFICES ASSUME IInv, TInv, phase = "done", NEW n \in Rows \ {Self}
             PROVE  /\ \A w \in WalksTo(n) : PathCost(n) <= End(w).length
                    /\ table[n] = NoNode <=> PathCost(n) = Inf
                    /\ table[n] # NoNode =>
                          \E w \in WalksTo(n) :
                             End(w).length = PathCost(n) /\ w[2].node = table[n]
  BY DEF ShortestPaths
<1>1. n \in Nodes /\ queue = {} /\ todo = {} /\ dest = NoNode
  BY RowsAreNodes DEF IInv, Phases, TInv, Returned
<1>2. PathCost(n) = cost[n]
  BY DEF TInv, Returned, PathCost
<1>3. ASSUME NEW w \in WalksTo(n) PROVE PathCost(n) <= End(w).length
  <2>1. w \in Walks /\ IsWalk(w) /\ End(w).node = n
    BY DEF WalksTo
  <2>2. Len(w) \in Nat \ {0}
    BY <2>1, WalkIs
  <2>3. Len(w) \in 1..Len(w)
    BY <2>2
  <2>4. cost[w[Len(w)].node] <= w[Len(w)].length
    BY <1>1, <2>1, <2>3, NoShorterWalk
  <2> QED BY <1>2, <2>1, <2>4 DEF End
<1>4. table[n] = NoNode <=> PathCost(n) = Inf
  <2>1. n # dest
    BY <1>1, RoutingTableAssumption
  <2>2. table[n] = NoNode <=> prev[n] = NoNode
    BY <1>1, <2>1 DEF TInv, TableIsFilled
  <2>3. cost[n] < Inf <=> prev[n] # NoNode
    BY DEF TInv, Reached
  <2>4. cost[n] \in Nat /\ cost[n] <= Inf /\ Inf \in Nat
    BY <1>1, CostType DEF IInv
  <2>5. cost[n] < Inf <=> cost[n] # Inf
    BY <2>4
  <2> QED BY <1>2, <2>2, <2>3, <2>5
<1>5. ASSUME table[n] # NoNode
      PROVE  \E w \in WalksTo(n) : End(w).length = PathCost(n) /\ w[2].node = table[n]
  <2>1. PICK t \in Nodes : t = table[n]
    BY <1>1, <1>5 DEF IInv, TypeOK
  <2>2. prev[t] = Self /\ Chain(n, t)
    BY <1>1, <1>5, <2>1 DEF IInv, WalkIsNearer, TInv, TableIsOnChain
  <2>3. n # dest
    BY <1>1, RoutingTableAssumption
  <2>4. prev[n] # NoNode
    BY <1>1, <1>5, <2>3 DEF TInv, TableIsFilled
  <2>5. PICK w \in Walks : Arrives(w, n) /\ w[2].node = t
    BY <1>1, <2>2, <2>4, WalkExists
  <2>6. IsWalk(w) /\ End(w).node = n /\ End(w).length = cost[n]
    BY <2>5 DEF Arrives
  <2> QED BY <1>2, <2>1, <2>5, <2>6 DEF WalksTo
<1> QED BY <1>3, <1>4, <1>5

(* The way back, in every state.                                           *)
THEOREM WayBack == Spec => []TInv
<1>1. Init => TInv
  <2> SUFFICES ASSUME Init PROVE TInv
    OBVIOUS
  <2>1. Rows \subseteq Nodes /\ Inf \in Nat
    BY RoutingTableAssumption DEF Init, Rows
  <2>2. Reached
    BY <2>1 DEF Init, Reached
  <2> QED BY <2>2
       DEF Init, TInv, WalkIsOnChain, TableIsOnChain, TableIsFilled, Returned
<1> QED BY <1>1, NextTInv, Invariance, PTL DEF Spec

(* updateRoutingTable computes shortest ways: for any graph with positive  *)
(* costs and whatever order the queue gives nodes out in, no way to a node *)
(* is shorter than its path cost, the nodes that can be reached are the    *)
(* ones with an entry, and the entry is the first step of a shortest way.  *)
THEOREM TableIsShortest == Spec => []ShortestPaths
BY InvIsShortest, Invariance, WayBack, PTL
=============================================================================
