----------------------------- MODULE MCRouting ------------------------------
(***************************************************************************)
(* Three nodes in a triangle, started from nothing or with all their       *)
(* sessions established.                                                   *)
(***************************************************************************)
EXTENDS Routing, TLC

CONSTANTS a, b, c

Triangle == {{a, b}, {b, c}, {a, c}}

TriangleSymmetry == Permutations({a, b, c})

(* All sessions of the topology are established and nobody has made an     *)
(* update since; the clock has gone on to the last change.                 *)
Neighbours(n) == {m \in Nodes : {n, m} \in Edges}

EstablishedInit ==
    /\ links = Edges
    /\ conns = [n \in Nodes |-> Neighbours(n)]
    /\ mutual = [n \in Nodes |-> {}]
    /\ stamp = [n \in Nodes |-> <<1, 0>>]
    /\ info = [n \in Nodes |-> [m \in Nodes |-> Unknown]]
    /\ rows = [n \in Nodes |-> [m \in Nodes |->
                  IF m = n THEN Neighbours(n) ELSE Neighbours(m) \cap {n}]]
    /\ making = [n \in Nodes |-> {}]
    /\ greetings = {}
    /\ net = {}
    /\ changes = MaxChanges - 1
    /\ made = {}
    /\ settled = {}

(* Three nodes that connect from nothing, or that are all connected.       *)
MCSpec == (Init \/ EstablishedInit) /\ [][Next]_vars

=============================================================================
