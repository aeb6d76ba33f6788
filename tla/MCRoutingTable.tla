--------------------------- MODULE MCRoutingTable ---------------------------
(***************************************************************************)
(* Four nodes, every directed graph on them whose rows come from the sets  *)
(* below, and the walks without repetition that these graphs can have.     *)
(***************************************************************************)
EXTENDS RoutingTable, Functions

CONSTANTS a, b, c

MCNodes == {Self, a, b, c}

(* Rows: what this node lists, and what the others list about each other.  *)
(* The cheap detours (1+1 and 1+1+1 against 3) are among them.             *)
Row(u, costs) == {r \in [MCNodes -> costs] : r[u] = 0}
OtherRows(u) == {r \in Row(u, {0, 1}) : r[Self] = 0}

FullGraphs ==
    {[n \in MCNodes |-> CASE n = Self -> rs [] n = a -> ra
                          [] n = b -> rb [] n = c -> rc] :
        rs \in Row(Self, {0, 1, 3}), ra \in OtherRows(a), rb \in OtherRows(b),
        rc \in OtherRows(c)}

(* Graphs in which c, or this node itself, is not a key, though others     *)
(* list it; and graphs in which the others list this node.                 *)
SomeRows == {r \in Row(Self, {0, 2, 3}) : r[c] # 0}
PartGraphs ==
    {[n \in MCNodes \ {x} |-> CASE n = Self -> rs
                                [] OTHER -> [m \in MCNodes |-> IF m = n THEN 0 ELSE 1]] :
        x \in {c, Self}, rs \in SomeRows}

MCGraphs == FullGraphs \cup PartGraphs

-----------------------------------------------------------------------------
SimplePaths ==
    {p \in UNION {[1..k -> MCNodes] : k \in 1..Cardinality(MCNodes)} :
        p[1] = Self /\ IsInjective(p)}

(* The first step costs up to 3, the edges between the other nodes 1.      *)
MCWalks ==
    {[i \in DOMAIN p |-> [node |-> p[i], length |-> IF i = 1 THEN 0 ELSE first + i - 2]] :
        p \in SimplePaths, first \in 1..3}
=============================================================================
