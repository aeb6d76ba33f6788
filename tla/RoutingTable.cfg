SPECIFICATION FairSpec
CONSTANTS
    Self = self
    a = a
    b = b
    c = c
    NoNode = none
    Inf = 100
    Nodes <- MCNodes
    Graphs <- MCGraphs
    Walks <- MCWalks
INVARIANTS
    ShortestPaths
PROPERTIES
    Terminates
CHECK_DEADLOCK FALSE
