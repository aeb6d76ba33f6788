SPECIFICATION MCSpec
CONSTANTS
    a = a
    b = b
    c = c
    Nodes = {a, b, c}
    Edges <- Triangle
    MaxUpdates = 3
    MaxEpoch = 2
    MaxChanges = 2
INVARIANTS
    KnowledgeIsTrue
    Convergence
SYMMETRY TriangleSymmetry
CHECK_DEADLOCK FALSE
