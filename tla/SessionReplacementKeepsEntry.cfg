SPECIFICATION Spec
CONSTANTS
    Sessions = {s1, s2}
    Peers = {p1}
    NoSession = nosession
    NoPeer = nopeer
INVARIANTS
    ReplacementKeepsEntry
CHECK_DEADLOCK FALSE
