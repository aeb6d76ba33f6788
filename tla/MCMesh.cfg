SPECIFICATION MeshSpec
CONSTANTS
    Nodes = {n1, n2, n3}
    Ids = {i1}
    NoNode = none
    NoAbout = nothing
    MaxHops = 3
    Sessions = {s1, s2}
    Peers = {p1, p2}
    NoSession = nosession
    NoPeer = nopeer
    Links <- AllLinks
    Origin = n1
    MaxTime = 4
    Sockets = {k1, k2}
INVARIANTS
    HopBudget
    OneOutcome
    EntryIsReplaceable
    QuietIsCurrent
PROPERTIES
    Settles
    MessagesEnd
CHECK_DEADLOCK FALSE
