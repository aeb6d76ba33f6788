SPECIFICATION Spec
CONSTANTS
    Dialers = {d1, d2}
    Redialers = {d1}
    TCPListeners = {t}
    UDPListeners = {u}
    WSListeners = {w}
    Externals = {x}
    Configurations = {{d1, t}, {u, w}, {d2, x}}
    Peers = {p1}
    Items = {i1}
    Added = added
    MaxReloads = 1
    Messages = 3
    Buffer = 2
    Base = 2
    Contents <- AnyLength
    MaxMessages = 3
    Conns = {n1}
    Total = 2
    Clients = {c1, c2}
    Services = {s1, s2}
    Ports = {q1, q2, q3}
    Stranger = stranger
    Proxied = proxied
    None = none
    Routers = {r1, r2}
    Self = self
    MaxChanges = 3
INVARIANTS
    ReloadIsClean
    FailedDialIsClean
    AnswersAreForTheAsker
PROPERTIES
    CancelReturns
    Redials
    StreamsAreRelayed
    StreamsSettle
    BridgeReturns
    RoutesFollow
CHECK_DEADLOCK FALSE
