------------------------------ MODULE Backends ------------------------------
(***************************************************************************)
(* The backends of one node, from AddBackend to CancelBackends             *)
(* (pkg/netceptor/netceptor.go, pkg/backends), and the reload command that *)
(* stops them and starts those of the new configuration                    *)
(* (pkg/controlsvc/reload.go).                                             *)
(*                                                                         *)
(* A backend has a goroutine of its own kind, which makes sessions, and    *)
(* the loop of AddBackend, which takes them over a channel without buffer  *)
(* and runs the protocol on each.  Of a session only its peer is kept, of  *)
(* the protocol that it ends; the module Session has the rest.             *)
(***************************************************************************)
EXTENDS Naturals, Sequences, FiniteSets

CONSTANTS
    Dialers,        \* TCP, UDP and websocket dialers
    Redialers,      \* those of them that redial
    TCPListeners,
    UDPListeners,
    WSListeners,
    Externals,      \* backends whose connections other code makes
    Configurations, \* the sets of backends that a configuration may list
    Peers,          \* at most one session of a backend with each peer
    Items,          \* the original configuration items that cannot be reloaded
    Added,          \* an item that was added, or is modified
    MaxReloads      \* bound on the number of reload commands

Backends == Dialers \cup TCPListeners \cup UDPListeners \cup WSListeners \cup Externals

(* A backend is of one kind, and a configuration lists finitely many.      *)
BackendsAssumption ==
    /\ Dialers \cap (TCPListeners \cup UDPListeners \cup WSListeners \cup Externals) = {}
    /\ TCPListeners \cap (UDPListeners \cup WSListeners \cup Externals) = {}
    /\ UDPListeners \cap (WSListeners \cup Externals) = {}
    /\ WSListeners \cap Externals = {}
    /\ IsFiniteSet(Backends)
    /\ Configurations \subseteq SUBSET Backends

VARIABLES
    ctx,        \* of every backend: "none", "live" or "cancelled"
    start,      \* the goroutine of its Start
    peer,       \* the peers whose sessions it offers or delivers to
    registry,   \* sessionRegistry of a UDP listener
    loop,       \* the loop of AddBackend
    running,    \* the sessions of runProtocolWg
    socket,     \* a listening socket is open
    wg,         \* backendWaitGroup
    pc,         \* the reload command
    todo,       \* the backends it has yet to start
    marked,     \* the items with value true in cfgNotReloadable
    reloads

backend == <<ctx, start, peer, registry, loop, running, socket, wg>>
reload == <<pc, todo, marked, reloads>>
vars == <<backend, reload>>

-----------------------------------------------------------------------------
Init ==
    /\ ctx = [b \in Backends |-> "none"]
    /\ start = [b \in Backends |-> "none"]
    /\ peer = [b \in Backends |-> {}]
    /\ registry = [b \in Backends |-> {}]
    /\ loop = [b \in Backends |-> "none"]
    /\ running = [b \in Backends |-> {}]
    /\ socket = [b \in Backends |-> FALSE]
    /\ wg = 0
    /\ pc = "start"             \* the configuration of the command line
    /\ todo \in Configurations
    /\ marked = {}
    /\ reloads = 0

-----------------------------------------------------------------------------
(* AddBackend.                                                             *)
First(b) ==
    CASE b \in Dialers      -> "dial"
      [] b \in TCPListeners -> "accept"
      [] b \in UDPListeners -> "read"
      [] b \in WSListeners  -> "serve"
      [] b \in Externals    -> "done"

AddBackend(b) ==
    /\ pc = "start"
    /\ b \in todo
    /\ ~socket[b]
    /\ todo' = todo \ {b}
    /\ ctx' = [ctx EXCEPT ![b] = "live"]
    /\ start' = [start EXCEPT ![b] = First(b)]
    /\ peer' = [peer EXCEPT ![b] = {}]
    /\ registry' = [registry EXCEPT ![b] = {}]
    /\ loop' = [loop EXCEPT ![b] = "select"]
    /\ socket' = [socket EXCEPT ![b] = b \in TCPListeners \cup UDPListeners \cup WSListeners]
    /\ wg' = wg + (IF b \in Externals THEN 1 ELSE 2)
    /\ UNCHANGED <<running, pc, marked, reloads>>

(* Start fails, as the address is in use; the rest is not started.         *)
AddBackendFails(b) ==
    /\ pc = "start"
    /\ b \in todo
    /\ socket[b]
    /\ pc' = "idle"
    /\ todo' = {}
    /\ UNCHANGED <<backend, marked, reloads>>

(* A session goes from the goroutine to the loop, which runs the protocol. *)
Take(b, p) ==
    /\ loop[b] = "select"
    /\ running' = [running EXCEPT ![b] = @ \cup {p}]

(* runProtocol returns, which it does at the latest when the context is    *)
(* done, and closes the session.                                           *)
SessionEnds(b, p) ==
    /\ p \in running[b]
    /\ running' = [running EXCEPT ![b] = @ \ {p}]
    /\ registry' = [registry EXCEPT ![b] = @ \ {p}]
    /\ UNCHANGED <<ctx, start, peer, loop, socket, wg, reload>>

(* The loop returns as the context is done, or the channel is closed.      *)
LoopReturns(b) ==
    /\ loop[b] = "select"
    /\ ctx[b] = "cancelled" \/ (start[b] = "done" /\ b \in Dialers \cup TCPListeners)
    /\ loop' = [loop EXCEPT ![b] = "drain"]
    /\ UNCHANGED <<ctx, start, peer, registry, running, socket, wg, reload>>

(* Faulty variant: the loop does not wait for its sessions.                *)
LoopEndsAtOnce(b) ==
    /\ loop[b] = "drain"
    /\ loop' = [loop EXCEPT ![b] = "done"]
    /\ wg' = wg - 1
    /\ UNCHANGED <<ctx, start, peer, registry, running, socket, reload>>

LoopEnds(b) ==
    /\ loop[b] = "drain"
    /\ running[b] = {}
    /\ loop' = [loop EXCEPT ![b] = "done"]
    /\ wg' = wg - 1
    /\ UNCHANGED <<ctx, start, peer, registry, running, socket, reload>>

-----------------------------------------------------------------------------
(* dialerSession.                                                          *)
StartTo(b, where) ==
    /\ start' = [start EXCEPT ![b] = where]
    /\ UNCHANGED <<ctx, peer, registry, loop, running, socket, wg, reload>>

DialerReturns(b) ==
    /\ start' = [start EXCEPT ![b] = "done"]
    /\ wg' = wg - 1
    /\ UNCHANGED <<ctx, peer, registry, loop, running, socket, reload>>

DialSucceeds(b, p) ==
    /\ start[b] = "dial"
    /\ ctx[b] = "live"
    /\ start' = [start EXCEPT ![b] = "offer"]
    /\ peer' = [peer EXCEPT ![b] = {p}]
    /\ UNCHANGED <<ctx, registry, loop, running, socket, wg, reload>>

DialFails(b) ==
    /\ start[b] = "dial"
    /\ IF b \in Redialers /\ ctx[b] = "live" THEN StartTo(b, "delay") ELSE DialerReturns(b)

DialerOffers(b) ==
    /\ b \in Dialers
    /\ start[b] = "offer"
    /\ Take(b, CHOOSE p \in peer[b] : TRUE)
    /\ start' = [start EXCEPT ![b] = "serve"]
    /\ UNCHANGED <<ctx, peer, registry, loop, socket, wg, reload>>

(* A session that the loop does not take any more is dropped.              *)
DialerCancelled(b) ==
    /\ b \in Dialers
    /\ start[b] \in {"offer", "serve", "delay"}
    /\ ctx[b] = "cancelled"
    /\ DialerReturns(b)

(* Faulty variant: the dialer does not hear that its session has closed.   *)
SessionClosedUnheard(b) ==
    /\ b \in Dialers
    /\ start[b] = "serve"
    /\ running[b] = {}
    /\ b \notin Redialers
    /\ DialerReturns(b)

(* closeChan is closed by the session's Close.                             *)
SessionClosed(b) ==
    /\ b \in Dialers
    /\ start[b] = "serve"
    /\ running[b] = {}
    /\ IF b \in Redialers /\ ctx[b] = "live" THEN StartTo(b, "delay") ELSE DialerReturns(b)

Redial(b) == start[b] = "delay" /\ StartTo(b, "dial")

-----------------------------------------------------------------------------
(* listenerSession, with the functions of TCPListener.Start: Accept gives  *)
(* up every second to look at the context.                                 *)
Accept(b, p) ==
    /\ start[b] = "accept"
    /\ ctx[b] = "live"
    /\ p \notin running[b]
    /\ start' = [start EXCEPT ![b] = "offer"]
    /\ peer' = [peer EXCEPT ![b] = {p}]
    /\ UNCHANGED <<ctx, registry, loop, running, socket, wg, reload>>

ListenerOffers(b) ==
    /\ b \in TCPListeners
    /\ start[b] = "offer"
    /\ Take(b, CHOOSE p \in peer[b] : TRUE)
    /\ start' = [start EXCEPT ![b] = "accept"]
    /\ UNCHANGED <<ctx, peer, registry, loop, socket, wg, reload>>

(* The goroutine leaves the wait group before the socket is closed.        *)
LeaveListener(b) ==
    /\ b \in TCPListeners
    /\ start' = [start EXCEPT ![b] = "close"]
    /\ wg' = wg - 1
    /\ UNCHANGED <<ctx, peer, registry, loop, running, socket, reload>>

ListenerReturns(b) == start[b] \in {"accept", "offer"} /\ ctx[b] = "cancelled" /\ LeaveListener(b)

AcceptFails(b) == start[b] = "accept" /\ ctx[b] = "live" /\ LeaveListener(b)

ListenerCloses(b) ==
    /\ start[b] = "close"
    /\ start' = [start EXCEPT ![b] = "done"]
    /\ socket' = [socket EXCEPT ![b] = FALSE]
    /\ UNCHANGED <<ctx, peer, registry, loop, running, wg, reload>>

-----------------------------------------------------------------------------
(* UDPListener.Start: one goroutine reads the datagrams of all peers.      *)
ReadFromUDP(b, p) ==
    /\ start[b] = "read"
    /\ ctx[b] = "live"
    /\ peer' = [peer EXCEPT ![b] = {p}]
    /\ registry' = [registry EXCEPT ![b] = @ \cup {p}]
    /\ start' = [start EXCEPT ![b] = IF p \in registry[b] THEN "deliver" ELSE "offer"]
    /\ UNCHANGED <<ctx, loop, running, socket, wg, reload>>

UDPOffers(b) ==
    /\ b \in UDPListeners
    /\ start[b] = "offer"
    /\ Take(b, CHOOSE p \in peer[b] : TRUE)
    /\ start' = [start EXCEPT ![b] = "deliver"]
    /\ UNCHANGED <<ctx, peer, registry, loop, socket, wg, reload>>

(* The session's Recv takes the datagram; that of a session which has been *)
(* closed since it was looked up never does.                               *)
UDPDelivers(b) ==
    /\ start[b] = "deliver"
    /\ peer[b] \subseteq running[b]
    /\ StartTo(b, "read")

(* Faulty variant: the delivery does not end with the context.             *)
UDPReturnsFromRead(b) ==
    /\ b \in UDPListeners
    /\ start[b] \in {"read", "offer"}
    /\ ctx[b] = "cancelled"
    /\ start' = [start EXCEPT ![b] = "done"]
    /\ socket' = [socket EXCEPT ![b] = FALSE]
    /\ wg' = wg - 1
    /\ UNCHANGED <<ctx, peer, registry, loop, running, reload>>

UDPReturns(b) ==
    /\ b \in UDPListeners
    /\ start[b] \in {"read", "offer", "deliver"}
    /\ ctx[b] = "cancelled"
    /\ start' = [start EXCEPT ![b] = "done"]
    /\ socket' = [socket EXCEPT ![b] = FALSE]
    /\ wg' = wg - 1
    /\ UNCHANGED <<ctx, peer, registry, loop, running, reload>>

(* An error other than a timeout ends the goroutine; the socket and the    *)
(* channel stay open.                                                      *)
UDPReadFails(b) ==
    /\ start[b] = "read"
    /\ ctx[b] = "live"
    /\ start' = [start EXCEPT ![b] = "done"]
    /\ wg' = wg - 1
    /\ UNCHANGED <<ctx, peer, registry, loop, running, socket, reload>>

-----------------------------------------------------------------------------
(* WebsocketListener.Start and ExternalBackend.NewConnection: whoever has  *)
(* a new connection waits until the loop takes its session, for ever if    *)
(* the context is done.                                                    *)
NewConnection(b, p) ==
    /\ (b \in WSListeners /\ start[b] = "serve") \/ (b \in Externals /\ ctx[b] # "none")
    /\ p \notin peer[b] \cup running[b]
    /\ peer' = [peer EXCEPT ![b] = @ \cup {p}]
    /\ UNCHANGED <<ctx, start, registry, loop, running, socket, wg, reload>>

ConnectionTaken(b, p) ==
    /\ b \in WSListeners \cup Externals
    /\ p \in peer[b]
    /\ Take(b, p)
    /\ peer' = [peer EXCEPT ![b] = @ \ {p}]
    /\ UNCHANGED <<ctx, start, registry, loop, socket, wg, reload>>

(* The server is closed when the context is done, and Serve returns.       *)
ServeReturns(b) ==
    /\ start[b] = "serve" /\ b \in WSListeners
    /\ ctx[b] = "cancelled"
    /\ start' = [start EXCEPT ![b] = "done"]
    /\ socket' = [socket EXCEPT ![b] = FALSE]
    /\ wg' = wg - 1
    /\ UNCHANGED <<ctx, peer, registry, loop, running, reload>>

-----------------------------------------------------------------------------
(* The reload command.  A configuration file is read as a list of items    *)
(* that cannot be reloaded and a set of backends.                          *)
Lists == {s \in UNION {[1 .. n -> Items \cup {Added}] : n \in 0 .. Cardinality(Items)} :
             \A i, j \in DOMAIN s : s[i] = s[j] => i = j}

ItemsOf(list) == {list[i] : i \in DOMAIN list}

(* checkReload marks the items up to the first that it does not know.      *)
Known(list) == {list[i] : i \in {j \in DOMAIN list : \A k \in 1 .. j : list[k] # Added}}

Refused(list) ==
    /\ pc = "idle"
    /\ reloads < MaxReloads
    /\ reloads' = reloads + 1
    /\ \/ UNCHANGED marked                              \* PreReload finds an error
       \/ Added \in ItemsOf(list) /\ marked' = marked \cup Known(list)
       \/ /\ Added \notin ItemsOf(list)                 \* cfgAbsent
          /\ marked \cup Known(list) # Items
          /\ marked' = {}
    /\ UNCHANGED <<backend, pc, todo>>

(* Both checks pass; CancelBackends cancels the contexts and waits.        *)
Accepted(list, new) ==
    /\ pc = "idle"
    /\ reloads < MaxReloads
    /\ reloads' = reloads + 1
    /\ Added \notin ItemsOf(list)
    /\ marked \cup Known(list) = Items
    /\ marked' = {}
    /\ todo' = new
    /\ pc' = "wait"
    /\ ctx' = [b \in Backends |-> IF ctx[b] = "live" THEN "cancelled" ELSE ctx[b]]
    /\ UNCHANGED <<start, peer, registry, loop, running, socket, wg>>

BackendWaitReturns ==
    /\ pc = "wait"
    /\ wg = 0
    /\ pc' = "start"
    /\ UNCHANGED <<backend, todo, marked, reloads>>

ReloadReturns ==
    /\ pc = "start"
    /\ todo = {}
    /\ pc' = "idle"
    /\ UNCHANGED <<backend, todo, marked, reloads>>

-----------------------------------------------------------------------------
(* What a goroutine does by itself, and what a peer or a user causes.      *)
Goroutine(b) ==
    \/ LoopReturns(b) \/ LoopEnds(b)
    \/ DialFails(b) \/ DialerOffers(b) \/ DialerCancelled(b) \/ SessionClosed(b) \/ Redial(b)
    \/ ListenerOffers(b) \/ ListenerReturns(b) \/ ListenerCloses(b)
    \/ UDPOffers(b) \/ UDPDelivers(b) \/ UDPReturns(b)
    \/ ServeReturns(b) \/ \E p \in Peers : ConnectionTaken(b, p)

Connection(b) ==
    \/ AcceptFails(b) \/ UDPReadFails(b)
    \/ \E p \in Peers : \/ DialSucceeds(b, p) \/ Accept(b, p) \/ ReadFromUDP(b, p)
                        \/ NewConnection(b, p) \/ SessionEnds(b, p)

Reload ==
    \/ \E b \in Backends : AddBackend(b) \/ AddBackendFails(b)
    \/ BackendWaitReturns \/ ReloadReturns

Command == \E list \in Lists : Refused(list) \/ \E new \in Configurations : Accepted(list, new)

Next == Reload \/ Command \/ \E b \in Backends : Goroutine(b) \/ Connection(b)

(* Goroutines run, the protocol ends once its context is done, and a       *)
(* select that can always see the context done does not pass it over for   *)
(* ever.                                                                   *)
Cancelled(b) == ctx[b] = "cancelled" /\ \E p \in Peers : SessionEnds(b, p)

Fairness ==
    /\ WF_vars(Reload)
    /\ \A b \in Backends :
           WF_vars(Goroutine(b)) /\ WF_vars(LoopReturns(b)) /\ WF_vars(Cancelled(b))

Spec == Init /\ [][Next]_vars /\ Fairness

-----------------------------------------------------------------------------
(* When the backends of the new configuration are started, no loop and no  *)
(* session of the old ones is left, and no goroutine that still makes      *)
(* sessions (CancelBackends waits for backendWaitGroup).                   *)
ReloadIsClean ==
    pc = "start" =>
        \A b \in todo : /\ loop[b] \in {"none", "done"} /\ running[b] = {}
                        /\ start[b] \in {"none", "close", "done"}

(* CancelBackends returns, wherever the goroutines of the backends are     *)
(* when their contexts are cancelled.                                      *)
CancelReturns == pc = "wait" ~> pc # "wait"

(* A backend that redials comes back to dialling whenever its session has  *)
(* ended, until it is cancelled (dialerSession).                           *)
Redials ==
    \A b \in Redialers :
        start[b] = "serve" /\ running[b] = {} ~> start[b] = "dial" \/ ctx[b] = "cancelled"
=============================================================================
