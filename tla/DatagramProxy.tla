---------------------------- MODULE DatagramProxy ---------------------------
(***************************************************************************)
(* The UDP proxy of pkg/services/udp_proxy.go: clients of the inbound half *)
(* talk over the mesh to the outbound half, which talks to a UDP server.   *)
(*                                                                         *)
(* Neither half says on whose behalf a datagram travels.  The inbound half *)
(* opens an ephemeral service for each client address and the outbound     *)
(* half a UDP socket for each mesh address, and the way back is found from *)
(* those alone.  Datagrams are lost, repeated and reordered: what was sent *)
(* once may arrive at any later time, any number of times.                 *)
(***************************************************************************)
CONSTANTS
    Clients,     \* UDP addresses that talk to the inbound half
    Services,    \* ephemeral services of its node
    Ports,       \* UDP ports of the outbound half's node
    Stranger,    \* a service elsewhere in the mesh
    Proxied,     \* the service that the outbound half listens on
    None

Senders == Services \cup {Stranger}

(* Addresses of different kinds differ.                                    *)
DatagramAssumption ==
    /\ None \notin Services \cup Ports
    /\ Stranger \notin Services \cup {None}
    /\ Proxied \notin Senders \cup {None}
    /\ {"inbound", "server"} \cap (Ports \cup {None}) = {}

VARIABLES
    datagrams,   \* all that have been sent; asker is the one they are for
    inMap,       \* connMap of the inbound half
    outMap,      \* connMap of the outbound half
    inLoop,      \* runUDPProxyServiceInbound is called again
    outLoop,     \* runUDPProxyServiceOutbound is called again
    answers      \* what the clients got: [client, asker]

vars == <<datagrams, inMap, outMap, inLoop, outLoop, answers>>

Init ==
    /\ datagrams = {}
    /\ inMap = [c \in Clients |-> None]
    /\ outMap = [a \in Senders |-> None]
    /\ inLoop = TRUE /\ outLoop = TRUE
    /\ answers = {}

Datagram(net, from, to, asker) == [net |-> net, from |-> from, to |-> to, asker |-> asker]
Sends(d) == datagrams' = datagrams \cup {d}
Loses == UNCHANGED datagrams

(* The service or socket of an address; a new one is one not in use, and   *)
(* which one makes no difference.                                          *)
Unused(map, kind) == {k \in kind : \A b \in DOMAIN map : map[b] # k}
Available(a, map, kind) == map[a] # None \/ Unused(map, kind) # {}
Of(a, map, kind) == IF map[a] # None THEN map[a] ELSE CHOOSE k \in Unused(map, kind) : TRUE

-----------------------------------------------------------------------------
(* Clients, the server and strangers send what they like; the server's     *)
(* answer goes to the socket a question came from.                         *)
Ask(c) ==
    /\ Sends(Datagram("udp", c, "inbound", c))
    /\ UNCHANGED <<inMap, outMap, inLoop, outLoop, answers>>

Answer(d) ==
    /\ d.net = "udp" /\ d.to = "server"
    /\ Sends(Datagram("udp", "server", d.from, d.asker))
    /\ UNCHANGED <<inMap, outMap, inLoop, outLoop, answers>>

StrangerSends(to) ==
    /\ Sends(Datagram("mesh", Stranger, to, Stranger))
    /\ UNCHANGED <<inMap, outMap, inLoop, outLoop, answers>>

-----------------------------------------------------------------------------
(* The inbound half.                                                       *)
Inbound(d) ==
    /\ inLoop
    /\ d.net = "udp" /\ d.to = "inbound"
    /\ Available(d.from, inMap, Services)
    /\ inMap' = [inMap EXCEPT ![d.from] = Of(d.from, inMap, Services)]
    /\ Sends(Datagram("mesh", inMap'[d.from], Proxied, d.asker)) \/ Loses
    /\ UNCHANGED <<outMap, inLoop, outLoop, answers>>

(* No service can be listened on, or the UDP socket fails.                 *)
InboundFails ==
    /\ inLoop
    /\ inLoop' = FALSE
    /\ UNCHANGED <<datagrams, inMap, outMap, outLoop, answers>>

(* Faulty variant: whatever comes for the service is for the client.       *)
ProcessInboundAny(c, d) ==
    /\ d.net = "mesh" /\ d.to = inMap[c]
    /\ answers' = answers \cup {[client |-> c, asker |-> d.asker]}
    /\ UNCHANGED <<datagrams, inMap, outMap, inLoop, outLoop>>

(* The goroutine of a client's service, which goes on when the loop ends.  *)
ProcessInboundPacket(c, d) ==
    /\ d.net = "mesh" /\ d.to = inMap[c]
    /\ d.from = Proxied
    /\ answers' = answers \cup {[client |-> c, asker |-> d.asker]}
    /\ UNCHANGED <<datagrams, inMap, outMap, inLoop, outLoop>>

-----------------------------------------------------------------------------
(* The outbound half.                                                      *)
Outbound(d) ==
    /\ outLoop
    /\ d.net = "mesh" /\ d.to = Proxied
    /\ Available(d.from, outMap, Ports)
    /\ outMap' = [outMap EXCEPT ![d.from] = Of(d.from, outMap, Ports)]
    /\ Sends(Datagram("udp", outMap'[d.from], "server", d.asker)) \/ Loses
    /\ UNCHANGED <<inMap, inLoop, outLoop, answers>>

OutboundFails ==
    /\ outLoop
    /\ outLoop' = FALSE
    /\ UNCHANGED <<datagrams, inMap, outMap, inLoop, answers>>

(* The goroutine of a UDP socket: the server is the only one it hears.     *)
ProcessOutboundPacket(a, d) ==
    /\ d.net = "udp" /\ d.to = outMap[a]
    /\ Sends(Datagram("mesh", Proxied, a, d.asker))
    /\ UNCHANGED <<inMap, outMap, inLoop, outLoop, answers>>

-----------------------------------------------------------------------------
Next ==
    \/ \E c \in Clients : Ask(c)
    \/ \E to \in Services \cup {Proxied} : StrangerSends(to)
    \/ InboundFails \/ OutboundFails
    \/ \E d \in datagrams :
          \/ Answer(d) \/ Inbound(d) \/ Outbound(d)
          \/ \E c \in Clients : ProcessInboundPacket(c, d)
          \/ \E a \in Senders : ProcessOutboundPacket(a, d)

Spec == Init /\ [][Next]_vars

(* A client gets only answers to its own questions, although many clients  *)
(* and strangers share the two halves (connMap, and the check of the       *)
(* source in processInboundPacket).                                        *)
AnswersAreForTheAsker == \A a \in answers : a.client = a.asker
=============================================================================
