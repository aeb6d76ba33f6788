----------------------------- MODULE Forwarding -----------------------------
(***************************************************************************)
(* Data messages in the mesh: handleMessageData of                         *)
(* pkg/netceptor/netceptor.go with what it calls (forwardMessage,          *)
(* sendUnreachable, handlePing, handleUnreachable), and the sending side   *)
(* in packetconn.go and ping.go.                                           *)
(*                                                                         *)
(* The routing tables of the nodes are computed by each from what it knows *)
(* and may disagree or be out of date, so the next hop is any node, or     *)
(* none; firewall rules are configuration, so a node may drop or reject    *)
(* any message.  A message that is handled at the node where it is (the    *)
(* sender's own call of handleMessageData included) is one step; links do  *)
(* not duplicate, but may lose what is queued or cannot be translated.     *)
(*                                                                         *)
(* id, travelled, budget and about.* of a message are not on the wire:     *)
(* they say which call sent it, how far it came and with how many hops it  *)
(* started.                                                                *)
(***************************************************************************)
EXTENDS Integers, FiniteSets

CONSTANTS
    Nodes,     \* node names
    Ids,       \* calls of SendMessageWithHopsToLive by applications
    NoNode,    \* the sender of an id that is not used yet
    NoAbout,   \* the contents of a message that is not a notice
    MaxHops    \* s.maxForwardingHops

(* HopsToLive is a byte.                                                   *)
Byte == 256

VARIABLES
    msgs,        \* messages about to be handled at the node m.at
    listening,   \* nodes whose application has its service registered
    sender,      \* [Ids -> Nodes \cup {NoNode}]
    outcomes,    \* [Ids -> Nat]: what the sender of the id has been told, or
                 \* for a datagram its delivery, counted
    notices      \* notices published by handleUnreachable, with their node

vars == <<msgs, listening, sender, outcomes, notices>>

Kinds == {"data",      \* to the service of an application
          "ping",      \* to the reserved service "ping"
          "reply",     \* from "ping" back to the service that pinged
          "unreach"}   \* from "unreach" to "unreach"

Problems == {"expired", "rejected", "unknown"}

Abouts == [kind : Kinds, from : Nodes, to : Nodes, travelled : 0..(Byte - 1),
           budget : 0..(Byte - 1), problem : Problems]

ASSUME ForwardingAssumption ==
    /\ NoNode \notin Nodes
    /\ NoAbout \notin Abouts
    /\ MaxHops \in 0..(Byte - 1)

Messages == [id : Ids, kind : Kinds, from : Nodes, to : Nodes, at : Nodes,
             hops : 0..(Byte - 1), travelled : 0..(Byte - 1),
             budget : 0..(Byte - 1), about : Abouts \cup {NoAbout}]

-----------------------------------------------------------------------------
(* A message as its sender makes it: it starts at its own node.            *)
Message(i, kind, from, to, hops, about) ==
    [id |-> i, kind |-> kind, from |-> from, to |-> to, at |-> from,
     hops |-> hops, travelled |-> 0, budget |-> hops, about |-> about]

(* sendUnreachable, called at the node where m is.                         *)
Notice(m, problem) ==
    Message(m.id, "unreach", m.at, m.from, MaxHops,
            [kind |-> m.kind, from |-> m.from, to |-> m.to,
             travelled |-> m.travelled, budget |-> m.budget,
             problem |-> problem])

(* Nobody is told that a notice cannot be delivered.                       *)
Notifiable(m) == m.kind # "unreach"

NoticeUnlessUnreach(m, problem) ==
    IF Notifiable(m) THEN {Notice(m, problem)} ELSE {}

(* The error return reaches the sender only out of its own call.           *)
ReturnsToSender(m) ==
    m.kind # "unreach" /\ m.travelled = 0 /\ m.at = sender[m.id]

Told(i) == outcomes' = [outcomes EXCEPT ![i] = @ + 1]

-----------------------------------------------------------------------------
Init ==
    /\ msgs = {}
    /\ listening \in SUBSET Nodes
    /\ sender = [i \in Ids |-> NoNode]
    /\ outcomes = [i \in Ids |-> 0]
    /\ notices = {}

(* An application sends a datagram (WriteTo) or a ping, with the hops to   *)
(* live it likes (SetHopsToLive).                                          *)
Send(i) ==
    /\ sender[i] = NoNode
    /\ \E n \in listening, to \in Nodes, kind \in {"data", "ping"}, hops \in 0..MaxHops :
          /\ msgs' = msgs \cup {Message(i, kind, n, to, hops, NoAbout)}
          /\ sender' = [sender EXCEPT ![i] = n]
    /\ UNCHANGED <<listening, outcomes, notices>>

(* A service is registered by ListenPacket, or closed.                     *)
Listen(n) ==
    /\ listening' = IF n \in listening THEN listening \ {n} ELSE listening \cup {n}
    /\ UNCHANGED <<msgs, sender, outcomes, notices>>

(* The firewall at m.at drops the message.                                 *)
FirewallDrops(m) ==
    /\ msgs' = msgs \ {m}
    /\ UNCHANGED <<listening, sender, outcomes, notices>>

(* Faulty variant: no return after the notice.                             *)
FirewallRejectsOn(m) ==
    /\ msgs' = msgs \cup NoticeUnlessUnreach(m, "rejected")
    /\ UNCHANGED <<listening, sender, outcomes, notices>>

(* The firewall at m.at rejects the message.                               *)
FirewallRejects(m) ==
    /\ msgs' = (msgs \ {m}) \cup NoticeUnlessUnreach(m, "rejected")
    /\ UNCHANGED <<listening, sender, outcomes, notices>>

(* The message is here, for the service of an application: it is put on    *)
(* the listener's recvChan (or lost, if the listener closes meanwhile).    *)
Delivers(m) ==
    /\ m.at = m.to
    /\ m.kind \in {"data", "reply"}
    /\ m.at \in listening
    /\ msgs' = msgs \ {m}
    /\ Told(m.id)
    /\ UNCHANGED <<listening, sender, notices>>

ListenerCloses(m) ==
    /\ m.at = m.to
    /\ m.kind \in {"data", "reply"}
    /\ m.at \in listening
    /\ msgs' = msgs \ {m}
    /\ listening' = listening \ {m.at}
    /\ UNCHANGED <<sender, outcomes, notices>>

(* The service is not there: an error to a local sender, else a notice.    *)
ServiceUnknown(m) ==
    /\ m.at = m.to
    /\ m.kind \in {"data", "reply"}
    /\ m.at \notin listening
    /\ \/ /\ m.from = m.at
          /\ msgs' = msgs \ {m}
          /\ IF ReturnsToSender(m) THEN Told(m.id) ELSE UNCHANGED outcomes
       \/ /\ m.from # m.at
          /\ msgs' = (msgs \ {m}) \cup {Notice(m, "unknown")}
          /\ UNCHANGED outcomes
    /\ UNCHANGED <<listening, sender, notices>>

(* handlePing, for the reserved service "ping".                            *)
AnswersPing(m) ==
    /\ m.at = m.to
    /\ m.kind = "ping"
    /\ msgs' = (msgs \ {m})
                 \cup {Message(m.id, "reply", m.at, m.from, MaxHops, NoAbout)}
    /\ UNCHANGED <<listening, sender, outcomes, notices>>

(* handleUnreachable, for the reserved service "unreach": the notice goes  *)
(* to the listeners of this node.                                          *)
PublishesNotice(m) ==
    /\ m.at = m.to
    /\ m.kind = "unreach"
    /\ msgs' = msgs \ {m}
    /\ notices' = notices \cup {[node |-> m.at, about |-> m.about]}
    /\ IF m.about.kind \in {"data", "ping"} THEN Told(m.id) ELSE UNCHANGED outcomes
    /\ UNCHANGED <<listening, sender>>

(* The message has no hops left.                                           *)
Expired(m) == m.hops <= 0

Expires(m) ==
    /\ m.at # m.to
    /\ Expired(m)
    /\ msgs' = (msgs \ {m}) \cup NoticeUnlessUnreach(m, "expired")
    /\ UNCHANGED <<listening, sender, outcomes, notices>>

(* Faulty variant: the byte is not decremented.                            *)
HopFree(m, next) == [m EXCEPT !.at = next, !.travelled = @ + 1]

(* message[1]--, on a byte.                                                *)
Decrement(h) == (h + Byte - 1) % Byte

(* The message on its way to the next hop, its byte decremented.           *)
Hop(m, next) ==
    [m EXCEPT !.at = next, !.travelled = @ + 1, !.hops = Decrement(@)]

(* The routing table has a next hop and there is a connection to it.       *)
Forwards(m) ==
    /\ m.at # m.to
    /\ ~Expired(m)
    /\ \E next \in Nodes \ {m.at} : msgs' = (msgs \ {m}) \cup {Hop(m, next)}
    /\ UNCHANGED <<listening, sender, outcomes, notices>>

(* No route to the node, no connection to the next hop, or the connection  *)
(* is cancelled meanwhile: an error return.                                *)
NoRoute(m) ==
    /\ m.at # m.to
    /\ ~Expired(m)
    /\ msgs' = msgs \ {m}
    /\ IF ReturnsToSender(m) THEN Told(m.id) ELSE UNCHANGED outcomes
    /\ UNCHANGED <<listening, sender, notices>>

(* The connection closes with the message queued, or the receiving node    *)
(* has not heard of a name in it.                                          *)
Lost(m) ==
    /\ m.travelled > 0
    /\ msgs' = msgs \ {m}
    /\ UNCHANGED <<listening, sender, outcomes, notices>>

Handle(m) ==
    \/ FirewallDrops(m) \/ FirewallRejects(m) \/ Delivers(m) \/ ListenerCloses(m)
    \/ ServiceUnknown(m) \/ AnswersPing(m) \/ PublishesNotice(m) \/ Expires(m)
    \/ Forwards(m) \/ NoRoute(m) \/ Lost(m)

Next ==
    \/ \E i \in Ids : Send(i)
    \/ \E n \in Nodes : Listen(n)
    \/ \E m \in msgs : Handle(m)

Spec == Init /\ [][Next]_vars

(* The goroutine of the connection, or of the sender, goes on handling the *)
(* message it holds.  A listener's reader is taken to read or to close.    *)
FairSpec ==
    Spec /\ \A i \in Ids : WF_vars(\E m \in msgs : m.id = i /\ Handle(m))

-----------------------------------------------------------------------------
(* Types of the messages and of the node state.                            *)
TypeOK ==
    /\ \A m \in msgs : m \in Messages
    /\ listening \subseteq Nodes
    /\ sender \in [Ids -> Nodes \cup {NoNode}]
    /\ outcomes \in [Ids -> Nat]
    /\ \A n \in notices : n \in [node : Nodes, about : Abouts \cup {NoAbout}]

(* A hop costs one of the hops the message started with, and the byte      *)
(* never wraps round: no message goes further than its HopsToLive, however *)
(* the routing tables send it round in circles.                            *)
HopBudget ==
    \A m \in msgs : m.hops + m.travelled = m.budget /\ m.budget <= MaxHops

(* Replies and notices take the place of the message they answer: a call   *)
(* never has more than one message in the mesh, so neither rejecting       *)
(* firewalls nor closed services nor loops can multiply traffic.           *)
OneMessagePerCall ==
    \A m1, m2 \in msgs : m1.id = m2.id => m1 = m2

(* What became of a call is reported at most once: a datagram is not both  *)
(* delivered and reported unreachable, and a ping gets one of a reply, a   *)
(* notice and an error.                                                    *)
OneOutcome ==
    \A i \in Ids : outcomes[i] <= 1

(* A notice is published at the node that sent the message in question,    *)
(* and the message in question is never itself a notice.                   *)
NoticeReachesSender ==
    \A n \in notices :
        /\ n.about # NoAbout
        /\ n.about.kind # "unreach"
        /\ n.node = n.about.from

(* Traceroute: "expired in transit" comes from the node where the message  *)
(* was after exactly the hops it was sent with.                            *)
ExpiredAfterAllHops ==
    \A n \in notices :
        n.about # NoAbout /\ n.about.problem = "expired" =>
            n.about.travelled = n.about.budget

(* Whatever loops there are in the routing tables, every call's message,   *)
(* reply or notice has left the mesh in the end.                           *)
Vanishes ==
    \A i \in Ids : sender[i] # NoNode ~> \A m \in msgs : m.id # i
=============================================================================
