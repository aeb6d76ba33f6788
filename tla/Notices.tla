------------------------------ MODULE Notices -------------------------------
(***************************************************************************)
(* How a notice of an unreachable destination gets from the connection it  *)
(* came over to those who wait for it: the node's broker                   *)
(* (pkg/utils/broker.go), the goroutines and the broker of every           *)
(* PacketConn (StartUnreachable, SubscribeUnreachable of                   *)
(* pkg/netceptor/packetconn.go) and a reader such as MonitorUnreachable or *)
(* ping.  No channel has a buffer: a broker waits until all its            *)
(* subscribers have taken a message.                                       *)
(***************************************************************************)
EXTENDS Naturals, FiniteSets

CONSTANT Sockets    \* PacketConns, each with one reader

VARIABLES
    broker,     \* the sockets the node's broker has yet to give the message to
    about,      \* the socket the message is about
    busy,       \* the broker is publishing
    alive,       \* the context of a PacketConn is live
    subscribed, \* sockets in subs of the node's broker
    relay,      \* StartUnreachable's second goroutine: "recv", "publish" or "ended"
    inner,      \* the socket's broker: "select", "send" or "ended"
    insub,      \* its subscriber is in subs
    giver,      \* goroutine 2 of SubscribeUnreachable: "recv", "give" or "ended"
    reading     \* the reader takes notices

vars == <<broker, about, busy, alive, subscribed, relay, inner, insub, giver, reading>>

Init ==
    /\ broker = {} /\ busy = FALSE
    /\ about \in Sockets
    /\ alive = [s \in Sockets |-> TRUE]
    /\ subscribed = Sockets
    /\ relay = [s \in Sockets |-> "recv"]
    /\ inner = [s \in Sockets |-> "select"]
    /\ insub = [s \in Sockets |-> TRUE]
    /\ giver = [s \in Sockets |-> "recv"]
    /\ reading = [s \in Sockets |-> TRUE]

-----------------------------------------------------------------------------
(* The node's broker: Publish, the message to every subscriber, and        *)
(* Unsubscribe for a socket that was closed, whose channel it closes.      *)
Publish(s) ==
    /\ ~busy
    /\ busy' = TRUE
    /\ about' = s
    /\ broker' = subscribed
    /\ UNCHANGED <<alive, subscribed, relay, inner, insub, giver, reading>>

Deliver(s) ==
    /\ s \in broker
    /\ relay[s] = "recv"
    /\ broker' = broker \ {s}
    /\ relay' = [relay EXCEPT ![s] = IF about = s THEN "publish" ELSE "recv"]
    /\ UNCHANGED <<about, busy, alive, subscribed, inner, insub, giver, reading>>

Published ==
    /\ busy /\ broker = {}
    /\ busy' = FALSE
    /\ UNCHANGED <<broker, about, alive, subscribed, relay, inner, insub, giver, reading>>

Unsubscribe(s) ==
    /\ ~alive[s] /\ s \in subscribed
    /\ ~busy
    /\ subscribed' = subscribed \ {s}
    /\ UNCHANGED <<broker, about, busy, alive, relay, inner, insub, giver, reading>>

RelayEnds(s) ==
    /\ relay[s] = "recv" /\ s \notin subscribed
    /\ relay' = [relay EXCEPT ![s] = "ended"]
    /\ UNCHANGED <<broker, about, busy, alive, subscribed, inner, insub, giver, reading>>

-----------------------------------------------------------------------------
(* The socket's broker; all of it ends with the context.                   *)
(*                                                                         *)
(* Faulty variant: Publish waits for a broker that has ended.              *)
InnerPublishWaits(s) ==
    /\ relay[s] = "publish"
    /\ inner[s] = "select"
    /\ relay' = [relay EXCEPT ![s] = "recv"]
    /\ inner' = [inner EXCEPT ![s] = IF insub[s] THEN "send" ELSE @]
    /\ UNCHANGED <<broker, about, busy, alive, subscribed, insub, giver, reading>>

InnerPublish(s) ==
    /\ relay[s] = "publish"
    /\ inner[s] = "select" \/ ~alive[s]
    /\ relay' = [relay EXCEPT ![s] = "recv"]
    /\ inner' = [inner EXCEPT ![s] = IF inner[s] = "select" /\ insub[s] THEN "send" ELSE @]
    /\ UNCHANGED <<broker, about, busy, alive, subscribed, insub, giver, reading>>

InnerDeliver(s) ==
    /\ inner[s] = "send"
    /\ \/ giver[s] = "recv" /\ giver' = [giver EXCEPT ![s] = "give"]
       \/ ~alive[s] /\ UNCHANGED giver
    /\ inner' = [inner EXCEPT ![s] = "select"]
    /\ UNCHANGED <<broker, about, busy, alive, subscribed, relay, insub, reading>>

InnerEnds(s) ==
    /\ inner[s] = "select" /\ ~alive[s]
    /\ inner' = [inner EXCEPT ![s] = "ended"]
    /\ UNCHANGED <<broker, about, busy, alive, subscribed, relay, insub, giver, reading>>

(* Goroutine 1 of SubscribeUnreachable: the reader's doneChan is closed.   *)
InnerUnsubscribe(s) ==
    /\ ~reading[s] /\ insub[s]
    /\ inner[s] = "select"
    /\ insub' = [insub EXCEPT ![s] = FALSE]
    /\ UNCHANGED <<broker, about, busy, alive, subscribed, relay, inner, giver, reading>>

(* Goroutine 2: it passes the message on, or finds its channel closed.     *)
Give(s) ==
    /\ giver[s] = "give" /\ reading[s]
    /\ giver' = [giver EXCEPT ![s] = "recv"]
    /\ UNCHANGED <<broker, about, busy, alive, subscribed, relay, inner, insub, reading>>

GiverEnds(s) ==
    /\ giver[s] = "recv"
    /\ inner[s] = "ended" \/ ~insub[s]
    /\ giver' = [giver EXCEPT ![s] = "ended"]
    /\ UNCHANGED <<broker, about, busy, alive, subscribed, relay, inner, insub, reading>>

-----------------------------------------------------------------------------
(* The user: it stops reading, and it closes the PacketConn.               *)
StopReading(s) ==
    /\ reading[s]
    /\ reading' = [reading EXCEPT ![s] = FALSE]
    /\ UNCHANGED <<broker, about, busy, alive, subscribed, relay, inner, insub, giver>>

Close(s) ==
    /\ alive[s]
    /\ alive' = [alive EXCEPT ![s] = FALSE]
    /\ UNCHANGED <<broker, about, busy, subscribed, relay, inner, insub, giver, reading>>

Step(s) ==
    \/ Deliver(s) \/ Unsubscribe(s) \/ RelayEnds(s)
    \/ InnerPublish(s) \/ InnerDeliver(s) \/ InnerEnds(s) \/ InnerUnsubscribe(s)
    \/ Give(s) \/ GiverEnds(s)

Next == Published \/ \E s \in Sockets : Step(s) \/ Publish(s) \/ StopReading(s) \/ Close(s)

(* Goroutines run, and whoever has stopped reading closes its PacketConn,  *)
(* as ping and the goroutines of a connection do.                          *)
Fairness ==
    /\ WF_vars(Published)
    /\ \A s \in Sockets : WF_vars(Step(s)) /\ WF_vars(~reading[s] /\ Close(s))

Spec == Init /\ [][Next]_vars /\ Fairness

-----------------------------------------------------------------------------
(* The node's broker gets rid of every message, so that a connection that  *)
(* reports a problem is not blocked for ever by a reader that has gone     *)
(* (Broker.start waits for all subscribers).                               *)
PublishReturns == busy ~> ~busy
=============================================================================
