------------------------------- MODULE Proxy --------------------------------
(***************************************************************************)
(* One connection through a stream proxy (pkg/services/tcp_proxy.go,       *)
(* unix_proxy.go, command.go, and the connect command of                   *)
(* pkg/controlsvc/connect.go): it is accepted on one side, another is made *)
(* on the other, and BridgeConns (pkg/utils/bridge.go) copies both ways.   *)
(*                                                                         *)
(* "local" is a TCP or Unix connection, "mesh" a netceptor Conn, whose     *)
(* Close closes the writing side only.                                     *)
(***************************************************************************)
EXTENDS Naturals, Sequences

CONSTANT Total      \* bound on the chunks each side sends

ProxyAssumption == Total \in Nat

Sides == {"local", "mesh"}
Other(side) == IF side = "local" THEN "mesh" ELSE "local"

VARIABLES
    phase,      \* the proxy: "accept", "dial", "bridge" or "dropped"
    entry,      \* how the connection came: "inbound", "outbound" or "command"
    sent,       \* chunks a side's peer has sent
    eof,        \* it sends no more
    gone,       \* it is gone: reading from it and writing to it fail
    closed,     \* the proxy has closed its connection to it
    half,       \* the goroutine that reads from the side
    read,       \* chunks it has read
    got         \* what the side's peer has received

vars == <<phase, entry, sent, eof, gone, closed, half, read, got>>

Init ==
    /\ phase = "accept"
    /\ entry = "inbound"
    /\ sent = [s \in Sides |-> 0]
    /\ eof = [s \in Sides |-> FALSE]
    /\ gone = [s \in Sides |-> FALSE]
    /\ closed = [s \in Sides |-> FALSE]
    /\ half = [s \in Sides |-> "none"]
    /\ read = [s \in Sides |-> 0]
    /\ got = [s \in Sides |-> <<>>]

-----------------------------------------------------------------------------
(* The peers.                                                              *)
First == IF entry = "inbound" THEN "local" ELSE "mesh"   \* the side it came from

Connected(s) == phase = "bridge" \/ (phase \in {"dial", "dropped"} /\ s = First)

PeerSends(s) ==
    /\ Connected(s) /\ ~eof[s]
    /\ sent[s] < Total
    /\ sent' = [sent EXCEPT ![s] = @ + 1]
    /\ UNCHANGED <<phase, entry, eof, gone, closed, half, read, got>>

PeerEnds(s) ==
    /\ Connected(s) /\ ~eof[s]
    /\ eof' = [eof EXCEPT ![s] = TRUE]
    /\ UNCHANGED <<phase, entry, sent, gone, closed, half, read, got>>

PeerGone(s) ==
    /\ Connected(s) /\ ~gone[s]
    /\ gone' = [gone EXCEPT ![s] = TRUE]
    /\ eof' = [eof EXCEPT ![s] = TRUE]
    /\ UNCHANGED <<phase, entry, sent, closed, half, read, got>>

-----------------------------------------------------------------------------
(* The accept loops, and the connect command of a control session: inbound *)
(* into the mesh, outbound out of it, to a socket or to a command.         *)
Enters(how) ==
    /\ phase = "accept"
    /\ phase' = "dial"
    /\ entry' = how
    /\ UNCHANGED <<sent, eof, gone, closed, half, read, got>>

TCPProxyServiceInbound == Enters("inbound")
TCPProxyServiceOutbound == Enters("outbound")
UnixProxyServiceInbound == Enters("inbound")
UnixProxyServiceOutbound == Enters("outbound")
CommandService == Enters("command")
ConnectCommand == Enters("inbound")

Accept ==
    \/ TCPProxyServiceInbound \/ TCPProxyServiceOutbound
    \/ UnixProxyServiceInbound \/ UnixProxyServiceOutbound
    \/ CommandService \/ ConnectCommand

Dial ==
    /\ phase = "dial"
    /\ phase' = "bridge"
    /\ half' = [s \in Sides |-> "read"]
    /\ UNCHANGED <<entry, sent, eof, gone, closed, read, got>>

(* The connection that was accepted is left as it is, but by the command   *)
(* service, which closes it.                                               *)
DialFails ==
    /\ phase = "dial"
    /\ phase' = "dropped"
    /\ closed' = [closed EXCEPT ![First] = entry = "command"]
    /\ UNCHANGED <<entry, sent, eof, gone, half, read, got>>

-----------------------------------------------------------------------------
(* bridgeHalf.                                                             *)
Unreadable(s) == gone[s] \/ (closed[s] /\ s = "local")

Read(s) ==
    /\ half[s] = "read"
    /\ ~Unreadable(s)
    /\ read[s] < sent[s]
    /\ read' = [read EXCEPT ![s] = @ + 1]
    /\ half' = [half EXCEPT ![s] = "write"]
    /\ UNCHANGED <<phase, entry, sent, eof, gone, closed, got>>

(* EOF or an error.                                                        *)
ReadEnds(s) ==
    /\ half[s] = "read"
    /\ Unreadable(s) \/ (eof[s] /\ read[s] = sent[s])
    /\ half' = [half EXCEPT ![s] = "close"]
    /\ UNCHANGED <<phase, entry, sent, eof, gone, closed, read, got>>

(* An error, or fewer bytes written than read, ends the copying.           *)
Write(s) ==
    /\ half[s] = "write"
    /\ \/ /\ half' = [half EXCEPT ![s] = "close"]
          /\ UNCHANGED got
       \/ /\ ~gone[Other(s)] /\ ~closed[Other(s)]
          /\ half' = [half EXCEPT ![s] = "read"]
          /\ got' = [got EXCEPT ![Other(s)] = Append(@, read[s])]
    /\ UNCHANGED <<phase, entry, sent, eof, gone, closed, read>>

(* Faulty variant: the destination is not closed.                          *)
LeaveDestination(s) ==
    /\ half[s] = "close"
    /\ half' = [half EXCEPT ![s] = "done"]
    /\ UNCHANGED <<phase, entry, sent, eof, gone, closed, read, got>>

CloseDestination(s) ==
    /\ half[s] = "close"
    /\ closed' = [closed EXCEPT ![Other(s)] = TRUE]
    /\ half' = [half EXCEPT ![s] = "done"]
    /\ UNCHANGED <<phase, entry, sent, eof, gone, read, got>>

-----------------------------------------------------------------------------
Half(s) == Read(s) \/ ReadEnds(s) \/ Write(s) \/ CloseDestination(s)

Next ==
    \/ Accept \/ Dial \/ DialFails
    \/ \E s \in Sides : Half(s) \/ PeerSends(s) \/ PeerEnds(s) \/ PeerGone(s)

(* A peer ends its side once it sees the other end closed.                 *)
PeerAnswers(s) == closed[s] /\ PeerEnds(s)

Fairness == \A s \in Sides : WF_vars(Half(s)) /\ WF_vars(PeerAnswers(s))

Spec == Init /\ [][Next]_vars /\ Fairness

-----------------------------------------------------------------------------
(* Each direction carries its stream: nothing is lost in the middle,       *)
(* doubled or out of order, whatever fails (bridgeHalf).                   *)
ToMesh == INSTANCE Relay WITH source <- [i \in 1 .. sent["local"] |-> i], sink <- got["mesh"]
ToLocal == INSTANCE Relay WITH source <- [i \in 1 .. sent["mesh"] |-> i], sink <- got["local"]
BridgeRelays == ToMesh!Spec /\ ToLocal!Spec

(* BridgeConns waits for both halves: when one side has ended, so does the *)
(* other, and the bridge returns.                                          *)
BridgeReturns ==
    (\E s \in Sides : half[s] = "done") ~> (\A s \in Sides : half[s] = "done")
=============================================================================
