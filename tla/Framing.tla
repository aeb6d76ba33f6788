------------------------------ MODULE Framing -------------------------------
(***************************************************************************)
(* Messages over a byte stream: pkg/framer/framer.go with Send and Recv of *)
(* the TCP session (pkg/backends/tcp.go) and WriteMessage and ReadMessage  *)
(* of the external backend (pkg/netceptor/external_backend.go).            *)
(*                                                                         *)
(* Each message is sent as its length in two bytes, low byte first, and    *)
(* its contents.  The stream delivers the bytes in pieces of any size; the *)
(* receiver collects them until a message is complete and may time out     *)
(* before that, with a part of a message in its buffer.  A byte has Base   *)
(* values, so that small messages reach both bytes of the length.          *)
(***************************************************************************)
EXTENDS Naturals, Sequences

CONSTANTS
    Base,          \* values of a byte
    Contents,      \* messages that are sent, each shorter than Base * Base
    MaxMessages    \* bound on their number

FramingAssumption ==
    /\ Base \in Nat \ {0}
    /\ \A data \in Contents : data \in Seq(0 .. Base - 1) /\ Len(data) < Base * Base

VARIABLES
    framed,     \* messages that Send was called with
    wire,       \* bytes in the stream
    broken,     \* the stream is broken: it gives what it holds, and takes no more
    buffer,     \* f.buffer of the receiving framer
    receiving,  \* "idle", "wait" in Recv, or "ended" after an error
    unframed    \* messages returned by Recv

vars == <<framed, wire, broken, buffer, receiving, unframed>>

Init ==
    /\ framed = <<>> /\ wire = <<>> /\ buffer = <<>> /\ unframed = <<>>
    /\ broken = FALSE
    /\ receiving = "idle"

-----------------------------------------------------------------------------
(* framer.go.                                                              *)
SendData(data) == <<Len(data) % Base, (Len(data) \div Base) % Base>> \o data

MsgSize == buffer[1] + Base * buffer[2]

MessageReady == Len(buffer) >= 2 /\ Len(buffer) >= MsgSize + 2

GetMessage ==
    /\ unframed' = Append(unframed, SubSeq(buffer, 3, MsgSize + 2))
    /\ buffer' = SubSeq(buffer, MsgSize + 3, Len(buffer))

-----------------------------------------------------------------------------
(* Send, WriteMessage: one Write.                                          *)
Send(data) ==
    /\ ~broken
    /\ Len(framed) < MaxMessages
    /\ framed' = Append(framed, data)
    /\ wire' = wire \o SendData(data)
    /\ UNCHANGED <<broken, buffer, receiving, unframed>>

(* The Write fails after some of the bytes, or the stream breaks by itself *)
(* and loses its end.                                                      *)
Break ==
    /\ ~broken
    /\ broken' = TRUE
    /\ \E n \in 0 .. Len(wire) : wire' = SubSeq(wire, 1, n)
    /\ UNCHANGED <<framed, buffer, receiving, unframed>>

-----------------------------------------------------------------------------
(* Recv, ReadMessage.                                                      *)
Recv ==
    /\ receiving = "idle"
    /\ receiving' = "wait"
    /\ UNCHANGED <<framed, wire, broken, buffer, unframed>>

Returns ==
    /\ receiving = "wait"
    /\ MessageReady
    /\ GetMessage
    /\ receiving' = "idle"
    /\ UNCHANGED <<framed, wire, broken>>

RecvData ==
    /\ receiving = "wait"
    /\ ~MessageReady
    /\ \E n \in 1 .. Len(wire) :
          /\ buffer' = buffer \o SubSeq(wire, 1, n)
          /\ wire' = SubSeq(wire, n + 1, Len(wire))
    /\ UNCHANGED <<framed, broken, receiving, unframed>>

(* ErrTimeout: protoReader calls Recv again.                               *)
RecvTimeout ==
    /\ receiving = "wait"
    /\ ~MessageReady
    /\ receiving' = "idle"
    /\ UNCHANGED <<framed, wire, broken, buffer, unframed>>

RecvFails ==
    /\ receiving = "wait"
    /\ ~MessageReady
    /\ broken /\ wire = <<>>
    /\ receiving' = "ended"
    /\ UNCHANGED <<framed, wire, broken, buffer, unframed>>

-----------------------------------------------------------------------------
Receiver == Recv \/ Returns \/ RecvData \/ RecvTimeout \/ RecvFails

Next == Break \/ Receiver \/ \E data \in Contents : Send(data)

Spec == Init /\ [][Next]_vars

(* Recv returns the messages that were sent, whole and in their order,     *)
(* however the stream is cut into pieces and wherever a timeout falls; it  *)
(* may lose only the last ones, when the stream breaks (framer.go).        *)
FramesRelay == INSTANCE Relay WITH source <- framed, sink <- unframed
FramesAreRelayed == FramesRelay!Spec
=============================================================================
