-------------------------------- MODULE Link --------------------------------
(***************************************************************************)
(* One direction of a session, from WriteChan of the sending node to       *)
(* runProtocol of the receiving one: protoWriter and protoReader           *)
(* (pkg/netceptor/netceptor.go) over the sessions of pkg/backends.         *)
(*                                                                         *)
(* A TCP session and that of a UDP dialer read from the socket in Recv.    *)
(* Between a websocket and Recv is the goroutine recvChannelizer, between  *)
(* a UDP listener and Recv the listener's only reader.  That Recv times    *)
(* out and protoReader calls it again is no step.  The bytes of a TCP      *)
(* stream are the subject of Framing.                                      *)
(***************************************************************************)
EXTENDS Naturals, Sequences

CONSTANTS
    Messages,   \* how many are sent
    Buffer      \* writeChanBufferSize

LinkAssumption == Messages \in Nat /\ Buffer \in Nat

Ordered == {"tcp", "websocket"}
Channelled == {"websocket", "udp listener"}
Kinds == Ordered \cup Channelled \cup {"udp dialer"}

Nothing == 0          \* no message; the messages are 1, 2, ...
Error == Messages + 1 \* what ReadMessage returns of a connection that is closed

VARIABLES
    kind,      \* of the receiver's session
    posted,    \* messages that were put into WriteChan
    queue,     \* WriteChan
    sctx,      \* the sender's ci.Context is done
    writer,    \* protoWriter runs
    flight,    \* on their way
    down,      \* the sender has closed the connection, or it is broken
    bctx,      \* the context of the receiver's backend is done
    rctx,      \* the receiver's ci.Context is done
    protocol,  \* the receiver's runProtocol runs; when it returns it closes the session
    between,   \* recvChannelizer or the UDP reader: "none", "read", "hand" or "ended"
    held,      \* what it hands over
    reader,    \* protoReader: "recv", "give" or "ended"
    buf,       \* what it gives to runProtocol
    taken      \* messages that runProtocol got

sender == <<posted, queue, sctx, writer>>
wire == <<flight, down>>
receiver == <<bctx, rctx, protocol>>
threads == <<between, held, reader, buf, taken>>
vars == <<kind, sender, wire, receiver, threads>>

Init ==
    /\ kind \in Kinds
    /\ posted = <<>> /\ queue = <<>> /\ sctx = FALSE /\ writer = TRUE
    /\ flight = <<>> /\ down = FALSE
    /\ bctx = FALSE /\ rctx = FALSE /\ protocol = TRUE
    /\ between = IF kind \in Channelled THEN "read" ELSE "none"
    /\ held = Nothing /\ reader = "recv" /\ buf = Nothing /\ taken = <<>>

-----------------------------------------------------------------------------
(* The sending node.  Whoever has a message to send waits for room in      *)
(* WriteChan.                                                              *)
Post ==
    /\ Len(posted) < Messages
    /\ Len(queue) < Buffer
    /\ posted' = Append(posted, Len(posted) + 1)
    /\ queue' = Append(queue, Len(posted) + 1)
    /\ UNCHANGED <<kind, sctx, writer, wire, receiver, threads>>

WriterSends ==
    /\ writer /\ queue # <<>>
    /\ ~down
    /\ flight' = Append(flight, Head(queue))
    /\ queue' = Tail(queue)
    /\ UNCHANGED <<kind, posted, sctx, writer, down, receiver, threads>>

WriterFails ==
    /\ writer /\ queue # <<>>
    /\ down
    /\ queue' = Tail(queue)
    /\ sctx' = TRUE /\ writer' = FALSE
    /\ UNCHANGED <<kind, posted, wire, receiver, threads>>

(* What is still in WriteChan is dropped.                                  *)
WriterDone ==
    /\ writer /\ sctx
    /\ writer' = FALSE
    /\ queue' = <<>>
    /\ UNCHANGED <<kind, posted, sctx, wire, receiver, threads>>

(* runProtocol of the sender returns, with its context cancelled or, if it *)
(* rejects the peer, not, and closes the session; or the network fails.    *)
SenderEnds ==
    /\ ~down
    /\ down' = TRUE
    /\ sctx' \in {sctx, TRUE}
    /\ UNCHANGED <<kind, posted, queue, writer, flight, receiver, threads>>

(* Datagrams are lost; of a stream that is broken the end may be lost.     *)
Lose ==
    /\ flight # <<>>
    /\ \/ kind \notin Ordered /\ flight' = Tail(flight)
       \/ down /\ flight' = SubSeq(flight, 1, Len(flight) - 1)
    /\ UNCHANGED <<kind, sender, down, receiver, threads>>

-----------------------------------------------------------------------------
(* What the socket has for the receiver: the next message, or any if they  *)
(* are datagrams.                                                          *)
Arrives(i) ==
    /\ i \in 1 .. IF kind \in Ordered THEN 1 ELSE Len(flight)
    /\ flight # <<>>
    /\ flight' = SubSeq(flight, 1, i - 1) \o SubSeq(flight, i + 1, Len(flight))

(* An error of the socket: it is closed here, or at the other end.         *)
Fails == ~protocol \/ (down /\ (kind = "udp dialer" \/ (kind \in Ordered /\ flight = <<>>)))

Ends == reader' = "ended" /\ rctx' = TRUE

(* Recv of a TCP session or a UDP dialer.                                  *)
Recv ==
    /\ kind \notin Channelled
    /\ reader = "recv"
    /\ \/ /\ protocol
          /\ \E i \in DOMAIN flight : Arrives(i) /\ buf' = flight[i]
          /\ reader' = "give"
          /\ UNCHANGED rctx
       \/ Fails /\ Ends /\ UNCHANGED <<flight, buf>>
    /\ UNCHANGED <<kind, sender, down, bctx, protocol, between, held, taken>>

(* Faulty variant: what is held is replaced by the next message.           *)
ReadMessageOver ==
    /\ between \in {"read", "hand"} /\ protocol
    /\ \E i \in DOMAIN flight : Arrives(i) /\ held' = flight[i]
    /\ between' = "hand"
    /\ UNCHANGED <<kind, sender, down, receiver, reader, buf, taken>>

(* A session of a UDP listener that is closed is no longer in its registry *)
(* and gets nothing.                                                       *)
ReadMessage ==
    /\ between = "read"
    /\ \/ protocol /\ \E i \in DOMAIN flight : Arrives(i) /\ held' = flight[i]
       \/ kind = "websocket" /\ Fails /\ held' = Error /\ UNCHANGED flight
    /\ between' = "hand"
    /\ UNCHANGED <<kind, sender, down, receiver, reader, buf, taken>>

(* The backend's context is done; a UDP reader also sees it before it      *)
(* reads again.                                                            *)
BetweenDone ==
    /\ bctx
    /\ between = "hand" \/ (between = "read" /\ kind = "udp listener")
    /\ between' = "ended"
    /\ UNCHANGED <<kind, sender, wire, receiver, held, reader, buf, taken>>

(* recvChan: Recv of the session returns what the goroutine hands over.    *)
HandOver ==
    /\ between = "hand"
    /\ reader = "recv"
    /\ IF held = Error
       THEN between' = "ended" /\ Ends /\ UNCHANGED buf
       ELSE between' = "read" /\ reader' = "give" /\ buf' = held /\ UNCHANGED rctx
    /\ UNCHANGED <<kind, sender, wire, bctx, protocol, held, taken>>

(* ReadChan.                                                               *)
Give ==
    /\ reader = "give"
    /\ protocol
    /\ taken' = Append(taken, buf)
    /\ reader' = "recv"
    /\ UNCHANGED <<kind, sender, wire, receiver, between, held, buf>>

GiveDone ==
    /\ reader = "give"
    /\ rctx
    /\ reader' = "ended"
    /\ UNCHANGED <<kind, sender, wire, receiver, between, held, buf, taken>>

-----------------------------------------------------------------------------
(* runProtocol of the receiver returns and closes the session; if it       *)
(* rejects the peer it does so without cancelling its context.             *)
ProtocolReturns ==
    /\ protocol
    /\ protocol' = FALSE
    /\ UNCHANGED <<kind, sender, wire, bctx, rctx, threads>>

SeesDone == protocol /\ rctx /\ ProtocolReturns

BackendCancelled ==
    /\ ~bctx
    /\ bctx' = TRUE /\ rctx' = TRUE
    /\ UNCHANGED <<kind, sender, wire, protocol, threads>>

-----------------------------------------------------------------------------
Writer == WriterSends \/ WriterFails \/ WriterDone
Reader == Recv \/ Give \/ GiveDone \/ HandOver
Between == ReadMessage \/ BetweenDone

Next ==
    \/ Post \/ Writer \/ SenderEnds \/ Lose \/ Reader \/ Between
    \/ ProtocolReturns \/ SeesDone \/ BackendCancelled

(* Goroutines go on; nobody has to send, close or cancel.                  *)
Fairness ==
    /\ WF_vars(Writer) /\ WF_vars(Reader) /\ WF_vars(Between)
    /\ WF_vars(WriterDone) /\ WF_vars(BetweenDone) /\ WF_vars(SeesDone)

Spec == Init /\ [][Next]_vars /\ Fairness

-----------------------------------------------------------------------------
TypeOK ==
    /\ kind \in Kinds
    /\ posted \in Seq(1 .. Messages) /\ queue \in Seq(1 .. Messages) /\ Len(queue) <= Buffer
    /\ {sctx, writer, down, bctx, rctx, protocol} \subseteq BOOLEAN
    /\ flight \in Seq(1 .. Messages)
    /\ between \in {"none", "read", "hand", "ended"} /\ held \in 0 .. Error
    /\ reader \in {"recv", "give", "ended"} /\ buf \in 0 .. Messages
    /\ taken \in Seq(1 .. Messages)

(* Over TCP and websockets the receiver's protocol gets the messages that  *)
(* were put into WriteChan, in their order, none twice and none left out;  *)
(* when the session ends the last ones may be missing (protoWriter,        *)
(* recvChannelizer, Recv, protoReader).                                    *)
LinkRelay == INSTANCE Relay
                WITH source <- posted, sink <- IF kind \in Ordered THEN taken ELSE <<>>
LinkRelays == LinkRelay!Spec

(* When its context is done, protoWriter ends.  When a backend is          *)
(* cancelled, so do recvChannelizer and the UDP reader, whatever they hold *)
(* and whether or not anybody calls Recv, and the protoReader of a session *)
(* whose Recv returns an error when it is closed.  The other protoReaders  *)
(* go on to time out: they do not look at the context.                     *)
ThreadsEnd ==
    /\ sctx ~> ~writer
    /\ bctx ~> /\ between \in {"none", "ended"}
               /\ kind \notin Channelled => reader = "ended"
=============================================================================
