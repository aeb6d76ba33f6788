------------------------------ MODULE Streams -------------------------------
(***************************************************************************)
(* Stream connections (pkg/netceptor/conn.go): one listener, the calls of  *)
(* DialContext that reach it, and the goroutines both sides start to end   *)
(* what is no longer used.  The QUIC connection between the two sides is   *)
(* external: "none", "up" or "down".                                       *)
(***************************************************************************)
EXTENDS Naturals

CONSTANT Conns    \* calls of DialContext

VARIABLES
    dial,       \* the call: "idle", "quic", "stream", "write", "ok" or "failed"
    packet,     \* its PacketConn is in the listenerRegistry
    cctx,       \* cctx is live
    watch,      \* the goroutine that waits for okChan
    dlife,      \* the goroutine that waits for the connection to end
    ddone,      \* doneChan of the dialled Conn is closed
    dctx,       \* the context of the dialling node
    quic,
    serve,      \* the listener's goroutine for the connection
    conn,       \* the accepted Conn: "none", "open" or "closed" (its doneChan)
    cancel,     \* its connCtx was cancelled as the dialler is unreachable
    alife,      \* the goroutine that ends it
    listener,   \* "open", "done" (DoneChan is closed) or "closed" (its PacketConn too)
    accepting,  \* AcceptLoop runs
    lctx        \* the context of the listening node

dialler == <<dial, packet, cctx, watch, dlife, ddone, dctx>>
acceptor == <<serve, conn, cancel, alife>>
service == <<listener, accepting, lctx>>
vars == <<dialler, quic, acceptor, service>>

Init ==
    /\ dial = [c \in Conns |-> "idle"]
    /\ packet = [c \in Conns |-> FALSE]
    /\ cctx = [c \in Conns |-> TRUE]
    /\ watch = [c \in Conns |-> "none"]
    /\ dlife = [c \in Conns |-> "none"]
    /\ ddone = [c \in Conns |-> FALSE]
    /\ dctx = TRUE
    /\ quic = [c \in Conns |-> "none"]
    /\ serve = [c \in Conns |-> "none"]
    /\ conn = [c \in Conns |-> "none"]
    /\ cancel = [c \in Conns |-> FALSE]
    /\ alife = [c \in Conns |-> "none"]
    /\ listener = "open" /\ accepting = TRUE /\ lctx = TRUE

-----------------------------------------------------------------------------
(* DialContext.                                                            *)
DialContext(c) ==
    /\ dial[c] = "idle"
    /\ dial' = [dial EXCEPT ![c] = "quic"]
    /\ packet' = [packet EXCEPT ![c] = TRUE]
    /\ watch' = [watch EXCEPT ![c] = "wait"]
    /\ UNCHANGED <<cctx, dlife, ddone, dctx, quic, acceptor, service>>

(* The caller's context ends, or MonitorUnreachable hears that the service *)
(* is not known there.                                                     *)
DialCancelled(c) ==
    /\ dial[c] # "idle"
    /\ cctx[c]
    /\ cctx' = [cctx EXCEPT ![c] = FALSE]
    /\ UNCHANGED <<dial, packet, watch, dlife, ddone, dctx, quic, acceptor, service>>

(* The first goroutine: the PacketConn is closed unless okChan is.  If     *)
(* both can be received from, either happens.                              *)
WatchCloses(c) ==
    /\ watch[c] = "wait"
    /\ ~cctx[c] \/ ~dctx
    /\ watch' = [watch EXCEPT ![c] = "done"]
    /\ packet' = [packet EXCEPT ![c] = FALSE]
    /\ UNCHANGED <<dial, cctx, dlife, ddone, dctx, quic, acceptor, service>>

WatchEnds(c) ==
    /\ watch[c] = "wait"
    /\ dial[c] \in {"ok", "failed"}
    /\ watch' = [watch EXCEPT ![c] = "done"]
    /\ UNCHANGED <<dial, packet, cctx, dlife, ddone, dctx, quic, acceptor, service>>

(* The handshake.  The listening node accepts it by itself, the AcceptLoop *)
(* takes the connection.                                                   *)
QuicConnects(c) ==
    /\ dial[c] = "quic" /\ packet[c] /\ cctx[c]
    /\ listener # "closed" /\ lctx
    /\ dial' = [dial EXCEPT ![c] = "stream"]
    /\ quic' = [quic EXCEPT ![c] = "up"]
    /\ serve' = [serve EXCEPT ![c] = IF accepting THEN "stream" ELSE "none"]
    /\ UNCHANGED <<packet, cctx, watch, dlife, ddone, dctx, conn, cancel, alife, service>>

(* The dial returns an error, having closed the PacketConn.                *)
DialReturnsError(c) ==
    /\ dial' = [dial EXCEPT ![c] = "failed"]
    /\ packet' = [packet EXCEPT ![c] = FALSE]
    /\ UNCHANGED <<cctx, watch, dlife, ddone, dctx, acceptor, service>>

(* No answer within HandshakeIdleTimeout, or cctx is done.                 *)
QuicFails(c) == dial[c] = "quic" /\ DialReturnsError(c) /\ UNCHANGED quic

OpenStream(c) ==
    /\ dial[c] = "stream" /\ quic[c] = "up" /\ cctx[c]
    /\ dial' = [dial EXCEPT ![c] = "write"]
    /\ UNCHANGED <<packet, cctx, watch, dlife, ddone, dctx, quic, acceptor, service>>

(* Faulty variant: the PacketConn is left open.                            *)
OpenStreamFailsOpen(c) ==
    /\ dial[c] = "stream" /\ (quic[c] = "down" \/ ~cctx[c])
    /\ quic' = [quic EXCEPT ![c] = "down"]
    /\ dial' = [dial EXCEPT ![c] = "failed"]
    /\ UNCHANGED <<packet, cctx, watch, dlife, ddone, dctx, acceptor, service>>

OpenStreamFails(c) ==
    /\ dial[c] = "stream" /\ (quic[c] = "down" \/ ~cctx[c])
    /\ quic' = [quic EXCEPT ![c] = "down"]
    /\ DialReturnsError(c)

(* A byte is written for AcceptStream to return on the other side.         *)
WriteByte(c) ==
    /\ dial[c] = "write" /\ quic[c] = "up"
    /\ dial' = [dial EXCEPT ![c] = "ok"]
    /\ dlife' = [dlife EXCEPT ![c] = "wait"]
    /\ UNCHANGED <<packet, cctx, watch, ddone, dctx, quic, acceptor, service>>

WriteFails(c) == dial[c] = "write" /\ quic[c] = "down" /\ DialReturnsError(c) /\ UNCHANGED quic

(* The second goroutine: the PacketConn is closed with the connection,     *)
(* unless the Conn was closed before.                                      *)
DialledEnds(c) ==
    /\ dlife[c] = "wait"
    /\ quic[c] = "down" \/ ~dctx
    /\ dlife' = [dlife EXCEPT ![c] = "done"]
    /\ packet' = [packet EXCEPT ![c] = FALSE]
    /\ UNCHANGED <<dial, cctx, watch, ddone, dctx, quic, acceptor, service>>

DialledDone(c) ==
    /\ dlife[c] = "wait"
    /\ ddone[c]
    /\ dlife' = [dlife EXCEPT ![c] = "done"]
    /\ UNCHANGED <<dial, packet, cctx, watch, ddone, dctx, quic, acceptor, service>>

(* Conn.Close closes the stream's writing side, CloseConnection the QUIC   *)
(* connection too.                                                         *)
CloseDialled(c) ==
    /\ dial[c] = "ok"
    /\ ~ddone[c]
    /\ ddone' = [ddone EXCEPT ![c] = TRUE]
    /\ \/ UNCHANGED quic
       \/ quic' = [quic EXCEPT ![c] = "down"]
    /\ UNCHANGED <<dial, packet, cctx, watch, dlife, dctx, acceptor, service>>

-----------------------------------------------------------------------------
(* AcceptLoop's goroutine for a connection.                                *)
ServeTo(c, where) == serve' = [serve EXCEPT ![c] = where]

(* The stream was opened and its first byte read: the Conn is made, and    *)
(* the goroutine that ends it is started.                                  *)
AcceptStream(c) ==
    /\ serve[c] = "stream"
    /\ listener = "open"
    /\ quic[c] = "up" /\ dial[c] = "ok"
    /\ ServeTo(c, "send")
    /\ conn' = [conn EXCEPT ![c] = "open"]
    /\ alife' = [alife EXCEPT ![c] = "wait"]
    /\ UNCHANGED <<dialler, quic, cancel, service>>

(* The listener was closed, or the stream did not come within 60 s.        *)
AcceptStreamGivesUp(c) ==
    /\ serve[c] = "stream"
    /\ ServeTo(c, "done")
    /\ quic' = [quic EXCEPT ![c] = "down"]
    /\ UNCHANGED <<dialler, conn, cancel, alife, service>>

AcceptStreamFails(c) ==
    /\ serve[c] = "stream"
    /\ listener = "open"
    /\ quic[c] = "down" \/ ~lctx
    /\ ServeTo(c, "send")
    /\ quic' = [quic EXCEPT ![c] = "down"]
    /\ UNCHANGED <<dialler, conn, cancel, alife, service>>

(* SendResult: Accept takes the Conn or the error; or the listener or the  *)
(* node ends, or the 60 s are over, and a Conn is kept by no one.          *)
SendResult(c) ==
    /\ serve[c] = "send"
    /\ ServeTo(c, "taken") \/ ServeTo(c, "done")
    /\ UNCHANGED <<dialler, quic, conn, cancel, alife, service>>

(* Faulty variant: only the connection's own end is waited for.            *)
AcceptedEndsAlone(c) ==
    /\ alife[c] = "wait"
    /\ cancel[c] \/ ~lctx
    /\ alife' = [alife EXCEPT ![c] = "done"]
    /\ conn' = [conn EXCEPT ![c] = "closed"]
    /\ UNCHANGED <<dialler, quic, serve, cancel, service>>

(* The goroutine that ends an accepted Conn.                               *)
AcceptedEnds(c) ==
    /\ alife[c] = "wait"
    /\ listener # "open" \/ cancel[c] \/ ~lctx
    /\ alife' = [alife EXCEPT ![c] = "done"]
    /\ conn' = [conn EXCEPT ![c] = "closed"]
    /\ UNCHANGED <<dialler, quic, serve, cancel, service>>

AcceptedDone(c) ==
    /\ alife[c] = "wait"
    /\ conn[c] = "closed"
    /\ alife' = [alife EXCEPT ![c] = "done"]
    /\ UNCHANGED <<dialler, quic, serve, conn, cancel, service>>

(* MonitorUnreachable of the accepted Conn.                                *)
AcceptedUnreachable(c) ==
    /\ conn[c] = "open" /\ ~cancel[c]
    /\ cancel' = [cancel EXCEPT ![c] = TRUE]
    /\ UNCHANGED <<dialler, quic, serve, conn, alife, service>>

CloseAccepted(c) ==
    /\ serve[c] = "taken" /\ conn[c] = "open"
    /\ conn' = [conn EXCEPT ![c] = "closed"]
    /\ \/ UNCHANGED quic
       \/ quic' = [quic EXCEPT ![c] = "down"]
    /\ UNCHANGED <<dialler, serve, cancel, alife, service>>

-----------------------------------------------------------------------------
(* Listener.Close, AcceptLoop's end, and the end of a node.                *)
ListenerDone ==
    /\ listener = "open"
    /\ listener' = "done"
    /\ UNCHANGED <<dialler, quic, acceptor, accepting, lctx>>

ListenerCloses ==
    /\ listener = "done"
    /\ listener' = "closed"
    /\ UNCHANGED <<dialler, quic, acceptor, accepting, lctx>>

AcceptLoopEnds ==
    /\ accepting
    /\ listener # "open" \/ ~lctx
    /\ accepting' = FALSE
    /\ UNCHANGED <<dialler, quic, acceptor, listener, lctx>>

Shutdown ==
    /\ \/ dctx /\ dctx' = FALSE /\ UNCHANGED lctx
       \/ lctx /\ lctx' = FALSE /\ UNCHANGED dctx
    /\ UNCHANGED <<dial, packet, cctx, watch, dlife, ddone, quic, acceptor, listener, accepting>>

(* External: a connection over which nothing comes any more times out.     *)
Silent(c) == ~packet[c] \/ listener = "closed" \/ ~dctx \/ ~lctx

QuicTimeout(c) ==
    /\ quic[c] = "up"
    /\ Silent(c)
    /\ quic' = [quic EXCEPT ![c] = "down"]
    /\ UNCHANGED <<dialler, acceptor, service>>

-----------------------------------------------------------------------------
Step(c) ==
    \/ WatchCloses(c) \/ WatchEnds(c) \/ DialledEnds(c) \/ DialledDone(c)
    \/ QuicConnects(c) \/ QuicFails(c) \/ OpenStream(c) \/ OpenStreamFails(c)
    \/ WriteByte(c) \/ WriteFails(c) \/ QuicTimeout(c)
    \/ AcceptStream(c) \/ AcceptStreamGivesUp(c) \/ AcceptStreamFails(c) \/ SendResult(c)
    \/ AcceptedEnds(c) \/ AcceptedDone(c)

User(c) == DialContext(c) \/ DialCancelled(c) \/ CloseDialled(c) \/ CloseAccepted(c) \/ AcceptedUnreachable(c)

Next == (\E c \in Conns : Step(c) \/ User(c)) \/ ListenerDone \/ ListenerCloses \/ AcceptLoopEnds \/ Shutdown

Fairness ==
    /\ WF_vars(ListenerCloses) /\ WF_vars(AcceptLoopEnds)
    /\ \A c \in Conns : WF_vars(Step(c))

Spec == Init /\ [][Next]_vars /\ Fairness

-----------------------------------------------------------------------------
(* A dial that has failed leaves no ephemeral service behind, wherever it  *)
(* failed and whichever goroutine was first to close it (DialContext).     *)
FailedDialIsClean == \A c \in Conns : dial[c] = "failed" => ~packet[c]

(* DialContext returns, however the listener and the nodes end meanwhile.  *)
DialReturns == \A c \in Conns : dial[c] = "quic" ~> dial[c] \in {"ok", "failed"}

(* Once the listener is closed, every Conn it has made is closed, also one *)
(* that Accept never took (AcceptLoop, SendResult).                        *)
ListenerReleases == \A c \in Conns : listener # "open" ~> conn[c] # "open" /\ serve[c] # "stream"
=============================================================================
