----------------------------- MODULE MCServices -----------------------------
(***************************************************************************)
(* The ways into and out of the mesh, side by side: the backends and their *)
(* reload (Backends), the path of a message through a session (Link),      *)
(* framing on a byte stream (Framing), stream connections (Streams), and   *)
(* the proxies and routers that use them (Proxy, DatagramProxy, IPRouter). *)
(*                                                                         *)
(* Each behaviour is one of the part named at its start; the other parts   *)
(* keep their initial state.                                               *)
(***************************************************************************)
EXTENDS Naturals, Sequences

CONSTANTS
    Dialers, Redialers, TCPListeners, UDPListeners, WSListeners, Externals,
    Configurations, Peers, Items, Added, MaxReloads,         \* of Backends
    Messages, Buffer,                                        \* of Link
    Base, Contents, MaxMessages,                             \* of Framing
    Conns,                                                   \* of Streams
    Total,                                                   \* of Proxy
    Clients, Services, Ports, Stranger, Proxied, None,       \* of DatagramProxy
    Routers, Self, MaxChanges                                \* of IPRouter

AnyLength == {<<>>, <<1>>, <<1, 0>>, <<0, 1, 1>>}   \* of two binary digits
Networks == {{1}, {1, 2}, {9}}                     \* one inside another, one inside Local
Local == {8, 9}
LinkLocal == {12}

VARIABLES
    part,                                                    \* the part that runs
    ctx, start, peer, registry, loop, running, socket, wg, pc, todo, marked, reloads,
    kind, posted, queue, sctx, writer, flight, down, bctx, rctx, protocol, between, held,
    reader, buf, taken,
    framed, wire, broken, buffer, receiving, unframed,
    dial, packet, cctx, watch, dlife, ddone, dctx, quic, serve, conn, cancel, alife,
    listener, accepting, lctx,
    phase, entry, sent, eof, gone, closed, half, read, got,
    datagrams, inMap, outMap, inLoop, outLoop, answers,
    advertised, cost, reachable, knownRoutes, kernel, watcher, sending, changes

Back == INSTANCE Backends
Path == INSTANCE Link
Frame == INSTANCE Framing
Stream == INSTANCE Streams
Bridge == INSTANCE Proxy
Datagram == INSTANCE DatagramProxy
Router == INSTANCE IPRouter

ASSUME BackendsAssumption == Back!BackendsAssumption
ASSUME LinkAssumption == Path!LinkAssumption
ASSUME FramingAssumption == Frame!FramingAssumption
ASSUME ProxyAssumption == Bridge!ProxyAssumption
ASSUME DatagramAssumption == Datagram!DatagramAssumption

backendVars == <<ctx, start, peer, registry, loop, running, socket, wg, pc, todo, marked,
                 reloads>>
linkVars == <<kind, posted, queue, sctx, writer, flight, down, bctx, rctx, protocol, between,
              held, reader, buf, taken>>
frameVars == <<framed, wire, broken, buffer, receiving, unframed>>
streamVars == <<dial, packet, cctx, watch, dlife, ddone, dctx, quic, serve, conn, cancel,
                alife, listener, accepting, lctx>>
bridgeVars == <<phase, entry, sent, eof, gone, closed, half, read, got>>
datagramVars == <<datagrams, inMap, outMap, inLoop, outLoop, answers>>
routerVars == <<advertised, cost, reachable, knownRoutes, kernel, watcher, sending, changes>>
vars == <<part, backendVars, linkVars, frameVars, streamVars, bridgeVars, datagramVars,
          routerVars>>

Init ==
    /\ part \in {"backends", "link", "framing", "streams", "proxy", "datagrams", "router"}
    /\ Back!Init /\ Path!Init /\ Frame!Init /\ Stream!Init /\ Bridge!Init /\ Datagram!Init
    /\ Router!Init
    /\ part # "backends" => todo = CHOOSE c \in Configurations : TRUE
    /\ part # "link" => kind = "tcp"

Next ==
    \/ /\ part = "backends" /\ Back!Next
       /\ UNCHANGED <<part, linkVars, frameVars, streamVars, bridgeVars, datagramVars,
                      routerVars>>
    \/ /\ part = "link" /\ Path!Next
       /\ UNCHANGED <<part, backendVars, frameVars, streamVars, bridgeVars, datagramVars,
                      routerVars>>
    \/ /\ part = "framing" /\ Frame!Next
       /\ UNCHANGED <<part, backendVars, linkVars, streamVars, bridgeVars, datagramVars,
                      routerVars>>
    \/ /\ part = "streams" /\ Stream!Next
       /\ UNCHANGED <<part, backendVars, linkVars, frameVars, bridgeVars, datagramVars,
                      routerVars>>
    \/ /\ part = "proxy" /\ Bridge!Next
       /\ UNCHANGED <<part, backendVars, linkVars, frameVars, streamVars, datagramVars,
                      routerVars>>
    \/ /\ part = "datagrams" /\ Datagram!Next
       /\ UNCHANGED <<part, backendVars, linkVars, frameVars, streamVars, bridgeVars,
                      routerVars>>
    \/ /\ part = "router" /\ Router!Next
       /\ UNCHANGED <<part, backendVars, linkVars, frameVars, streamVars, bridgeVars,
                      datagramVars>>

(* The fairness of each part, for the one that runs.                       *)
Fairness ==
    /\ WF_backendVars(part = "backends" /\ Back!Reload)
    /\ \A b \in Back!Backends :
          /\ WF_backendVars(part = "backends" /\ Back!Goroutine(b))
          /\ WF_backendVars(part = "backends" /\ Back!LoopReturns(b))
          /\ WF_backendVars(part = "backends" /\ Back!Cancelled(b))
    /\ WF_linkVars(part = "link" /\ Path!Writer)
    /\ WF_linkVars(part = "link" /\ Path!WriterDone)
    /\ WF_linkVars(part = "link" /\ Path!Reader)
    /\ WF_linkVars(part = "link" /\ Path!Between)
    /\ WF_linkVars(part = "link" /\ Path!BetweenDone)
    /\ WF_linkVars(part = "link" /\ Path!SeesDone)
    /\ WF_streamVars(part = "streams" /\ Stream!ListenerCloses)
    /\ WF_streamVars(part = "streams" /\ Stream!AcceptLoopEnds)
    /\ \A c \in Conns : WF_streamVars(part = "streams" /\ Stream!Step(c))
    /\ \A s \in Bridge!Sides :
          /\ WF_bridgeVars(part = "proxy" /\ Bridge!Half(s))
          /\ WF_bridgeVars(part = "proxy" /\ Bridge!PeerAnswers(s))
    /\ WF_routerVars(part = "router" /\ Router!Watcher)
    /\ SF_routerVars(part = "router" /\ Router!ReconcileAll)
    /\ WF_routerVars(part = "router" /\ Router!Delivered)

Spec == Init /\ [][Next]_vars /\ Fairness

-----------------------------------------------------------------------------
(* Backends: when the backends of a new configuration are started, no loop *)
(* and no session of the old ones is left (CancelBackends).                *)
ReloadIsClean == Back!ReloadIsClean

(* Backends, Link: CancelBackends returns, wherever the goroutines are     *)
(* when their contexts are cancelled (AddBackend, dialerSession), and the  *)
(* goroutines between socket and protocol end, whatever they hold          *)
(* (protoWriter, recvChannelizer).                                         *)
CancelReturns == Back!CancelReturns /\ Path!ThreadsEnd

(* Backends: one that redials dials again whenever its session has ended,  *)
(* until it is cancelled (dialerSession).                                  *)
Redials == Back!Redials

(* Link, Framing, Proxy: what is sent over a session, a stream of frames   *)
(* or through either direction of a bridge comes out whole, in order and   *)
(* once, wherever the stream is cut, timeouts fall and goroutines are      *)
(* (protoReader, recvChannelizer, framer.go, bridgeHalf).                  *)
StreamsAreRelayed == Path!LinkRelays /\ Frame!FramesAreRelayed /\ Bridge!BridgeRelays

(* Streams: a dial that has failed leaves no ephemeral service behind,     *)
(* wherever it failed (DialContext).                                       *)
FailedDialIsClean == Stream!FailedDialIsClean

(* Streams: DialContext returns, however listener and nodes end meanwhile, *)
(* and once the listener is closed every Conn it has made is closed, also  *)
(* one that Accept never took (AcceptLoop, SendResult).                    *)
StreamsSettle == Stream!DialReturns /\ Stream!ListenerReleases

(* Proxy: when one half of a bridge has ended, so does the other, and      *)
(* BridgeConns returns.                                                    *)
BridgeReturns == Bridge!BridgeReturns

(* DatagramProxy: a client gets only answers to its own questions          *)
(* (connMap, processInboundPacket).                                        *)
AnswersAreForTheAsker == Datagram!AnswersAreForTheAsker

(* IPRouter: when the mesh has changed for the last time, the kernel gets  *)
(* the routes that nodes within reach advertise, keeps of the others only  *)
(* those that begin in the local networks, and packets go where their      *)
(* destination is advertised (runAdvertisingWatcher).                      *)
RoutesFollow == part = "router" => Router!RoutesFollow
=============================================================================
