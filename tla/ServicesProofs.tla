--------------------------- MODULE ServicesProofs ---------------------------
(***************************************************************************)
(* Proofs about the ways into and out of the mesh (MCServices), for any    *)
(* number of backends, messages, bytes, connections, clients and ports.    *)
(*                                                                         *)
(* Every part has an inductive invariant of its own; a step of the whole   *)
(* is a step of one part that leaves the others as they are (Parts).       *)
(***************************************************************************)
EXTENDS MCServices, FiniteSets, FiniteSetTheorems, SequenceTheorems, TLAPS

(* A step of the composition is one, or none, of every part.               *)
LEMMA Parts ==
    [Next]_vars => /\ [Back!Next]_backendVars /\ [Path!Next]_linkVars
                   /\ [Frame!Next]_frameVars /\ [Stream!Next]_streamVars
                   /\ [Bridge!Next]_bridgeVars /\ [Datagram!Next]_datagramVars
BY DEF Next, vars

-----------------------------------------------------------------------------
(* Backends: the wait group counts the goroutines and the loops.           *)
(* Where the goroutine of Start has a place in the wait group, and where   *)
(* it has not, and the same for the loop.                                  *)
Starting == {"dial", "offer", "serve", "delay", "accept", "read", "deliver"}
Stopped == {"none", "close", "done"}
Looping == {"select", "drain"}
At(f, places) == {b \in Back!Backends : f[b] \in places}

Inactive(b) == loop[b] \in {"none", "done"} /\ running[b] = {} /\ start[b] \in Stopped

BackIInv ==
    /\ start \in [Back!Backends -> Starting \cup Stopped]
    /\ loop \in [Back!Backends -> Looping \cup {"none", "done"}]
    /\ running = [b \in Back!Backends |-> running[b]]
    /\ todo \subseteq Back!Backends
    /\ wg = Cardinality(At(start, Starting)) + Cardinality(At(loop, Looping))
    /\ \A b \in Back!Backends : running[b] # {} => loop[b] \in Looping
    /\ pc = "start" => \A b \in todo : Inactive(b)

(* At most the place of backend b changes.                                 *)
Moved(f, g, b) ==
    /\ b \in Back!Backends
    /\ f = [c \in Back!Backends |-> f[c]]
    /\ g = [f EXCEPT ![b] = g[b]]

(* A backend whose place changes joins those counted, leaves them or       *)
(* neither.                                                                *)
LEMMA AtIs == \A f, V : IsFiniteSet(At(f, V)) /\ Cardinality(At(f, V)) \in Nat
<1> SUFFICES ASSUME NEW f, NEW V PROVE IsFiniteSet(At(f, V)) /\ Cardinality(At(f, V)) \in Nat
  OBVIOUS
<1>1. IsFiniteSet(Back!Backends)
  BY BackendsAssumption DEF Back!BackendsAssumption, Back!IsFiniteSet, IsFiniteSet
<1>2. At(f, V) \subseteq Back!Backends
  BY DEF At
<1> QED BY <1>1, <1>2, FS_Subset, FS_CardinalityType

(* A change of place that enters or leaves the counted places is counted,  *)
(* any other is not.                                                       *)
LEMMA AtMove ==
    ASSUME NEW f, NEW g, NEW b, NEW V, Moved(f, g, b)
    PROVE  /\ (f[b] \in V) = (g[b] \in V) => Cardinality(At(g, V)) = Cardinality(At(f, V))
           /\ f[b] \in V /\ g[b] \notin V => Cardinality(At(g, V)) = Cardinality(At(f, V)) - 1
           /\ f[b] \notin V /\ g[b] \in V => Cardinality(At(g, V)) = Cardinality(At(f, V)) + 1
<1> USE DEF Moved
<1>0. IsFiniteSet(At(f, V)) /\ Cardinality(At(f, V)) \in Nat
  BY AtIs
<1>1. CASE (f[b] \in V) = (g[b] \in V)
  <2>1. At(g, V) = At(f, V)
    BY <1>1 DEF At
  <2> QED BY <1>1, <2>1
<1>2. CASE f[b] \in V /\ g[b] \notin V
  <2>1. At(g, V) = At(f, V) \ {b} /\ b \in At(f, V)
    BY <1>2 DEF At
  <2>2. Cardinality(At(f, V) \ {b}) = Cardinality(At(f, V)) - 1
    BY <1>0, <2>1, FS_RemoveElement
  <2> QED BY <1>2, <2>1, <2>2
<1>3. CASE f[b] \notin V /\ g[b] \in V
  <2>1. At(g, V) = At(f, V) \cup {b} /\ b \notin At(f, V)
    BY <1>3 DEF At
  <2>2. Cardinality(At(f, V) \cup {b}) = Cardinality(At(f, V)) + 1
    BY <1>0, <2>1, FS_AddElement
  <2> QED BY <1>3, <2>1, <2>2
<1> QED BY <1>1, <1>2, <1>3

(* At start nothing is counted.                                            *)
LEMMA BackInit == Back!Init => BackIInv
<1> SUFFICES ASSUME Back!Init PROVE BackIInv
  OBVIOUS
<1>1. At(start, Starting) = {} /\ At(loop, Looping) = {}
  BY DEF Back!Init, At, Starting, Looping
<1>2. Cardinality(At(start, Starting)) = 0 /\ Cardinality(At(loop, Looping)) = 0
  BY <1>1, FS_EmptySet
<1> QED BY <1>2, BackendsAssumption
        DEF Back!Init, BackIInv, Back!BackendsAssumption, Starting, Stopped, Looping, Inactive

(* The goroutine of Start goes on, with a session taken or not.            *)
LEMMA StartGoesOn ==
    ASSUME BackIInv, NEW b \in Back!Backends, NEW v \in Starting,
           start[b] \in Starting, start' = [start EXCEPT ![b] = v],
           \/ UNCHANGED running
           \/ loop[b] = "select" /\ \E p : running' = [running EXCEPT ![b] = @ \cup {p}],
           UNCHANGED <<loop, wg, pc, todo>>
    PROVE  BackIInv'
<1>0. Moved(start, start', b)
  BY DEF BackIInv, Moved
<1>1. start[b] \in Starting /\ start'[b] \in Starting
  BY DEF BackIInv
<1>2. Cardinality(At(start', Starting)) = Cardinality(At(start, Starting))
  BY ONLY <1>0, <1>1, AtMove
<1> QED BY <1>2 DEF BackIInv, Inactive, Starting, Stopped, Looping

(* It returns and leaves the wait group.                                   *)
LEMMA StartReturns ==
    ASSUME BackIInv, NEW b \in Back!Backends, NEW v \in Stopped,
           start[b] \in Starting, start' = [start EXCEPT ![b] = v], wg' = wg - 1,
           UNCHANGED <<loop, running, pc, todo>>
    PROVE  BackIInv'
<1>0. Moved(start, start', b)
  BY DEF BackIInv, Moved
<1>a. start[b] \in Starting /\ start'[b] \notin Starting
  BY DEF BackIInv, Starting, Stopped
<1>1. Cardinality(At(start', Starting)) = Cardinality(At(start, Starting)) - 1
  BY ONLY <1>0, <1>a, AtMove
<1>2. Cardinality(At(start, Starting)) \in Nat /\ Cardinality(At(loop, Looping)) \in Nat
  BY AtIs DEF BackIInv
<1>3. wg' = Cardinality(At(start', Starting)) + Cardinality(At(loop', Looping))
  BY <1>1, <1>2 DEF BackIInv
<1> QED BY <1>3 DEF BackIInv, Inactive, Starting, Stopped

(* What a goroutine does by itself keeps the invariant.                    *)
LEMMA GoroutineStep ==
    ASSUME BackIInv, NEW b \in Back!Backends, Back!Goroutine(b)
    PROVE  BackIInv'
<1>1. CASE Back!LoopReturns(b)
  <2>0. Moved(loop, loop', b)
    BY <1>1 DEF BackIInv, Moved, Back!LoopReturns
  <2>a. loop[b] \in Looping /\ loop'[b] \in Looping
    BY <1>1 DEF BackIInv, Back!LoopReturns, Looping
  <2>1. Cardinality(At(loop', Looping)) = Cardinality(At(loop, Looping))
    BY ONLY <2>0, <2>a, AtMove
  <2> QED BY <1>1, <2>1 DEF BackIInv, Back!LoopReturns, Back!reload, Inactive, Looping, Stopped
<1>2. CASE Back!LoopEnds(b)
  <2>0. Moved(loop, loop', b)
    BY <1>2 DEF BackIInv, Moved, Back!LoopEnds
  <2>a. loop[b] \in Looping /\ loop'[b] \notin Looping
    BY <1>2 DEF BackIInv, Back!LoopEnds, Looping
  <2>1. Cardinality(At(loop', Looping)) = Cardinality(At(loop, Looping)) - 1
    BY ONLY <2>0, <2>a, AtMove
  <2>2. Cardinality(At(start, Starting)) \in Nat /\ Cardinality(At(loop, Looping)) \in Nat
    BY AtIs DEF BackIInv
  <2>3. wg' = Cardinality(At(start', Starting)) + Cardinality(At(loop', Looping))
    BY <1>2, <2>1, <2>2 DEF BackIInv, Back!LoopEnds
  <2> QED BY <1>2, <2>3 DEF BackIInv, Back!LoopEnds, Back!reload, Inactive, Looping, Stopped
<1>3. CASE Back!DialFails(b)
  BY <1>3, StartGoesOn, StartReturns DEF Back!DialFails, Back!StartTo, Back!DialerReturns,
     Back!reload, Starting, Stopped
<1>4. CASE Back!DialerOffers(b) \/ Back!ListenerOffers(b) \/ Back!UDPOffers(b)
  BY <1>4, StartGoesOn DEF Back!DialerOffers, Back!ListenerOffers, Back!UDPOffers, Back!Take,
     Back!reload, Starting
<1>5. CASE Back!DialerCancelled(b)
  BY <1>5, StartReturns DEF Back!DialerCancelled, Back!DialerReturns, Back!reload, Starting, Stopped
<1>6. CASE Back!SessionClosed(b)
  BY <1>6, StartGoesOn, StartReturns DEF Back!SessionClosed, Back!StartTo, Back!DialerReturns,
     Back!reload, Starting, Stopped
<1>7. CASE Back!Redial(b) \/ Back!UDPDelivers(b)
  BY <1>7, StartGoesOn DEF Back!Redial, Back!UDPDelivers, Back!StartTo, Back!reload, Starting
<1>8. CASE Back!ListenerReturns(b)
  BY <1>8, StartReturns DEF Back!ListenerReturns, Back!LeaveListener, Back!reload, Starting, Stopped
<1>9. CASE Back!UDPReturns(b) \/ Back!ServeReturns(b)
  BY <1>9, StartReturns DEF Back!UDPReturns, Back!ServeReturns, Back!reload, Starting, Stopped
<1>10. CASE Back!ListenerCloses(b)
  <2>0. Moved(start, start', b)
    BY <1>10 DEF BackIInv, Moved, Back!ListenerCloses
  <2>a. start[b] \notin Starting /\ start'[b] \notin Starting
    BY <1>10 DEF BackIInv, Back!ListenerCloses, Starting
  <2>1. Cardinality(At(start', Starting)) = Cardinality(At(start, Starting))
    BY ONLY <2>0, <2>a, AtMove
  <2> QED BY <1>10, <2>1 DEF BackIInv, Back!ListenerCloses, Back!reload, Inactive, Looping, Stopped
<1>11. ASSUME NEW p \in Peers, Back!ConnectionTaken(b, p) PROVE BackIInv'
  BY <1>11 DEF BackIInv, Back!ConnectionTaken, Back!Take, Back!reload, Inactive, Looping
<1> QED BY <1>1, <1>2, <1>3, <1>4, <1>5, <1>6, <1>7, <1>8, <1>9, <1>10, <1>11 DEF Back!Goroutine

(* What a peer or the network causes keeps it.                             *)
LEMMA ConnectionStep ==
    ASSUME BackIInv, NEW b \in Back!Backends, Back!Connection(b)
    PROVE  BackIInv'
<1>1. CASE Back!AcceptFails(b)
  BY <1>1, StartReturns DEF Back!AcceptFails, Back!LeaveListener, Back!reload, Starting, Stopped
<1>2. CASE Back!UDPReadFails(b)
  BY <1>2, StartReturns DEF Back!UDPReadFails, Back!reload, Starting, Stopped
<1>3. ASSUME NEW p \in Peers, Back!DialSucceeds(b, p) \/ Back!Accept(b, p) PROVE BackIInv'
  BY <1>3, StartGoesOn DEF Back!DialSucceeds, Back!Accept, Back!reload, Starting
<1>4. ASSUME NEW p \in Peers, Back!ReadFromUDP(b, p) PROVE BackIInv'
  BY <1>4, StartGoesOn DEF Back!ReadFromUDP, Back!reload, Starting
<1>5. ASSUME NEW p \in Peers, Back!NewConnection(b, p) PROVE BackIInv'
  BY <1>5 DEF BackIInv, Back!NewConnection, Back!reload, Inactive
<1>6. ASSUME NEW p \in Peers, Back!SessionEnds(b, p) PROVE BackIInv'
  BY <1>6 DEF BackIInv, Back!SessionEnds, Back!reload, Inactive
<1> QED BY <1>1, <1>2, <1>3, <1>4, <1>5, <1>6 DEF Back!Connection

(* So do AddBackend and CancelBackends: the wait group is 0 only when      *)
(* nothing is counted.                                                     *)
LEMMA ReloadStep == ASSUME BackIInv, Back!Reload PROVE BackIInv'
<1>1. ASSUME NEW b \in Back!Backends, Back!AddBackend(b) PROVE BackIInv'
  <2>0. Moved(loop, loop', b) /\ Moved(start, start', b)
    BY <1>1 DEF BackIInv, Moved, Back!AddBackend
  <2>1. b \in todo /\ Inactive(b)
    BY <1>1 DEF BackIInv, Back!AddBackend
  <2>2. IF b \in Externals THEN Back!First(b) = "done" ELSE Back!First(b) \in Starting
    <3> USE BackendsAssumption DEF Back!First, Back!BackendsAssumption, Starting
    <3>1. CASE b \in Dialers
      BY <3>1
    <3>2. CASE b \in TCPListeners
      BY <3>2
    <3>3. CASE b \in UDPListeners
      BY <3>3
    <3>4. CASE b \in WSListeners
      BY <3>4
    <3>5. CASE b \in Externals
      BY <3>5
    <3> QED BY <3>1, <3>2, <3>3, <3>4, <3>5 DEF Back!Backends
  <2>3. Cardinality(At(loop', Looping)) = Cardinality(At(loop, Looping)) + 1
    <3>1. loop[b] \notin Looping /\ loop'[b] \in Looping
      BY <1>1, <2>1 DEF BackIInv, Back!AddBackend, Inactive, Looping
    <3> QED BY ONLY <2>0, <3>1, AtMove
  <2>4. Cardinality(At(start', Starting)) =
          Cardinality(At(start, Starting)) + IF b \in Externals THEN 0 ELSE 1
    <3>1. start[b] \notin Starting /\ start'[b] = Back!First(b)
      BY <1>1, <2>1 DEF BackIInv, Back!AddBackend, Inactive, Starting, Stopped
    <3>2. CASE b \in Externals
      <4>1. start'[b] \notin Starting
        BY <2>2, <3>1, <3>2 DEF Starting
      <4>2. Cardinality(At(start', Starting)) = Cardinality(At(start, Starting))
        BY ONLY <2>0, <3>1, <4>1, AtMove
      <4> QED BY <3>2, <4>2, AtIs
    <3>3. CASE b \notin Externals
      <4>1. start'[b] \in Starting
        BY <2>2, <3>1, <3>3
      <4>2. Cardinality(At(start', Starting)) = Cardinality(At(start, Starting)) + 1
        BY ONLY <2>0, <3>1, <4>1, AtMove
      <4> QED BY <3>3, <4>2
    <3> QED BY <3>2, <3>3
  <2>5. Cardinality(At(start, Starting)) \in Nat /\ Cardinality(At(loop, Looping)) \in Nat
    BY AtIs DEF BackIInv
  <2>6. wg' = Cardinality(At(start', Starting)) + Cardinality(At(loop', Looping))
    BY <1>1, <2>3, <2>4, <2>5 DEF BackIInv, Back!AddBackend
  <2> QED BY <1>1, <2>2, <2>6 DEF BackIInv, Back!AddBackend, Inactive, Looping, Stopped
<1>2. ASSUME NEW b \in Back!Backends, Back!AddBackendFails(b) PROVE BackIInv'
  BY <1>2 DEF BackIInv, Back!AddBackendFails, Back!backend, Inactive
<1>3. CASE Back!BackendWaitReturns
  <2>1. Cardinality(At(start, Starting)) = 0 /\ Cardinality(At(loop, Looping)) = 0
    BY <1>3, AtIs DEF BackIInv, Back!BackendWaitReturns
  <2>2. IsFiniteSet(At(start, Starting)) /\ IsFiniteSet(At(loop, Looping))
    BY AtIs DEF BackIInv
  <2>3. At(start, Starting) = {} /\ At(loop, Looping) = {}
    BY <2>1, <2>2, FS_EmptySet
  <2>4. \A b \in Back!Backends : Inactive(b)
    BY <2>3 DEF BackIInv, At, Inactive
  <2> QED BY <1>3, <2>4 DEF BackIInv, Back!BackendWaitReturns, Back!backend, Inactive
<1>4. CASE Back!ReloadReturns
  BY <1>4 DEF BackIInv, Back!ReloadReturns, Back!backend, Inactive
<1> QED BY <1>1, <1>2, <1>3, <1>4 DEF Back!Reload

(* Every step of the backends keeps the invariant.                         *)
LEMMA BackStep == BackIInv /\ [Back!Next]_backendVars => BackIInv'
<1> SUFFICES ASSUME BackIInv, [Back!Next]_backendVars PROVE BackIInv'
  OBVIOUS
<1>1. CASE Back!Command
  <2>1. CASE \E list \in Back!Lists : Back!Refused(list)
    BY <2>1 DEF BackIInv, Back!Refused, Back!backend, Inactive
  <2>2. ASSUME NEW list \in Back!Lists, NEW new \in Configurations, Back!Accepted(list, new)
        PROVE  BackIInv'
    BY <2>2, BackendsAssumption DEF Back!BackendsAssumption, BackIInv, Back!Accepted, Inactive
  <2> QED BY <1>1, <2>1, <2>2 DEF Back!Command
<1>2. CASE UNCHANGED backendVars
  BY <1>2 DEF backendVars, BackIInv, Inactive
<1> QED BY <1>1, <1>2, ReloadStep, GoroutineStep, ConnectionStep DEF Back!Next

(* The invariant implies what is claimed of a reload.                      *)
LEMMA BackClean == BackIInv => Back!ReloadIsClean
BY DEF BackIInv, Inactive, Stopped, Back!ReloadIsClean

(* ReloadIsClean holds: CancelBackends has waited for every loop and every *)
(* goroutine when AddBackend is called for the new configuration.          *)
THEOREM ReloadClean == Spec => []ReloadIsClean
<1>1. Init => BackIInv
  BY BackInit DEF Init
<1>2. BackIInv /\ [Next]_vars => BackIInv'
  BY BackStep, Parts
<1>3. BackIInv => ReloadIsClean
  BY BackClean DEF ReloadIsClean
<1> QED BY <1>1, <1>2, <1>3, PTL DEF Spec

-----------------------------------------------------------------------------
(* Streams: a dial that has failed has closed its packet connection.       *)
DialClean == /\ dial \in [Conns -> {"idle", "quic", "stream", "write", "ok", "failed"}]
             /\ packet \in [Conns -> BOOLEAN]
             /\ Stream!FailedDialIsClean

(* No dial has begun.                                                      *)
LEMMA StreamInit == Stream!Init => DialClean
BY DEF Stream!Init, DialClean, Stream!FailedDialIsClean

(* Every step of a dial, a listener or a Conn keeps the invariant.         *)
LEMMA StreamStep == DialClean /\ [Stream!Next]_streamVars => DialClean'
<1> SUFFICES ASSUME DialClean, [Stream!Next]_streamVars PROVE DialClean'
  OBVIOUS
<1> USE DEF DialClean, Stream!FailedDialIsClean
<1>1. ASSUME UNCHANGED <<dial, packet>> PROVE DialClean'
  BY <1>1
<1>2. ASSUME NEW c \in Conns, Stream!Step(c) PROVE DialClean'
  <2>1. CASE Stream!WatchCloses(c) \/ Stream!DialledEnds(c)
    BY <2>1 DEF Stream!WatchCloses, Stream!DialledEnds
  <2>2. CASE Stream!QuicFails(c) \/ Stream!OpenStreamFails(c) \/ Stream!WriteFails(c)
    BY <2>2 DEF Stream!QuicFails, Stream!OpenStreamFails, Stream!WriteFails, Stream!DialReturnsError
  <2>3. CASE Stream!QuicConnects(c) \/ Stream!OpenStream(c) \/ Stream!WriteByte(c)
    BY <2>3 DEF Stream!QuicConnects, Stream!OpenStream, Stream!WriteByte
  <2>4. CASE UNCHANGED <<dial, packet>>
    BY <1>1, <2>4
  <2> QED BY <1>2, <2>1, <2>2, <2>3, <2>4 DEF Stream!Step, Stream!WatchEnds, Stream!DialledDone,
       Stream!QuicTimeout, Stream!AcceptStream, Stream!AcceptStreamGivesUp,
       Stream!AcceptStreamFails, Stream!SendResult, Stream!AcceptedEnds, Stream!AcceptedDone,
       Stream!dialler
<1>3. ASSUME NEW c \in Conns, Stream!User(c) PROVE DialClean'
  <2>1. CASE Stream!DialContext(c)
    BY <2>1 DEF Stream!DialContext
  <2>2. CASE UNCHANGED <<dial, packet>>
    BY <1>1, <2>2
  <2> QED BY <1>3, <2>1, <2>2 DEF Stream!User, Stream!DialCancelled, Stream!CloseDialled,
       Stream!CloseAccepted, Stream!AcceptedUnreachable, Stream!dialler
<1>4. CASE \/ Stream!ListenerDone \/ Stream!ListenerCloses \/ Stream!AcceptLoopEnds
           \/ Stream!Shutdown \/ UNCHANGED streamVars
  BY <1>1, <1>4 DEF Stream!ListenerDone, Stream!ListenerCloses, Stream!AcceptLoopEnds,
     Stream!Shutdown, Stream!dialler, streamVars
<1> QED BY <1>2, <1>3, <1>4 DEF Stream!Next

(* FailedDialIsClean holds: wherever DialContext fails, its ephemeral      *)
(* service is released.                                                    *)
THEOREM FailedDialClean == Spec => []FailedDialIsClean
<1>1. Init => DialClean
  BY StreamInit DEF Init
<1>2. DialClean /\ [Next]_vars => DialClean'
  BY StreamStep, Parts
<1>3. DialClean => FailedDialIsClean
  BY DEF DialClean, FailedDialIsClean
<1> QED BY <1>1, <1>2, <1>3, PTL DEF Spec

-----------------------------------------------------------------------------
(* DatagramProxy: from its addresses alone it follows whom a datagram is   *)
(* for.                                                                    *)
(* A question of x travels under mesh address a.                           *)
AskedAs(a, x) ==
    \/ a = Stranger /\ x = Stranger
    \/ a \in Services /\ x \in Clients /\ inMap[x] = a

(* A question of x travels under port q.                                   *)
AskedFrom(q, x) == q \in Ports /\ \E a \in Datagram!Senders : outMap[a] = q /\ AskedAs(a, x)

(* What is known of a datagram from its addresses.                         *)
Traced(d) ==
    /\ d.net = "udp" /\ d.to = "inbound" => d.from \in Clients /\ d.asker = d.from
    /\ d.net = "mesh" /\ d.to = Proxied => AskedAs(d.from, d.asker)
    /\ d.net = "udp" /\ d.to = "server" => AskedFrom(d.from, d.asker)
    /\ d.net = "udp" /\ d.to \notin {"inbound", "server"} => AskedFrom(d.to, d.asker)
    /\ d.net = "mesh" /\ d.from = Proxied => AskedAs(d.to, d.asker)
    /\ d.net = "mesh" => d.to # None

(* A map that gives no two addresses the same.                             *)
Distinct(map, S, K) ==
    /\ map \in [S -> K \cup {None}]
    /\ \A a, b \in S : map[a] = map[b] /\ map[a] # None => a = b

DatagramIInv ==
    /\ Distinct(inMap, Clients, Services)
    /\ Distinct(outMap, Datagram!Senders, Ports)
    /\ \A d \in datagrams : Traced(d)
    /\ Datagram!AnswersAreForTheAsker

(* Nothing has been sent.                                                  *)
LEMMA DatagramInit == Datagram!Init => DatagramIInv
BY DEF Datagram!Init, DatagramIInv, Distinct, Datagram!AnswersAreForTheAsker

(* A map that gives an address what was not in use stays one to one.       *)
LEMMA OfNew ==
    ASSUME NEW S, NEW K, None \notin K, NEW map, Distinct(map, S, K),
           NEW a \in S, Datagram!Available(a, map, K),
           NEW new, new = [map EXCEPT ![a] = Datagram!Of(a, map, K)]
    PROVE  /\ Distinct(new, S, K) /\ new[a] \in K
           /\ \A b \in S : map[b] # None => new[b] = map[b]
<1>1. CASE map[a] # None
  BY <1>1 DEF Datagram!Of, Distinct
<1>2. CASE map[a] = None
  <2>1. Datagram!Unused(map, K) # {}
    BY <1>2 DEF Datagram!Available
  <2>2. Datagram!Of(a, map, K) \in Datagram!Unused(map, K)
    BY <1>2, <2>1 DEF Datagram!Of
  <2> QED BY <1>2, <2>2 DEF Datagram!Unused, Distinct
<1> QED BY <1>1, <1>2

(* What is known of a datagram stays known: an address keeps what it has.  *)
LEMMA TracedStays ==
    ASSUME DatagramIInv,
           \A c \in Clients : inMap[c] # None => inMap'[c] = inMap[c],
           \A a \in Datagram!Senders : outMap[a] # None => outMap'[a] = outMap[a]
    PROVE  \A d : Traced(d) => Traced(d)'
<1> USE DatagramAssumption DEF Datagram!DatagramAssumption
<1>1. \A a, x : AskedAs(a, x) => AskedAs(a, x)'
  BY DEF AskedAs
<1>2. \A q, x : AskedFrom(q, x) => AskedFrom(q, x)'
  BY <1>1 DEF AskedFrom
<1> QED BY <1>1, <1>2 DEF Traced

(* Every step of clients, server, strangers and both halves keeps the      *)
(* invariant.                                                              *)
LEMMA DatagramStep == DatagramIInv /\ [Datagram!Next]_datagramVars => DatagramIInv'
<1> SUFFICES ASSUME DatagramIInv, [Datagram!Next]_datagramVars PROVE DatagramIInv'
  OBVIOUS
<1> USE DatagramAssumption DEF Datagram!DatagramAssumption
<1>a. ASSUME UNCHANGED <<inMap, outMap, answers>>,
             NEW d, Traced(d), datagrams' = datagrams \cup {d}
      PROVE  DatagramIInv'
  BY <1>a DEF DatagramIInv, Traced, AskedAs, AskedFrom, Datagram!AnswersAreForTheAsker
<1>1. ASSUME NEW c \in Clients, Datagram!Ask(c) PROVE DatagramIInv'
  <2>1. Traced(Datagram!Datagram("udp", c, "inbound", c))
    BY DEF Traced, Datagram!Datagram
  <2> QED BY <1>1, <1>a, <2>1 DEF Datagram!Ask, Datagram!Sends
<1>2. ASSUME NEW to \in Services \cup {Proxied}, Datagram!StrangerSends(to) PROVE DatagramIInv'
  <2>1. Traced(Datagram!Datagram("mesh", Stranger, to, Stranger))
    BY DEF Traced, Datagram!Datagram, AskedAs, Datagram!Senders
  <2> QED BY <1>2, <1>a, <2>1 DEF Datagram!StrangerSends, Datagram!Sends
<1>3. ASSUME NEW d \in datagrams, Datagram!Answer(d) PROVE DatagramIInv'
  <2>1. AskedFrom(d.from, d.asker)
    BY <1>3 DEF Traced, DatagramIInv, Datagram!Answer
  <2>2. d.from \in Ports
    BY <2>1 DEF AskedFrom
  <2>3. Traced(Datagram!Datagram("udp", "server", d.from, d.asker))
    BY <2>1, <2>2 DEF Traced, Datagram!Datagram
  <2> QED BY <1>3, <1>a, <2>3 DEF Datagram!Answer, Datagram!Sends
<1>4. ASSUME NEW d \in datagrams, Datagram!Inbound(d) PROVE DatagramIInv'
  <2>1. d.from \in Clients /\ d.asker = d.from
    BY <1>4 DEF DatagramIInv, Traced, Datagram!Inbound
  <2>2. /\ Distinct(inMap', Clients, Services)
        /\ inMap'[d.from] \in Services
        /\ \A c \in Clients : inMap[c] # None => inMap'[c] = inMap[c]
    <3>1. PICK a \in Clients : a = d.from
      BY <2>1
    <3>2. /\ Datagram!Available(a, inMap, Services)
          /\ inMap' = [inMap EXCEPT ![a] = Datagram!Of(a, inMap, Services)]
      BY <1>4, <3>1 DEF Datagram!Inbound
    <3>3. Distinct(inMap, Clients, Services) /\ None \notin Services
      BY DEF DatagramIInv
    <3>4. Distinct(inMap', Clients, Services)
      BY ONLY <3>2, <3>3, OfNew
    <3>5. inMap'[a] \in Services
      BY ONLY <3>2, <3>3, OfNew
    <3>6. ASSUME NEW b \in Clients, inMap[b] # None PROVE inMap'[b] = inMap[b]
      BY ONLY <3>2, <3>3, <3>6, OfNew
    <3> QED BY <3>1, <3>4, <3>5, <3>6
  <2>3. \A e : Traced(e) => Traced(e)'
    BY <1>4, <2>2, TracedStays DEF Datagram!Inbound
  <2>4. PICK s : s = inMap'[d.from]
    OBVIOUS
  <2>5. Traced(Datagram!Datagram("mesh", s, Proxied, d.asker))'
    <3>1. AskedAs(s, d.asker)'
      BY <1>4, <2>1, <2>2, <2>4 DEF AskedAs, Datagram!Inbound
    <3> QED BY <2>2, <2>4, <3>1 DEF Traced, Datagram!Datagram, Datagram!Senders
  <2>6. /\ datagrams' \subseteq datagrams \cup {Datagram!Datagram("mesh", s, Proxied, d.asker)}
        /\ UNCHANGED <<outMap, answers>>
    BY <1>4, <2>4 DEF Datagram!Inbound, Datagram!Sends, Datagram!Loses
  <2>7. \A e \in datagrams' : Traced(e)'
    BY <2>3, <2>5, <2>6 DEF DatagramIInv
  <2> QED BY <2>2, <2>6, <2>7 DEF DatagramIInv, Distinct, Datagram!AnswersAreForTheAsker
<1>5. ASSUME NEW d \in datagrams, Datagram!Outbound(d) PROVE DatagramIInv'
  <2>1. d.from \in Datagram!Senders /\ AskedAs(d.from, d.asker)
    BY <1>5 DEF DatagramIInv, Traced, Datagram!Outbound, AskedAs, Datagram!Senders
  <2>2. /\ Distinct(outMap', Datagram!Senders, Ports)
        /\ outMap'[d.from] \in Ports
        /\ \A a \in Datagram!Senders : outMap[a] # None => outMap'[a] = outMap[a]
    <3>1. PICK a \in Datagram!Senders : a = d.from
      BY <2>1
    <3>2. /\ Datagram!Available(a, outMap, Ports)
          /\ outMap' = [outMap EXCEPT ![a] = Datagram!Of(a, outMap, Ports)]
      BY <1>5, <3>1 DEF Datagram!Outbound
    <3>3. Distinct(outMap, Datagram!Senders, Ports) /\ None \notin Ports
      BY DEF DatagramIInv
    <3>4. Distinct(outMap', Datagram!Senders, Ports)
      BY ONLY <3>2, <3>3, OfNew
    <3>5. outMap'[a] \in Ports
      BY ONLY <3>2, <3>3, OfNew
    <3>6. ASSUME NEW b \in Datagram!Senders, outMap[b] # None PROVE outMap'[b] = outMap[b]
      BY ONLY <3>2, <3>3, <3>6, OfNew
    <3> QED BY <3>1, <3>4, <3>5, <3>6
  <2>3. \A e : Traced(e) => Traced(e)'
    BY <1>5, <2>2, TracedStays DEF Datagram!Outbound
  <2>4. PICK s : s = outMap'[d.from]
    OBVIOUS
  <2>5. Traced(Datagram!Datagram("udp", s, "server", d.asker))'
    <3>1. AskedAs(d.from, d.asker)'
      BY <1>5, <2>1 DEF AskedAs, Datagram!Outbound
    <3>2. AskedFrom(s, d.asker)'
      BY <2>1, <2>2, <2>4, <3>1 DEF AskedFrom
    <3> QED BY <2>2, <2>4, <3>2 DEF Traced, Datagram!Datagram
  <2>6. /\ datagrams' \subseteq datagrams \cup {Datagram!Datagram("udp", s, "server", d.asker)}
        /\ UNCHANGED <<inMap, answers>>
    BY <1>5, <2>4 DEF Datagram!Outbound, Datagram!Sends, Datagram!Loses
  <2>7. \A e \in datagrams' : Traced(e)'
    BY <2>3, <2>5, <2>6 DEF DatagramIInv
  <2> QED BY <2>2, <2>6, <2>7 DEF DatagramIInv, Distinct, Datagram!AnswersAreForTheAsker
<1>6. ASSUME NEW d \in datagrams, NEW c \in Clients, Datagram!ProcessInboundPacket(c, d)
      PROVE  DatagramIInv'
  <2>1. AskedAs(inMap[c], d.asker)
    BY <1>6 DEF DatagramIInv, Traced, Datagram!ProcessInboundPacket
  <2>2. inMap[c] # None
    BY <1>6 DEF DatagramIInv, Traced, Datagram!ProcessInboundPacket
  <2>3. d.asker = c
    BY <2>1, <2>2 DEF DatagramIInv, Distinct, AskedAs
  <2> QED BY <1>6, <2>3 DEF DatagramIInv, Traced, AskedAs, AskedFrom, Distinct,
          Datagram!ProcessInboundPacket, Datagram!AnswersAreForTheAsker
<1>7. ASSUME NEW d \in datagrams, NEW a \in Datagram!Senders, Datagram!ProcessOutboundPacket(a, d)
      PROVE  DatagramIInv'
  <2>1. outMap[a] \in Ports \cup {None} /\ outMap[a] = d.to /\ d.net = "udp"
    BY <1>7 DEF DatagramIInv, Distinct, Datagram!ProcessOutboundPacket
  <2>2. AskedFrom(d.to, d.asker)
    BY <2>1 DEF DatagramIInv, Traced
  <2>3. AskedAs(a, d.asker)
    BY <2>1, <2>2 DEF AskedFrom, Distinct, DatagramIInv
  <2>4. Traced(Datagram!Datagram("mesh", Proxied, a, d.asker))
    BY <2>3 DEF Traced, Datagram!Datagram, Datagram!Senders
  <2> QED BY <1>7, <1>a, <2>4 DEF Datagram!ProcessOutboundPacket, Datagram!Sends
<1>8. CASE Datagram!InboundFails \/ Datagram!OutboundFails \/ UNCHANGED datagramVars
  BY <1>8 DEF Datagram!InboundFails, Datagram!OutboundFails, datagramVars, DatagramIInv,
     Traced, AskedAs, AskedFrom, Distinct, Datagram!AnswersAreForTheAsker
<1> QED BY <1>1, <1>2, <1>3, <1>4, <1>5, <1>6, <1>7, <1>8 DEF Datagram!Next

(* AnswersAreForTheAsker holds: neither connMap gives two addresses the    *)
(* same socket or service, so that the way back is the way of the question.*)
THEOREM AnswersGoHome == Spec => []AnswersAreForTheAsker
<1>1. Init => DatagramIInv
  BY DatagramInit DEF Init
<1>2. DatagramIInv /\ [Next]_vars => DatagramIInv'
  BY DatagramStep, Parts
<1>3. DatagramIInv => AnswersAreForTheAsker
  BY DEF DatagramIInv, AnswersAreForTheAsker
<1> QED BY <1>1, <1>2, <1>3, PTL DEF Spec

-----------------------------------------------------------------------------
(* Streams of items 1, 2, 3, ...                                           *)
Count(n) == [i \in 1 .. n |-> i]

(* The sequence of the first n items.                                      *)
LEMMA CountSeq ==
    ASSUME NEW n \in Nat
    PROVE  Count(n) \in Seq(Nat) /\ Len(Count(n)) = n /\ \A i \in 1 .. n : Count(n)[i] = i
BY DEF Count

(* A prefix of it is such a sequence.                                      *)
LEMMA CountPrefix ==
    ASSUME NEW n \in Nat, NEW k \in 0 .. n
    PROVE  SubSeq(Count(n), 1, k) = Count(k)
BY CountSeq DEF Count

(* So is it with the next item.                                            *)
LEMMA CountAppend ==
    ASSUME NEW n \in Nat
    PROVE  Append(Count(n), n + 1) = Count(n + 1)
BY CountSeq DEF Count

(* One more item is produced, or one more passed on.                       *)
LEMMA CountedProduce ==
    ASSUME NEW n \in Nat
    PROVE  /\ Len(Count(n + 1)) > Len(Count(n))
           /\ SubSeq(Count(n + 1), 1, Len(Count(n))) = Count(n)
BY CountSeq, CountPrefix

(* One more item is passed on: what Relay allows.                          *)
LEMMA CountedPassOn ==
    ASSUME NEW n \in Nat, NEW k \in Nat, k < n
    PROVE  \E m \in k + 1 .. Len(Count(n)) : Count(k + 1) = SubSeq(Count(n), 1, m)
<1>1. Len(Count(n)) = n /\ k + 1 \in k + 1 .. n /\ k + 1 \in 0 .. n
  BY CountSeq
<1>2. Count(k + 1) = SubSeq(Count(n), 1, k + 1)
  BY <1>1, CountPrefix
<1> QED BY <1>1, <1>2

(* The messages k + 1, k + 2, ... in their order.                          *)
Run(s, k) == s \in Seq(Nat) /\ \A i \in 1 .. Len(s) : s[i] = k + i

(* The empty sequence continues any other.                                 *)
LEMMA RunEmpty == ASSUME NEW k \in Nat PROVE Run(<<>>, k) /\ Len(<<>>) = 0
BY DEF Run

(* The next message is put at the end.                                     *)
LEMMA RunAppend ==
    ASSUME NEW k \in Nat, NEW s, Run(s, k)
    PROVE  /\ Run(Append(s, k + Len(s) + 1), k)
           /\ Len(Append(s, k + Len(s) + 1)) = Len(s) + 1
BY DEF Run

(* The first message is taken.                                             *)
LEMMA RunTail ==
    ASSUME NEW k \in Nat, NEW s, Run(s, k), s # <<>>
    PROVE  /\ Head(s) = k + 1 /\ Run(Tail(s), k + 1)
           /\ Len(Tail(s)) = Len(s) - 1 /\ Len(s) \in Nat \ {0}
BY DEF Run

(* The last message is lost.                                               *)
LEMMA RunFront ==
    ASSUME NEW k \in Nat, NEW s, Run(s, k), s # <<>>
    PROVE  /\ Run(SubSeq(s, 1, Len(s) - 1), k) /\ Len(s) \in Nat \ {0}
           /\ Len(SubSeq(s, 1, Len(s) - 1)) = Len(s) - 1
<1>1. s \in Seq(Nat) /\ Len(s) \in Nat \ {0}
  BY DEF Run
<1>2. /\ SubSeq(s, 1, Len(s) - 1) \in Seq(Nat)
      /\ Len(SubSeq(s, 1, Len(s) - 1)) = Len(s) - 1
      /\ \A i \in 1 .. Len(s) - 1 : SubSeq(s, 1, Len(s) - 1)[i] = s[i]
  <2>1. PICK n \in Nat : n = Len(s) - 1
    BY <1>1
  <2>2. \A i \in 1 .. n : s[i] \in Nat
    BY <1>1, <2>1
  <2>3. /\ SubSeq(s, 1, n) \in Seq(Nat) /\ Len(SubSeq(s, 1, n)) = n
        /\ \A i \in 1 .. n : SubSeq(s, 1, n)[i] = s[i]
    BY <1>1, <2>2, <2>1, SubSeqProperties
  <2> QED BY <2>1, <2>3
<1> QED BY <1>1, <1>2 DEF Run

(* What arrives in order is the first message, and the rest stays.         *)
LEMMA RunNext ==
    ASSUME NEW k \in Nat, NEW s, Run(s, k), s # <<>>
    PROVE  SubSeq(s, 1, 1 - 1) \o SubSeq(s, 1 + 1, Len(s)) = Tail(s)
<1>1. s \in Seq(Nat) /\ Len(s) \in Nat /\ Len(s) >= 1
  BY DEF Run
<1>2. SubSeq(s, 1, 1 - 1) = <<>>
  BY <1>1
<1>3. SubSeq(s, 1 + 1, Len(s)) = Tail(s)
  BY <1>1
<1> QED BY <1>1, <1>2, <1>3

(* A run that begins with the first message is the sequence of all.        *)
LEMMA RunCount == ASSUME NEW s, Run(s, 0) PROVE s = Count(Len(s)) /\ Len(s) \in Nat
BY DEF Run, Count

-----------------------------------------------------------------------------
(* Proxy: each direction of a bridge implements Relay.                     *)
BridgeCopies ==
    \A s \in Bridge!Sides :
        /\ got[Bridge!Other(s)] = Count(Len(got[Bridge!Other(s)]))
        /\ read[s] <= sent[s]
        /\ Len(got[Bridge!Other(s)]) <= read[s]
        /\ half[s] \in {"none", "read"} => Len(got[Bridge!Other(s)]) = read[s]
        /\ half[s] = "write" => Len(got[Bridge!Other(s)]) + 1 = read[s]

BridgeTypes ==
    /\ sent \in [Bridge!Sides -> Nat]
    /\ read \in [Bridge!Sides -> Nat]
    /\ got \in [Bridge!Sides -> Seq(Nat)]
    /\ half \in [Bridge!Sides -> {"none", "read", "write", "close", "done"}]
    /\ phase \in {"accept", "dial"} => \A s \in Bridge!Sides : half[s] = "none"

BridgeIInv == BridgeTypes /\ BridgeCopies

(* Nothing has been copied.                                                *)
LEMMA BridgeInit == Bridge!Init => BridgeIInv
<1> SUFFICES ASSUME Bridge!Init PROVE BridgeIInv
  OBVIOUS
<1>1. BridgeTypes
  BY DEF Bridge!Init, BridgeTypes
<1>2. Count(0) = <<>>
  BY CountSeq DEF Count
<1>3. BridgeCopies
  BY <1>2 DEF Bridge!Init, BridgeCopies, Bridge!Sides, Bridge!Other
<1> QED BY <1>1, <1>3 DEF BridgeIInv

(* Every step of the peers and of bridgeHalf keeps the invariant.          *)
LEMMA BridgeStep == BridgeIInv /\ [Bridge!Next]_bridgeVars => BridgeIInv'
<1> SUFFICES ASSUME BridgeIInv, [Bridge!Next]_bridgeVars PROVE BridgeIInv'
  OBVIOUS
<1> USE DEF BridgeIInv, BridgeTypes, BridgeCopies, Bridge!Sides, Bridge!Other
<1>1. ASSUME UNCHANGED <<sent, got, read, half>>,
             phase' = phase \/ phase' \in {"dropped", "bridge"} \/ phase \in {"accept", "dial"}
      PROVE  BridgeIInv'
  BY <1>1
<1>2. CASE Bridge!Accept \/ Bridge!DialFails
  BY <1>1, <1>2 DEF Bridge!Accept, Bridge!Enters, Bridge!TCPProxyServiceInbound,
     Bridge!TCPProxyServiceOutbound, Bridge!UnixProxyServiceInbound,
     Bridge!UnixProxyServiceOutbound, Bridge!CommandService, Bridge!ConnectCommand,
     Bridge!DialFails
<1>3. CASE Bridge!Dial
  BY <1>3 DEF Bridge!Dial
<1>4. ASSUME NEW s \in Bridge!Sides, Bridge!PeerSends(s)
      PROVE  BridgeIInv'
  BY <1>4 DEF Bridge!PeerSends, Bridge!Connected
<1>5. ASSUME NEW s \in Bridge!Sides, Bridge!PeerEnds(s) \/ Bridge!PeerGone(s)
      PROVE  BridgeIInv'
  BY <1>1, <1>5 DEF Bridge!PeerEnds, Bridge!PeerGone
<1>6. ASSUME NEW s \in Bridge!Sides, Bridge!Read(s)
      PROVE  BridgeIInv'
  BY <1>6 DEF Bridge!Read
<1>7. ASSUME NEW s \in Bridge!Sides, Bridge!ReadEnds(s) \/ Bridge!CloseDestination(s)
      PROVE  BridgeIInv'
  BY <1>7 DEF Bridge!ReadEnds, Bridge!CloseDestination
<1>8. ASSUME NEW s \in Bridge!Sides, Bridge!Write(s)
      PROVE  BridgeIInv'
  <2> DEFINE o == Bridge!Other(s)
  <2>0. o \in Bridge!Sides /\ Len(got[o]) \in Nat
    OBVIOUS
  <2>1. CASE UNCHANGED got
    BY <1>8, <2>1 DEF Bridge!Write
  <2>2. CASE got' = [got EXCEPT ![o] = Append(@, read[s])] /\ half' = [half EXCEPT ![s] = "read"]
    <3>1. read[s] = Len(got[o]) + 1
      BY <1>8 DEF Bridge!Write
    <3>2. got'[o] = Append(Count(Len(got[o])), Len(got[o]) + 1)
      BY <2>2, <3>1
    <3>3. got'[o] = Count(Len(got[o]) + 1)
      BY <2>0, <3>2, CountAppend
    <3>4. Len(got'[o]) = Len(got[o]) + 1
      BY <2>0, <3>3, CountSeq
    <3>5. got'[s] = got[s] /\ got'[o] \in Seq(Nat) /\ s # o
      BY <2>2, <3>1
    <3>6. BridgeTypes'
      BY <1>8, <2>2 DEF Bridge!Write
    <3>7. BridgeCopies'
      <4> SUFFICES ASSUME NEW t \in Bridge!Sides
                   PROVE  /\ got'[Bridge!Other(t)] = Count(Len(got'[Bridge!Other(t)]))
                          /\ read'[t] <= sent'[t]
                          /\ Len(got'[Bridge!Other(t)]) <= read'[t]
                          /\ half'[t] \in {"none", "read"} => Len(got'[Bridge!Other(t)]) = read'[t]
                          /\ half'[t] = "write" => Len(got'[Bridge!Other(t)]) + 1 = read'[t]
        OBVIOUS
      <4>1. CASE t = s
        BY <1>8, <2>0, <2>2, <3>1, <3>3, <3>4, <4>1 DEF Bridge!Write
      <4>2. CASE t = o
        BY <1>8, <2>2, <3>5, <4>2 DEF Bridge!Write
      <4> QED BY <4>1, <4>2
    <3> QED BY <3>6, <3>7
  <2> QED BY <1>8, <2>1, <2>2 DEF Bridge!Write
<1>9. CASE UNCHANGED bridgeVars
  BY <1>1, <1>9 DEF bridgeVars
<1> QED BY <1>2, <1>3, <1>4, <1>5, <1>6, <1>7, <1>8, <1>9 DEF Bridge!Next, Bridge!Half


(* What a step does to the stream that comes from side s.                  *)
LEMMA BridgeEffect ==
    ASSUME BridgeIInv, [Bridge!Next]_bridgeVars, NEW s \in Bridge!Sides
    PROVE  LET o == Bridge!Other(s)
           IN  \/ sent'[s] = sent[s] /\ got'[o] = got[o]
               \/ sent'[s] = sent[s] + 1 /\ got'[o] = got[o]
               \/ /\ sent'[s] = sent[s]
                  /\ Len(got[o]) < sent[s]
                  /\ got'[o] = Count(Len(got[o]) + 1)
<1> DEFINE o == Bridge!Other(s)
<1> USE DEF BridgeIInv, BridgeTypes, Bridge!Sides, Bridge!Other
<1>1. ASSUME NEW t \in Bridge!Sides, Bridge!PeerSends(t)
      PROVE  (sent'[s] = sent[s] \/ sent'[s] = sent[s] + 1) /\ got'[o] = got[o]
  BY <1>1 DEF Bridge!PeerSends
<1>2. ASSUME NEW t \in Bridge!Sides, Bridge!Write(t), got' # got
      PROVE  /\ sent'[s] = sent[s]
             /\ got'[o] = got[o] \/ (Len(got[o]) < sent[s] /\ got'[o] = Count(Len(got[o]) + 1))
  <2>1. got' = [got EXCEPT ![Bridge!Other(t)] = Append(@, read[t])] /\ sent' = sent
    BY <1>2 DEF Bridge!Write
  <2>2. CASE s = t
    <3>1. read[s] = Len(got[o]) + 1 /\ read[s] <= sent[s] /\ got[o] = Count(Len(got[o]))
      BY <1>2, <2>2 DEF Bridge!Write, BridgeCopies
    <3>2. got'[o] = Append(got[o], read[s]) /\ Len(got[o]) \in Nat
      BY <2>1, <2>2
    <3>3. got'[o] = Append(Count(Len(got[o])), Len(got[o]) + 1)
      BY <3>1, <3>2
    <3>4. got'[o] = Count(Len(got[o]) + 1)
      BY <3>2, <3>3, CountAppend
    <3> QED BY <2>1, <3>1, <3>2, <3>4
  <2>3. CASE s # t
    BY <2>1, <2>3
  <2> QED BY <2>2, <2>3
<1>3. CASE UNCHANGED <<sent, got>>
  BY <1>3
<1>4. CASE ~UNCHANGED <<sent, got>>
  <2>1. \E t \in Bridge!Sides : Bridge!PeerSends(t) \/ (Bridge!Write(t) /\ got' # got)
    BY <1>4 DEF Bridge!Next, bridgeVars, Bridge!Accept, Bridge!Enters,
       Bridge!TCPProxyServiceInbound, Bridge!TCPProxyServiceOutbound,
       Bridge!UnixProxyServiceInbound, Bridge!UnixProxyServiceOutbound,
       Bridge!CommandService, Bridge!ConnectCommand, Bridge!DialFails, Bridge!Dial,
       Bridge!Half, Bridge!Read, Bridge!ReadEnds, Bridge!Write, Bridge!CloseDestination,
       Bridge!PeerEnds, Bridge!PeerGone
  <2> QED BY <1>1, <1>2, <2>1
<1> QED BY <1>3, <1>4

(* Every step is, for each direction, one of the relay, or none.           *)
LEMMA BridgeRefines ==
    ASSUME BridgeIInv, [Bridge!Next]_bridgeVars
    PROVE  /\ [Bridge!ToMesh!Next]_<<[i \in 1 .. sent["local"] |-> i], got["mesh"]>>
           /\ [Bridge!ToLocal!Next]_<<[i \in 1 .. sent["mesh"] |-> i], got["local"]>>
<1> USE DEF Bridge!Sides, Bridge!Other
<1>1. \A s \in Bridge!Sides : /\ sent[s] \in Nat /\ sent'[s] \in Nat
                             /\ Len(got[Bridge!Other(s)]) \in Nat
                             /\ got[Bridge!Other(s)] = Count(Len(got[Bridge!Other(s)]))
  BY BridgeStep DEF BridgeIInv, BridgeTypes, BridgeCopies
<1>2. [Bridge!ToMesh!Next]_<<Count(sent["local"]), got["mesh"]>>
  <2>1. CASE sent'["local"] = sent["local"] /\ got'["mesh"] = got["mesh"]
    BY <2>1
  <2>2. CASE sent'["local"] = sent["local"] + 1 /\ got'["mesh"] = got["mesh"]
    <3>1. Bridge!ToMesh!Produce
      BY <1>1, <2>2, CountedProduce DEF Bridge!ToMesh!Produce, Count
    <3> QED BY <3>1 DEF Bridge!ToMesh!Next
  <2>3. CASE /\ sent'["local"] = sent["local"] /\ Len(got["mesh"]) < sent["local"]
             /\ got'["mesh"] = Count(Len(got["mesh"]) + 1)
    <3>0. \E m \in Len(got["mesh"]) + 1 .. Len(Count(sent["local"])) :
              got'["mesh"] = SubSeq(Count(sent["local"]), 1, m)
      <4>1. sent["local"] \in Nat /\ Len(got["mesh"]) \in Nat
        BY <1>1
      <4> QED BY <2>3, <4>1, CountedPassOn
    <3>1. Bridge!ToMesh!PassOn
      <4>1. UNCHANGED [i \in 1 .. sent["local"] |-> i]
        BY <2>3
      <4> QED BY <3>0, <4>1 DEF Bridge!ToMesh!PassOn, Count
    <3> QED BY <3>1 DEF Bridge!ToMesh!Next
  <2> QED BY <2>1, <2>2, <2>3, BridgeEffect
<1>3. [Bridge!ToLocal!Next]_<<Count(sent["mesh"]), got["local"]>>
  <2>1. CASE sent'["mesh"] = sent["mesh"] /\ got'["local"] = got["local"]
    BY <2>1
  <2>2. CASE sent'["mesh"] = sent["mesh"] + 1 /\ got'["local"] = got["local"]
    <3>1. Bridge!ToLocal!Produce
      BY <1>1, <2>2, CountedProduce DEF Bridge!ToLocal!Produce, Count
    <3> QED BY <3>1 DEF Bridge!ToLocal!Next
  <2>3. CASE /\ sent'["mesh"] = sent["mesh"] /\ Len(got["local"]) < sent["mesh"]
             /\ got'["local"] = Count(Len(got["local"]) + 1)
    <3>0. \E m \in Len(got["local"]) + 1 .. Len(Count(sent["mesh"])) :
              got'["local"] = SubSeq(Count(sent["mesh"]), 1, m)
      <4>1. sent["mesh"] \in Nat /\ Len(got["local"]) \in Nat
        BY <1>1
      <4> QED BY <2>3, <4>1, CountedPassOn
    <3>1. Bridge!ToLocal!PassOn
      <4>1. UNCHANGED [i \in 1 .. sent["mesh"] |-> i]
        BY <2>3
      <4> QED BY <3>0, <4>1 DEF Bridge!ToLocal!PassOn, Count
    <3> QED BY <3>1 DEF Bridge!ToLocal!Next
  <2> QED BY <2>1, <2>2, <2>3, BridgeEffect
<1> QED BY <1>2, <1>3 DEF Count

(* Both directions of a bridge implement Relay (BridgeConns, bridgeHalf).  *)
THEOREM BridgeIsRelay == Bridge!Init /\ [][Bridge!Next]_bridgeVars => Bridge!BridgeRelays
<1>3. Bridge!Init => Bridge!ToMesh!Init /\ Bridge!ToLocal!Init
  BY DEF Bridge!Init, Bridge!ToMesh!Init, Bridge!ToLocal!Init, Bridge!Sides
<1> QED BY <1>3, BridgeInit, BridgeStep, BridgeRefines, PTL
        DEF Bridge!BridgeRelays, Bridge!ToMesh!Spec, Bridge!ToLocal!Spec

-----------------------------------------------------------------------------
(* Link: a session over a stream implements Relay.                         *)
(* The last message that protoReader has, and the last that has left the   *)
(* socket.                                                                 *)
Received == Len(taken) + IF reader = "give" THEN 1 ELSE 0
Handed == Received + IF between = "hand" /\ held # Path!Error THEN 1 ELSE 0

(* While nobody has given up, what is on its way follows.                  *)
OnTheWay ==
    reader # "ended" /\ between # "ended" =>
        /\ between = "hand" /\ held # Path!Error => held = Received + 1
        /\ Run(flight, Handed)
        /\ Handed + Len(flight) <= Len(posted)
        /\ ~down => Run(queue, Handed + Len(flight))
        /\ ~down => Handed + Len(flight) + Len(queue) = Len(posted)

InOrder ==
    /\ Run(taken, 0)
    /\ Len(taken) <= Len(posted)
    /\ reader = "give" => buf = Len(taken) + 1 /\ buf <= Len(posted)
    /\ OnTheWay

LinkTypes ==
    /\ kind \in Path!Kinds
    /\ kind = "tcp" => between = "none"
    /\ kind = "websocket" => between # "none"
    /\ reader \in {"recv", "give", "ended"}
    /\ between \in {"none", "read", "hand", "ended"}
    /\ Run(posted, 0) /\ Len(posted) <= Messages
    /\ down \in BOOLEAN /\ sctx \in BOOLEAN
    /\ sctx => down

LinkIInv == LinkTypes /\ (kind \in Path!Ordered => InOrder)

(* Nothing has been posted.                                                *)
LEMMA LinkInit == Path!Init => LinkIInv
<1> SUFFICES ASSUME Path!Init PROVE LinkIInv
  OBVIOUS
<1>1. Messages \in Nat
  BY LinkAssumption DEF Path!LinkAssumption
<1>2. Received = 0 /\ Handed = 0 /\ Len(posted) = 0 /\ Len(queue) = 0 /\ Len(flight) = 0
  BY DEF Path!Init, Received, Handed
<1>3. Run(posted, 0) /\ Run(queue, 0) /\ Run(flight, 0) /\ Run(taken, 0)
  BY RunEmpty DEF Path!Init
<1>4. LinkTypes
  <2>1. between = IF kind \in {"websocket", "udp listener"} THEN "read" ELSE "none"
    BY DEF Path!Init, Path!Channelled
  <2>2. /\ kind \in Path!Kinds /\ reader = "recv"
        /\ down \in BOOLEAN /\ sctx \in BOOLEAN /\ (sctx => down)
    BY DEF Path!Init
  <2>3. /\ kind = "tcp" => between = "none"
        /\ kind = "websocket" => between # "none"
        /\ between \in {"none", "read"}
    BY ONLY <2>1
  <2> QED BY <1>1, <1>2, <1>3, <2>2, <2>3 DEF LinkTypes
<1>5. Run(flight, Handed) /\ Run(queue, Handed + Len(flight)) /\ Len(taken) = 0 /\ reader = "recv"
  <2>1. Handed + Len(flight) = 0
    BY <1>2
  <2> QED BY <1>2, <1>3, <2>1 DEF Path!Init
<1>6. between # "hand"
  BY DEF Path!Init
<1>7. InOrder
  BY <1>2, <1>3, <1>5, <1>6 DEF InOrder, OnTheWay
<1> QED BY <1>4, <1>7 DEF LinkIInv

(* The places of the goroutines, and what has been posted.                 *)
LEMMA LinkTypesStep == LinkTypes /\ [Path!Next]_linkVars => LinkTypes'
<1> SUFFICES ASSUME LinkTypes, [Path!Next]_linkVars PROVE LinkTypes'
  OBVIOUS
<1> USE LinkAssumption
    DEF LinkTypes, Path!LinkAssumption, Path!sender, Path!wire, Path!receiver, Path!threads
<1>1. CASE Path!Post
  <2>1. Run(posted', 0) /\ Len(posted') = Len(posted) + 1
    BY <1>1, RunAppend DEF Path!Post, Run
  <2>2. Len(posted') <= Messages
    BY <1>1, <2>1 DEF Path!Post, Run
  <2> QED BY <1>1, <2>1, <2>2 DEF Path!Post
<1>2. CASE Path!Writer \/ Path!SenderEnds \/ Path!Lose
  <2>1. UNCHANGED <<kind, between, reader, posted>>
    BY <1>2 DEF Path!Writer, Path!WriterSends, Path!WriterFails, Path!WriterDone,
       Path!SenderEnds, Path!Lose
  <2>2. down' \in BOOLEAN /\ sctx' \in BOOLEAN /\ (sctx' => down')
    <3>1. CASE Path!WriterSends \/ Path!WriterDone \/ Path!Lose
      BY <3>1 DEF Path!WriterSends, Path!WriterDone, Path!Lose
    <3>2. CASE Path!WriterFails
      BY <3>2 DEF Path!WriterFails
    <3>3. CASE Path!SenderEnds
      BY <3>3 DEF Path!SenderEnds
    <3> QED BY <1>2, <3>1, <3>2, <3>3 DEF Path!Writer
  <2> QED BY <2>1, <2>2
<1>3. CASE Path!Recv \/ Path!Give \/ Path!GiveDone
  BY <1>3 DEF Path!Recv, Path!Give, Path!GiveDone, Path!Ends
<1>4. CASE Path!HandOver
  BY <1>4 DEF Path!HandOver, Path!Ends
<1>5. CASE Path!ReadMessage
  BY <1>5 DEF Path!ReadMessage
<1>6. CASE Path!BetweenDone
  BY <1>6 DEF Path!BetweenDone
<1>7. CASE Path!ProtocolReturns \/ Path!SeesDone \/ Path!BackendCancelled
  BY <1>7 DEF Path!ProtocolReturns, Path!SeesDone, Path!BackendCancelled
<1>8. CASE UNCHANGED linkVars
  BY <1>8 DEF linkVars
<1> QED BY <1>1, <1>2, <1>3, <1>4, <1>5, <1>6, <1>7, <1>8 DEF Path!Next, Path!Reader, Path!Between

(* Over an ordered session every step keeps the messages in their order.   *)
LEMMA InOrderStep ==
    ASSUME LinkTypes, InOrder, kind \in Path!Ordered, [Path!Next]_linkVars
    PROVE  InOrder'
<1> USE DEF Path!sender, Path!wire, Path!receiver, Path!threads
<1>0. /\ Len(taken) \in Nat /\ Received \in Nat /\ Handed \in Nat
      /\ Len(posted) \in Nat /\ Messages \in Nat
  <2>1. Len(taken) \in Nat /\ Len(posted) \in Nat
    BY DEF LinkTypes, InOrder, Run
  <2>2. Received \in Nat
    BY <2>1 DEF Received
  <2>3. Handed \in Nat
    BY <2>2 DEF Handed
  <2> QED BY <2>1, <2>2, <2>3, LinkAssumption DEF Path!LinkAssumption
<1>1. CASE Path!Post
  <2>1. posted' = Append(posted, Len(posted) + 1) /\ queue' = Append(queue, Len(posted) + 1)
    BY <1>1 DEF Path!Post
  <2>2. Len(posted') = Len(posted) + 1
    BY <2>1 DEF LinkTypes, Run
  <2>3. ASSUME reader # "ended", between # "ended", ~down
        PROVE  /\ Run(queue', Handed + Len(flight))
               /\ Handed + Len(flight) + Len(queue') = Len(posted')
    <3>1. /\ Run(queue, Handed + Len(flight)) /\ Handed + Len(flight) \in Nat
          /\ Handed + Len(flight) + Len(queue) = Len(posted)
      BY <1>0, <2>3 DEF InOrder, OnTheWay, Run
    <3>2. Run(queue', Handed + Len(flight)) /\ Len(queue') = Len(queue) + 1
      BY <2>1, <3>1, RunAppend
    <3>3. Len(queue) \in Nat
      BY <3>1 DEF Run
    <3> QED BY <2>2, <3>1, <3>2, <3>3
  <2>4. UNCHANGED <<taken, reader, buf, between, held, flight, down>>
    BY <1>1 DEF Path!Post
  <2>5. Len(flight) \in Nat \/ reader = "ended" \/ between = "ended"
    BY DEF InOrder, OnTheWay, Run
  <2>6. Received' = Received /\ Handed' = Handed
    BY <2>4 DEF Received, Handed, Path!Error
  <2>7. OnTheWay'
    BY <1>0, <2>2, <2>3, <2>4, <2>5, <2>6 DEF InOrder, OnTheWay, Path!Error
  <2> QED BY <1>0, <2>2, <2>4, <2>7 DEF InOrder
<1>2. CASE Path!WriterSends
  <2>1. /\ flight' = Append(flight, Head(queue)) /\ queue' = Tail(queue) /\ queue # <<>> /\ ~down
        /\ UNCHANGED <<taken, reader, buf, between, held, posted, down>>
    BY <1>2 DEF Path!WriterSends
  <2>2. ASSUME reader # "ended", between # "ended"
        PROVE  /\ Run(flight', Handed) /\ Handed + Len(flight') <= Len(posted)
               /\ Run(queue', Handed + Len(flight'))
               /\ Handed + Len(flight') + Len(queue') = Len(posted)
    <3>1. /\ Run(flight, Handed) /\ Len(flight) \in Nat
          /\ Run(queue, Handed + Len(flight)) /\ Handed + Len(flight) \in Nat
          /\ Handed + Len(flight) + Len(queue) = Len(posted)
      BY <1>0, <2>1, <2>2 DEF InOrder, OnTheWay, Run
    <3>2. /\ Head(queue) = Handed + Len(flight) + 1 /\ Run(queue', Handed + Len(flight) + 1)
          /\ Len(queue') = Len(queue) - 1 /\ Len(queue) \in Nat \ {0}
      BY <2>1, <3>1, RunTail
    <3>3. Run(flight', Handed) /\ Len(flight') = Len(flight) + 1
      BY <1>0, <2>1, <3>1, <3>2, RunAppend
    <3>4. Handed + Len(flight') = Handed + Len(flight) + 1
      BY <1>0, <3>1, <3>3
    <3>5. Run(queue', Handed + Len(flight'))
      BY <3>2, <3>4
    <3> QED BY <1>0, <3>1, <3>2, <3>3, <3>5
  <2> QED BY <2>1, <2>2 DEF InOrder, OnTheWay, Received, Handed
<1>3. CASE Path!WriterFails \/ Path!WriterDone \/ Path!SenderEnds
  <2>1. down' /\ UNCHANGED <<taken, reader, buf, between, held, posted, flight>>
    <3>1. CASE Path!WriterFails
      BY <3>1 DEF Path!WriterFails
    <3>2. CASE Path!WriterDone
      BY <3>2 DEF Path!WriterDone, LinkTypes
    <3>3. CASE Path!SenderEnds
      BY <3>3 DEF Path!SenderEnds
    <3> QED BY <1>3, <3>1, <3>2, <3>3
  <2> QED BY <2>1 DEF InOrder, OnTheWay, Received, Handed
<1>4. CASE Path!Lose
  <2>1. /\ flight' = SubSeq(flight, 1, Len(flight) - 1) /\ flight # <<>> /\ down'
        /\ UNCHANGED <<taken, reader, buf, between, held, posted>>
    BY <1>4 DEF Path!Lose
  <2>2. ASSUME reader # "ended", between # "ended"
        PROVE  Run(flight', Handed) /\ Handed + Len(flight') <= Len(posted)
    <3>1. Run(flight, Handed) /\ Handed + Len(flight) <= Len(posted)
      BY <2>2 DEF InOrder, OnTheWay
    <3>2. /\ Run(flight', Handed) /\ Len(flight) \in Nat
          /\ Len(flight') = Len(flight) - 1
      BY <1>0, <2>1, <3>1, RunFront
    <3> QED BY <1>0, <3>1, <3>2
  <2> QED BY <2>1, <2>2 DEF InOrder, OnTheWay, Received, Handed
<1>a. ASSUME NEW i \in DOMAIN flight, Path!Arrives(i), reader # "ended", between # "ended"
      PROVE  /\ flight[i] = Handed + 1 /\ Run(flight', Handed + 1)
             /\ Len(flight') = Len(flight) - 1 /\ Len(flight) \in Nat \ {0}
             /\ flight[i] <= Len(posted)
             /\ Handed + 1 + Len(flight') = Handed + Len(flight)
  <2>1. Run(flight, Handed) /\ Handed + Len(flight) <= Len(posted)
    BY <1>a DEF InOrder, OnTheWay
  <2>2. i = 1 /\ flight # <<>>
    BY <1>a DEF Path!Arrives
  <2>3. flight' = Tail(flight)
    BY <1>0, <1>a, <2>1, <2>2, RunNext DEF Path!Arrives
  <2>4. /\ Run(flight', Handed + 1) /\ Len(flight') = Len(flight) - 1 /\ Len(flight) \in Nat \ {0}
    BY <1>0, <2>1, <2>2, <2>3, RunTail
  <2>5. flight[i] = Handed + 1
    BY <1>0, <2>1, <2>2, <2>4 DEF Run
  <2> QED BY <1>0, <2>1, <2>4, <2>5
<1>5. CASE Path!Recv
  <2>1. /\ reader = "recv" /\ between = "none" /\ between' = "none"
        /\ UNCHANGED <<taken, posted, queue, down>>
    BY <1>5 DEF Path!Recv, LinkTypes, Path!Kinds, Path!Channelled, Path!Ordered
  <2>2. CASE reader' = "ended"
    BY <2>1, <2>2 DEF InOrder, OnTheWay
  <2>3. CASE reader' # "ended"
    <3>1. PICK i \in DOMAIN flight : Path!Arrives(i) /\ buf' = flight[i] /\ reader' = "give"
      BY <1>5, <2>3 DEF Path!Recv, Path!Ends
    <3>2. Handed = Len(taken) /\ Received' = Len(taken) + 1 /\ Handed' = Handed + 1
      BY <1>0, <2>1, <3>1 DEF Handed, Received
    <3>3. /\ buf' = Handed + 1 /\ Run(flight', Handed + 1) /\ buf' <= Len(posted)
          /\ Handed + 1 + Len(flight') = Handed + Len(flight)
      BY <1>a, <2>1, <3>1
    <3>4. OnTheWay'
      BY <2>1, <3>2, <3>3 DEF InOrder, OnTheWay
    <3> QED BY <2>1, <3>1, <3>2, <3>3, <3>4 DEF InOrder
  <2> QED BY <2>2, <2>3
<1>6. CASE Path!ReadMessage
  <2>1. /\ between = "read" /\ between' = "hand"
        /\ UNCHANGED <<taken, posted, queue, down, reader, buf, kind>>
    BY <1>6 DEF Path!ReadMessage
  <2>2. CASE reader = "ended"
    BY <2>1, <2>2 DEF InOrder, OnTheWay
  <2>3. CASE reader # "ended" /\ held' = Path!Error /\ UNCHANGED flight
    <3>1. Handed = Received /\ Received' = Received /\ Handed' = Handed
      BY <1>0, <2>1, <2>3 DEF Handed, Received
    <3> QED BY <2>1, <2>3, <3>1 DEF InOrder, OnTheWay
  <2>4. ASSUME reader # "ended", NEW i \in DOMAIN flight, Path!Arrives(i), held' = flight[i]
        PROVE  InOrder'
    <3>1. /\ held' = Handed + 1 /\ Run(flight', Handed + 1) /\ held' <= Len(posted)
          /\ Handed + 1 + Len(flight') = Handed + Len(flight)
      BY <1>a, <2>1, <2>4
    <3>2. held' # Path!Error
      BY <1>0, <3>1 DEF Path!Error, LinkTypes
    <3>3. Handed = Received /\ Received' = Received /\ Handed' = Handed + 1
      BY <1>0, <2>1, <3>2 DEF Handed, Received, Path!Error
    <3>4. OnTheWay'
      BY <2>1, <3>1, <3>3 DEF InOrder, OnTheWay
    <3> QED BY <2>1, <3>4 DEF InOrder
  <2> QED BY <1>6, <2>2, <2>3, <2>4 DEF Path!ReadMessage
<1>7. CASE Path!BetweenDone \/ Path!GiveDone
  BY <1>7 DEF Path!BetweenDone, Path!GiveDone, InOrder, OnTheWay
<1>8. CASE Path!HandOver
  <2>1. /\ between = "hand" /\ reader = "recv"
        /\ UNCHANGED <<taken, posted, queue, down, flight, held>>
    BY <1>8 DEF Path!HandOver
  <2>2. CASE held = Path!Error
    BY <1>8, <2>1, <2>2 DEF Path!HandOver, Path!Ends, InOrder, OnTheWay
  <2>3. CASE held # Path!Error
    <3>1. between' = "read" /\ reader' = "give" /\ buf' = held
      BY <1>8, <2>3 DEF Path!HandOver
    <3>2. held = Len(taken) + 1 /\ Handed = Len(taken) + 1
      BY <1>0, <2>1, <2>3 DEF InOrder, OnTheWay, Received, Handed
    <3>3. Received' = Len(taken) + 1 /\ Handed' = Handed
      BY <1>0, <2>1, <3>1, <3>2 DEF Received, Handed
    <3>4. Handed <= Len(posted)
      BY <1>0, <2>1 DEF InOrder, OnTheWay, Run
    <3>5. OnTheWay'
      BY <2>1, <3>1, <3>3 DEF InOrder, OnTheWay
    <3> QED BY <2>1, <3>1, <3>2, <3>4, <3>5 DEF InOrder
  <2> QED BY <2>2, <2>3
<1>9. CASE Path!Give
  <2>1. /\ reader = "give" /\ taken' = Append(taken, buf) /\ reader' = "recv"
        /\ UNCHANGED <<posted, queue, down, flight, held, between>>
    BY <1>9 DEF Path!Give
  <2>2. Run(taken', 0) /\ Len(taken') = Len(taken) + 1 /\ Len(taken) + 1 <= Len(posted)
    BY <1>0, <2>1, RunAppend DEF InOrder
  <2>3. Received' = Received /\ Handed' = Handed
    BY <1>0, <2>1, <2>2 DEF Received, Handed, Path!Error
  <2> QED BY <2>1, <2>2, <2>3 DEF InOrder, OnTheWay
<1>10. CASE Path!ProtocolReturns \/ Path!SeesDone \/ Path!BackendCancelled
  BY <1>10 DEF Path!ProtocolReturns, Path!SeesDone, Path!BackendCancelled, InOrder, OnTheWay,
     Received, Handed
<1>11. CASE UNCHANGED linkVars
  BY <1>11 DEF linkVars, InOrder, OnTheWay, Received, Handed
<1> QED BY <1>1, <1>2, <1>3, <1>4, <1>5, <1>6, <1>7, <1>8, <1>9, <1>10, <1>11
        DEF Path!Next, Path!Writer, Path!Reader, Path!Between

(* A session stays of its kind.                                            *)
LEMMA KindStays == [Path!Next]_linkVars => kind' = kind
BY DEF Path!Next, linkVars, Path!Post, Path!Writer, Path!WriterSends, Path!WriterFails,
   Path!WriterDone, Path!SenderEnds, Path!Lose, Path!Reader, Path!Recv, Path!Give,
   Path!GiveDone, Path!HandOver, Path!Between, Path!ReadMessage, Path!BetweenDone,
   Path!ProtocolReturns, Path!SeesDone, Path!BackendCancelled

(* Every step keeps the invariant.                                         *)
LEMMA LinkStep == LinkIInv /\ [Path!Next]_linkVars => LinkIInv'
BY LinkTypesStep, InOrderStep, KindStays DEF LinkIInv

(* Every step is one of the relay, or none.                                *)
LEMMA LinkRefines ==
    ASSUME LinkIInv, [Path!Next]_linkVars
    PROVE  [Path!LinkRelay!Next]_<<posted, IF kind \in Path!Ordered THEN taken ELSE <<>> >>
<1>0. posted = Count(Len(posted)) /\ Len(posted) \in Nat
  BY RunCount DEF LinkIInv, LinkTypes
<1>1. CASE Path!Post
  <2>1. /\ posted' = Append(posted, Len(posted) + 1) /\ taken' = taken /\ kind' = kind
    BY <1>1 DEF Path!Post, Path!threads
  <2>2. posted' = Count(Len(posted) + 1)
    BY <1>0, <2>1, CountAppend
  <2>3. Len(posted') > Len(posted) /\ SubSeq(posted', 1, Len(posted)) = posted
    BY <1>0, <2>2, CountedProduce
  <2> QED BY <2>1, <2>3 DEF Path!LinkRelay!Next, Path!LinkRelay!Produce
<1>2. CASE Path!Give /\ kind \in Path!Ordered
  <2>1. /\ taken = Count(Len(taken)) /\ Len(taken) \in Nat
        /\ buf = Len(taken) + 1 /\ Len(taken) < Len(posted)
        /\ taken' = Append(taken, buf) /\ posted' = posted /\ kind' = kind
    <3>1. taken = Count(Len(taken)) /\ Len(taken) \in Nat
      BY <1>2, RunCount DEF LinkIInv, InOrder
    <3> QED BY <1>0, <1>2, <3>1 DEF LinkIInv, InOrder, Path!Give, Path!sender
  <2>2. taken' = Count(Len(taken) + 1)
    BY <2>1, CountAppend
  <2>3. \E m \in Len(taken) + 1 .. Len(posted) : taken' = SubSeq(posted, 1, m)
    BY <1>0, <2>1, <2>2, CountedPassOn
  <2> QED BY <1>2, <2>1, <2>3 DEF Path!LinkRelay!Next, Path!LinkRelay!PassOn
<1>3. CASE UNCHANGED <<posted, kind>> /\ (kind \notin Path!Ordered \/ UNCHANGED taken)
  BY <1>3
<1> QED BY <1>1, <1>2, <1>3
     DEF Path!Next, linkVars, Path!Post, Path!Writer, Path!WriterSends, Path!WriterFails,
   Path!WriterDone, Path!SenderEnds, Path!Lose, Path!Reader, Path!Recv, Path!Give,
   Path!GiveDone, Path!HandOver, Path!Between, Path!ReadMessage, Path!BetweenDone,
   Path!ProtocolReturns, Path!SeesDone, Path!BackendCancelled, Path!sender, Path!wire,
   Path!receiver, Path!threads

(* A session implements Relay (protoWriter, recvChannelizer, protoReader). *)
THEOREM LinkIsRelay == Path!Init /\ [][Path!Next]_linkVars => Path!LinkRelays
<1>1. Path!Init => Path!LinkRelay!Init
  BY DEF Path!Init, Path!LinkRelay!Init
<1> QED BY <1>1, LinkInit, LinkStep, LinkRefines, PTL DEF Path!LinkRelays, Path!LinkRelay!Spec

-----------------------------------------------------------------------------
(* Framing: messages over a byte stream implement Relay.                   *)
Byte == 0 .. Base - 1
Message == {data \in Seq(Byte) : Len(data) < Base * Base}

(* Quotient and remainder.                                                 *)
LEMMA DivMod ==
    ASSUME NEW n \in Int, NEW b \in Int, b > 0
    PROVE  n = b * (n \div b) + (n % b)
BY Z3

(* The two bytes of a length give it back.                                 *)
LEMMA LengthBytes ==
    ASSUME NEW n \in Nat, n < Base * Base
    PROVE  /\ n % Base \in Byte /\ (n \div Base) % Base \in Byte
           /\ (n % Base) + Base * ((n \div Base) % Base) = n
<1>0. Base \in Nat /\ Base > 0
  BY FramingAssumption DEF Frame!FramingAssumption
<1>1. /\ n \div Base \in Nat /\ n % Base \in 0 .. Base - 1
      /\ n = Base * (n \div Base) + (n % Base)
  <2>1. n \div Base \in Nat
    BY <1>0
  <2>2. n % Base \in 0 .. Base - 1
    BY <1>0
  <2>3. n = Base * (n \div Base) + (n % Base)
    BY <1>0, DivMod
  <2> QED BY <2>1, <2>2, <2>3
<1>2. n \div Base < Base
  <2>1. PICK q \in Nat, r \in 0 .. Base - 1 : q = n \div Base /\ n = Base * q + r
    BY <1>1
  <2>2. CASE q >= Base
    <3>1. Base * q >= Base * Base
      BY <1>0, <2>2
    <3> QED BY <1>0, <2>1, <3>1
  <2> QED BY <1>0, <2>1, <2>2
<1>3. (n \div Base) % Base = n \div Base
  BY <1>0, <1>1, <1>2
<1> QED BY <1>0, <1>1, <1>2, <1>3 DEF Byte

(* The bytes of a frame (SendData).                                        *)
LEMMA SendDataIs ==
    ASSUME NEW data \in Message
    PROVE  /\ Frame!SendData(data) \in Seq(Byte)
           /\ Len(Frame!SendData(data)) = Len(data) + 2
           /\ Frame!SendData(data)[1] = Len(data) % Base
           /\ Frame!SendData(data)[2] = (Len(data) \div Base) % Base
           /\ \A i \in 1 .. Len(data) : Frame!SendData(data)[i + 2] = data[i]
<1>1. data \in Seq(Byte) /\ Len(data) \in Nat /\ Len(data) < Base * Base
  BY DEF Message
<1>2. Len(data) % Base \in Byte /\ (Len(data) \div Base) % Base \in Byte
  BY <1>1, LengthBytes
<1>3. PICK a \in Byte, b \in Byte : a = Len(data) % Base /\ b = (Len(data) \div Base) % Base
  BY <1>2
<1>4. Frame!SendData(data) = <<a, b>> \o data
  BY <1>3 DEF Frame!SendData
<1>5. <<a, b>> \in Seq(Byte) /\ Len(<<a, b>>) = 2 /\ <<a, b>>[1] = a /\ <<a, b>>[2] = b
  OBVIOUS
<1> QED BY <1>1, <1>3, <1>4, <1>5

(* The bytes that have been sent and not yet returned.                     *)
Underway == Len(buffer) + Len(wire)
ByteAt(i) == IF i <= Len(buffer) THEN buffer[i] ELSE wire[i - Len(buffer)]

(* Message k ends at end[k] in the stream, of which the first bytes up to  *)
(* the last message returned are gone, and the last may be lost.           *)
Placed(end) ==
    LET base == end[Len(unframed)]
    IN  /\ end \in [0 .. Len(framed) -> Nat]
        /\ \A k \in 0 .. Len(framed) - 1 : end[k + 1] = end[k] + 2 + Len(framed[k + 1])
        /\ \A k, l \in 0 .. Len(framed) : k <= l => end[k] <= end[l]
        /\ Underway <= end[Len(framed)] - base
        /\ ~broken => Underway = end[Len(framed)] - base
        /\ \A k \in Len(unframed) .. Len(framed) - 1 :
              \A i \in 1 .. Len(framed[k + 1]) + 2 :
                  end[k] - base + i <= Underway =>
                      ByteAt(end[k] - base + i) = Frame!SendData(framed[k + 1])[i]

FrameIInv ==
    /\ framed \in Seq(Message) /\ unframed \in Seq(Message)
    /\ wire \in Seq(Byte) /\ buffer \in Seq(Byte)
    /\ broken \in BOOLEAN
    /\ Len(unframed) <= Len(framed)
    /\ \A i \in 1 .. Len(unframed) : unframed[i] = framed[i]
    /\ \E end : Placed(end)

(* Nothing has been sent.                                                  *)
LEMMA FrameInit == Frame!Init => FrameIInv
<1> SUFFICES ASSUME Frame!Init PROVE FrameIInv
  OBVIOUS
<1>1. Len(framed) = 0 /\ Len(unframed) = 0 /\ Len(wire) = 0 /\ Len(buffer) = 0
  BY DEF Frame!Init
<1>2. Placed([k \in 0 .. 0 |-> 0])
  BY <1>1 DEF Placed, Underway
<1> QED BY <1>1, <1>2 DEF Frame!Init, FrameIInv

(* One more message: the ends of the others stay.                          *)
LEMMA Extend ==
    ASSUME NEW F \in Nat, NEW end \in [0 .. F -> Nat], NEW n \in Nat,
           \A k, l \in 0 .. F : k <= l => end[k] <= end[l],
           NEW new, new = [k \in 0 .. F + 1 |-> IF k <= F THEN end[k] ELSE end[F] + n]
    PROVE  /\ new \in [0 .. F + 1 -> Nat]
           /\ \A k \in 0 .. F : new[k] = end[k]
           /\ new[F + 1] = end[F] + n
           /\ \A k, l \in 0 .. F + 1 : k <= l => new[k] <= new[l]
<1>1. \A k \in 0 .. F : new[k] = end[k] /\ end[k] \in Nat
  OBVIOUS
<1>2. new[F + 1] = end[F] + n
  OBVIOUS
<1>3. \A k \in 0 .. F + 1 : k \in 0 .. F \/ k = F + 1
  OBVIOUS
<1>4. \A k \in 0 .. F + 1 : new[k] \in Nat
  BY <1>1, <1>2, <1>3
<1>5. ASSUME NEW k \in 0 .. F + 1, NEW l \in 0 .. F + 1, k <= l PROVE new[k] <= new[l]
  <2>1. CASE l \in 0 .. F
    BY <1>1, <1>5, <2>1
  <2>2. CASE l = F + 1 /\ k \in 0 .. F
    BY <1>1, <1>2, <2>2
  <2>3. CASE l = F + 1 /\ k = F + 1
    BY <1>4, <2>3
  <2> QED BY <1>3, <2>1, <2>2, <2>3
<1> QED BY <1>1, <1>2, <1>4, <1>5

(* A message is sent: its bytes are the last of the stream.                *)
LEMMA SendStep ==
    ASSUME FrameIInv, NEW data \in Contents, Frame!Send(data)
    PROVE  FrameIInv'
<1>a. PICK F \in Nat, U \in Nat, W \in Nat, L \in Nat :
          F = Len(framed) /\ U = Len(unframed) /\ W = Len(wire) /\ L = Len(buffer)
  BY DEF FrameIInv
<1>0. data \in Message
  BY FramingAssumption DEF Frame!FramingAssumption, Message, Byte
<1>d. PICK D \in Nat : D = Len(data)
  BY <1>0 DEF Message
<1>b. PICK bytes : bytes = Frame!SendData(data)
  OBVIOUS
<1>1. /\ framed' = Append(framed, data) /\ wire' = wire \o bytes /\ ~broken
      /\ UNCHANGED <<broken, buffer, unframed>>
  BY <1>b DEF Frame!Send
<1>2. bytes \in Seq(Byte) /\ Len(bytes) = D + 2
  BY <1>0, <1>b, <1>d, SendDataIs
<1>3. /\ framed \in Seq(Message) /\ U <= F
      /\ wire \in Seq(Byte) /\ buffer \in Seq(Byte)
  BY <1>a DEF FrameIInv
<1>4. /\ framed' \in Seq(Message) /\ Len(framed') = F + 1 /\ framed'[F + 1] = data
      /\ \A i \in 1 .. F : framed'[i] = framed[i]
  BY <1>0, <1>1, <1>3, <1>a
<1>5. /\ wire' \in Seq(Byte) /\ Len(wire') = W + D + 2
      /\ \A i \in 1 .. W : wire'[i] = wire[i]
      /\ \A i \in 1 .. D + 2 : wire'[W + i] = bytes[i]
  <2>1. /\ wire' \in Seq(Byte) /\ Len(wire') = W + (D + 2)
        /\ \A i \in 1 .. W + (D + 2) : wire'[i] = IF i <= W THEN wire[i] ELSE bytes[i - W]
    <3>1. /\ wire \o bytes \in Seq(Byte) /\ Len(wire \o bytes) = Len(wire) + Len(bytes)
          /\ \A i \in 1 .. Len(wire) + Len(bytes) :
                (wire \o bytes)[i] = IF i <= Len(wire) THEN wire[i] ELSE bytes[i - Len(wire)]
      BY ONLY <1>2, <1>3, ConcatProperties
    <3> QED BY <1>1, <1>2, <1>a, <3>1
  <2> QED BY <2>1
<1>6. PICK end : Placed(end)
  BY DEF FrameIInv
<1>7. /\ end \in [0 .. F -> Nat] /\ Underway = end[F] - end[U]
      /\ \A k \in 0 .. F - 1 : end[k + 1] = end[k] + 2 + Len(framed[k + 1])
      /\ \A k, l \in 0 .. F : k <= l => end[k] <= end[l]
      /\ \A k \in U .. F - 1 : \A i \in 1 .. Len(framed[k + 1]) + 2 :
            end[k] - end[U] + i <= Underway =>
                ByteAt(end[k] - end[U] + i) = Frame!SendData(framed[k + 1])[i]
  BY <1>1, <1>6, <1>a DEF Placed
<1>e. F \in 0 .. F /\ U \in 0 .. F /\ end[F] \in Nat /\ end[U] \in Nat
  BY <1>3, <1>7
<1>c. PICK new : new = [k \in 0 .. F + 1 |-> IF k <= F THEN end[k] ELSE end[F] + (D + 2)]
  OBVIOUS
<1>8. /\ new \in [0 .. F + 1 -> Nat]
      /\ \A k \in 0 .. F : new[k] = end[k]
      /\ new[F + 1] = end[F] + (D + 2)
      /\ \A k, l \in 0 .. F + 1 : k <= l => new[k] <= new[l]
  <2>1. D + 2 \in Nat
    OBVIOUS
  <2>2. end \in [0 .. F -> Nat] /\ \A k, l \in 0 .. F : k <= l => end[k] <= end[l]
    BY <1>7
  <2> QED BY ONLY F \in Nat, <1>c, <2>1, <2>2, Extend
<1>9. Underway = L + W /\ Underway' = L + W + D + 2
  BY <1>a, <1>1, <1>5 DEF Underway
<1>10. ASSUME NEW k \in 0 .. F, NEW i \in 1 .. Len(framed'[k + 1]) + 2, k >= U
       PROVE  ByteAt(end[k] - end[U] + i)' = Frame!SendData(framed'[k + 1])[i]
  <2>1. CASE k = F
    <3>2. i \in 1 .. D + 2 /\ framed'[k + 1] = data
      BY <1>4, <1>d, <1>10, <2>1
    <3>1. PICK p \in Nat : p = L + W + i
      BY <3>2
    <3>3. end[k] - end[U] + i = p
      BY <1>7, <1>9, <2>1, <3>1
    <3>4. Frame!SendData(framed'[k + 1])[i] = bytes[i]
      BY <1>b, <3>2
    <3>5. ByteAt(p)' = wire'[p - L]
      <4>1. buffer' = buffer /\ ~(p <= L)
        BY <1>1, <3>1, <3>2
      <4> QED BY <1>a, <4>1 DEF ByteAt
    <3>6. p - L = W + i
      BY <3>1, <3>2
    <3> QED BY <1>5, <3>2, <3>3, <3>4, <3>5, <3>6
  <2>2. CASE k < F
    <3>1. framed'[k + 1] = framed[k + 1] /\ Len(framed[k + 1]) \in Nat
      <4>1. k + 1 \in 1 .. F
        BY <2>2
      <4>2. framed[k + 1] \in Message
        BY <1>3, <1>a, <4>1
      <4> QED BY <1>4, <4>1, <4>2 DEF Message
    <3>2. /\ end[k + 1] = end[k] + 2 + Len(framed[k + 1])
          /\ end[k + 1] <= end[F] /\ end[k] >= end[U]
          /\ end[k] \in Nat /\ end[U] \in Nat /\ end[F] \in Nat
      BY <1>3, <1>7, <1>10, <2>2
    <3>3. PICK j \in 1 .. L + W : j = end[k] - end[U] + i
      <4>1. i \in 1 .. Len(framed[k + 1]) + 2
        BY <1>10, <3>1
      <4>2. end[F] - end[U] = L + W
        BY <1>7, <1>9
      <4>3. PICK x \in Nat, y \in Nat, z \in Nat, n \in Nat :
                x = end[k] /\ y = end[U] /\ z = end[F] /\ n = Len(framed[k + 1])
        BY <3>1, <3>2
      <4>4. x + 2 + n <= z /\ x >= y /\ z - y = L + W /\ i \in 1 .. n + 2
        BY <3>2, <4>1, <4>2, <4>3
      <4>5. x - y + i \in 1 .. L + W
        BY ONLY <4>4, x \in Nat, y \in Nat, z \in Nat, n \in Nat, L \in Nat, W \in Nat
      <4> QED BY <4>3, <4>5
    <3>4. ByteAt(j) = Frame!SendData(framed[k + 1])[i]
      <4>1. k \in U .. F - 1 /\ i \in 1 .. Len(framed[k + 1]) + 2 /\ j <= Underway
        BY <1>9, <1>10, <2>2, <3>1
      <4> QED BY <1>7, <3>3, <4>1
    <3>5. ByteAt(j)' = ByteAt(j)
      BY <1>1, <1>3, <1>5, <1>a DEF ByteAt
    <3> QED BY <3>1, <3>3, <3>4, <3>5
  <2> QED BY <2>1, <2>2
<1>11. Placed(new)'
  <2>1. ASSUME NEW k \in 0 .. F PROVE new[k + 1] = new[k] + 2 + Len(framed'[k + 1])
    <3>1. CASE k = F
      <4>1. new[F + 1] = end[F] + (D + 2) /\ new[F] = end[F] /\ end[F] \in Nat
        BY <1>8, <1>e
      <4>2. Len(framed'[F + 1]) = D
        BY <1>4, <1>d
      <4> QED BY <3>1, <4>1, <4>2
    <3>2. CASE k < F
      <4>1. k \in 0 .. F - 1 /\ k + 1 \in 0 .. F /\ k + 1 \in 1 .. F
        BY <3>2
      <4> QED BY <1>4, <1>7, <1>8, <4>1
    <3> QED BY <3>1, <3>2
  <2>2. Underway' = new[F + 1] - new[U]
    <3>1. PICK y \in Nat, z \in Nat : y = end[U] /\ z = end[F]
      BY <1>e
    <3>2. new[F + 1] = z + (D + 2) /\ new[U] = y /\ z - y = L + W
      BY <1>7, <1>8, <1>9, <1>e, <3>1
    <3> QED BY <1>9, <3>2
  <2>3. ASSUME NEW k \in U .. F, NEW i \in 1 .. Len(framed'[k + 1]) + 2
        PROVE  ByteAt(new[k] - new[U] + i)' = Frame!SendData(framed'[k + 1])[i]
    <3>1. new[k] = end[k] /\ new[U] = end[U] /\ k \in 0 .. F /\ k >= U
      BY <1>3, <1>8
    <3> QED BY <1>10, <3>1
  <2>4. Len(framed') = F + 1 /\ Len(unframed') = U /\ F + 1 - 1 = F
    BY <1>1, <1>4, <1>a
  <2>5. /\ new \in [0 .. Len(framed') -> Nat]
        /\ \A k \in 0 .. Len(framed') - 1 : new[k + 1] = new[k] + 2 + Len(framed'[k + 1])
        /\ \A k, l \in 0 .. Len(framed') : k <= l => new[k] <= new[l]
    BY <1>8, <2>1, <2>4
  <2>6. Underway' = new[Len(framed')] - new[Len(unframed')] /\ Underway' \in Int
    BY <1>9, <2>2, <2>4
  <2>7. \A k \in Len(unframed') .. Len(framed') - 1 : \A i \in 1 .. Len(framed'[k + 1]) + 2 :
            ByteAt(new[k] - new[Len(unframed)] + i)' = Frame!SendData(framed'[k + 1])[i]
    <3>1. Len(unframed') = Len(unframed)
      BY <1>1
    <3> SUFFICES ASSUME NEW k \in Len(unframed') .. Len(framed') - 1,
                        NEW i \in 1 .. Len(framed'[k + 1]) + 2
                 PROVE  ByteAt(new[k] - new[U] + i)' = Frame!SendData(framed'[k + 1])[i]
      BY <2>4
    <3> QED BY <2>3, <2>4
  <2> QED BY <2>5, <2>6, <2>7 DEF Placed
<1>12. Len(unframed) <= Len(framed') /\ \A i \in 1 .. Len(unframed) : unframed[i] = framed'[i]
  BY <1>3, <1>4, <1>a DEF FrameIInv
<1> QED BY <1>1, <1>4, <1>5, <1>11, <1>12 DEF FrameIInv

(* The messages are where they were, in what is left of the stream.        *)
LEMMA SameStream ==
    ASSUME FrameIInv, UNCHANGED <<framed, unframed>>,
           wire' \in Seq(Byte), buffer' \in Seq(Byte), broken' \in BOOLEAN,
           Underway' <= Underway, ~broken' => ~broken /\ Underway' = Underway,
           \A j \in 1 .. Underway' : ByteAt(j)' = ByteAt(j)
    PROVE  FrameIInv'
<1>a. PICK F \in Nat, U \in Nat : F = Len(framed) /\ U = Len(unframed)
  BY DEF FrameIInv
<1>b. Underway \in Nat /\ Underway' \in Nat
  BY DEF Underway, FrameIInv
<1>1. PICK end : Placed(end)
  BY DEF FrameIInv
<1>2. /\ end \in [0 .. F -> Nat]
      /\ \A k \in 0 .. F - 1 : end[k + 1] = end[k] + 2 + Len(framed[k + 1])
      /\ \A k, l \in 0 .. F : k <= l => end[k] <= end[l]
      /\ Underway <= end[F] - end[U]
      /\ ~broken => Underway = end[F] - end[U]
  BY <1>1, <1>a DEF Placed
<1>3. U <= F /\ F \in 0 .. F /\ U \in 0 .. F /\ end[F] \in Nat /\ end[U] \in Nat
  BY <1>2, <1>a DEF FrameIInv
<1>4. /\ Underway' <= end[F] - end[U]
      /\ ~broken' => Underway' = end[F] - end[U]
  BY <1>2, <1>3, <1>b
<1>5. ASSUME NEW k \in U .. F - 1, NEW i \in 1 .. Len(framed[k + 1]) + 2,
             end[k] - end[U] + i <= Underway'
      PROVE  ByteAt(end[k] - end[U] + i)' = Frame!SendData(framed[k + 1])[i]
  <2>1. end[k] - end[U] + i <= Underway =>
            ByteAt(end[k] - end[U] + i) = Frame!SendData(framed[k + 1])[i]
    BY <1>1, <1>a DEF Placed
  <2>2. Len(framed[k + 1]) \in Nat
    <3>1. k + 1 \in 1 .. Len(framed)
      BY <1>3, <1>a
    <3>2. framed \in Seq(Message)
      BY DEF FrameIInv
    <3>3. framed[k + 1] \in Message
      BY ONLY <3>1, <3>2
    <3> QED BY <3>3 DEF Message
  <2>3. end[k] \in Nat /\ end[k] >= end[U]
    BY <1>2, <1>3
  <2>4. PICK j \in 1 .. Underway' : j = end[k] - end[U] + i
    BY <1>3, <1>5, <1>b, <2>2, <2>3
  <2>5. j <= Underway
    BY <1>b, <2>4
  <2> QED BY <2>1, <2>4, <2>5
<1>6. Len(framed') = F /\ Len(unframed') = U
  BY <1>a
<1>7. Placed(end)'
  <2>1. \A k \in Len(unframed') .. Len(framed') - 1 : \A i \in 1 .. Len(framed'[k + 1]) + 2 :
            end[k] - end[Len(unframed')] + i <= Underway' =>
                ByteAt(end[k] - end[Len(unframed)] + i)' = Frame!SendData(framed'[k + 1])[i]
    <3> SUFFICES ASSUME NEW k \in U .. F - 1, NEW i \in 1 .. Len(framed[k + 1]) + 2,
                        end[k] - end[U] + i <= Underway'
                 PROVE  ByteAt(end[k] - end[U] + i)' = Frame!SendData(framed[k + 1])[i]
      BY <1>6
    <3> QED BY <1>5
  <2>2. /\ end \in [0 .. Len(framed') -> Nat]
        /\ \A k \in 0 .. Len(framed') - 1 : end[k + 1] = end[k] + 2 + Len(framed'[k + 1])
        /\ \A k, l \in 0 .. Len(framed') : k <= l => end[k] <= end[l]
    BY <1>2, <1>6
  <2>3. /\ Underway' <= end[Len(framed')] - end[Len(unframed')]
        /\ ~broken' => Underway' = end[Len(framed')] - end[Len(unframed')]
    BY <1>4, <1>6
  <2> QED BY <2>1, <2>2, <2>3 DEF Placed
<1> QED BY <1>7 DEF FrameIInv

(* The stream breaks and loses its end.                                    *)
LEMMA BreakStep == ASSUME FrameIInv, Frame!Break PROVE FrameIInv'
<1>1. PICK n \in 0 .. Len(wire) : wire' = SubSeq(wire, 1, n)
  BY DEF Frame!Break
<1>2. wire \in Seq(Byte) /\ buffer \in Seq(Byte) /\ n \in Nat /\ n <= Len(wire)
  BY <1>1 DEF FrameIInv
<1>3. wire' \in Seq(Byte) /\ Len(wire') = n /\ \A i \in 1 .. n : wire'[i] = wire[i]
  <2>1. \A i \in 1 .. n : wire[i] \in Byte
    BY <1>2
  <2> QED BY <1>1, <1>2, <2>1, SubSeqProperties
<1>4. buffer' = buffer /\ broken' = TRUE /\ UNCHANGED <<framed, unframed>>
  BY DEF Frame!Break
<1>5. Underway' <= Underway /\ Underway \in Nat
  BY <1>2, <1>3, <1>4 DEF Underway
<1>6. ASSUME NEW j \in 1 .. Underway' PROVE ByteAt(j)' = ByteAt(j)
  BY <1>2, <1>3, <1>4 DEF ByteAt, Underway
<1> QED BY <1>2, <1>3, <1>4, <1>5, <1>6, SameStream

(* A piece of any size goes from the stream into the buffer.               *)
LEMMA RecvDataStep == ASSUME FrameIInv, Frame!RecvData PROVE FrameIInv'
<1>1. PICK n \in 1 .. Len(wire) : /\ buffer' = buffer \o SubSeq(wire, 1, n)
                                  /\ wire' = SubSeq(wire, n + 1, Len(wire))
  BY DEF Frame!RecvData
<1>2. PICK W \in Nat, L \in Nat : W = Len(wire) /\ L = Len(buffer)
  BY DEF FrameIInv
<1>3. wire \in Seq(Byte) /\ buffer \in Seq(Byte) /\ n \in Nat /\ n <= W
  BY <1>1, <1>2 DEF FrameIInv
<1>4. wire' \in Seq(Byte) /\ Len(wire') = W - n /\ \A i \in 1 .. W - n : wire'[i] = wire[n + i]
  <2>1. \A i \in n + 1 .. W : wire[i] \in Byte
    BY <1>2, <1>3
  <2>2. /\ SubSeq(wire, n + 1, W) \in Seq(Byte)
        /\ Len(SubSeq(wire, n + 1, W)) = IF n + 1 <= W THEN W - (n + 1) + 1 ELSE 0
        /\ \A i \in 1 .. W - (n + 1) + 1 : SubSeq(wire, n + 1, W)[i] = wire[(n + 1) + i - 1]
    BY <1>3, <2>1, SubSeqProperties
  <2> QED BY <1>1, <1>2, <1>3, <2>2
<1>5. PICK piece \in Seq(Byte) : /\ piece = SubSeq(wire, 1, n) /\ Len(piece) = n
                                 /\ \A i \in 1 .. n : piece[i] = wire[i]
  <2>1. \A i \in 1 .. n : wire[i] \in Byte
    BY <1>2, <1>3
  <2>2. /\ SubSeq(wire, 1, n) \in Seq(Byte) /\ Len(SubSeq(wire, 1, n)) = n
        /\ \A i \in 1 .. n : SubSeq(wire, 1, n)[i] = wire[i]
    BY <1>3, <2>1, SubSeqProperties
  <2> QED BY <2>2
<1>6. /\ buffer' \in Seq(Byte) /\ Len(buffer') = L + n
      /\ \A i \in 1 .. L + n : buffer'[i] = IF i <= L THEN buffer[i] ELSE piece[i - L]
  <2>1. /\ buffer \o piece \in Seq(Byte) /\ Len(buffer \o piece) = Len(buffer) + Len(piece)
        /\ \A i \in 1 .. Len(buffer) + Len(piece) :
              (buffer \o piece)[i] = IF i <= Len(buffer) THEN buffer[i] ELSE piece[i - Len(buffer)]
    BY ONLY <1>3, piece \in Seq(Byte), ConcatProperties
  <2> QED BY <1>1, <1>2, <1>5, <2>1
<1>7. broken' = broken /\ UNCHANGED <<framed, unframed>>
  BY DEF Frame!RecvData
<1>8. Underway' = Underway /\ Underway = L + W
  BY <1>2, <1>3, <1>4, <1>6 DEF Underway
<1>9. ASSUME NEW j \in 1 .. L + W PROVE ByteAt(j)' = ByteAt(j)
  <2>1. CASE j <= L
    BY <1>2, <1>6, <2>1 DEF ByteAt
  <2>2. CASE L < j /\ j <= L + n
    <3>1. j - L \in 1 .. n /\ ~(j <= L) /\ j \in 1 .. L + n
      BY <2>2
    <3> QED BY <1>2, <1>5, <1>6, <2>2, <3>1 DEF ByteAt
  <2>3. CASE L + n < j
    <3>1. ByteAt(j)' = wire'[j - (L + n)] /\ ByteAt(j) = wire[j - L]
      BY <1>2, <1>6, <2>3 DEF ByteAt
    <3>2. PICK i \in 1 .. W - n : i = j - (L + n)
      BY <1>3, <2>3
    <3>3. j - L = n + i
      BY <3>2
    <3> QED BY <1>4, <3>1, <3>2, <3>3
  <2> QED BY <2>1, <2>2, <2>3
<1> QED BY <1>4, <1>6, <1>7, <1>8, <1>9, SameStream DEF FrameIInv

(* What a complete message in the buffer is, and what is left.             *)
LEMMA NextMessage ==
    ASSUME FrameIInv, Frame!MessageReady
    PROVE  /\ Len(unframed) < Len(framed)
           /\ Frame!MsgSize = Len(framed[Len(unframed) + 1])
           /\ SubSeq(buffer, 3, Frame!MsgSize + 2) = framed[Len(unframed) + 1]
<1>a. PICK F \in Nat, U \in Nat, W \in Nat, L \in Nat :
          F = Len(framed) /\ U = Len(unframed) /\ W = Len(wire) /\ L = Len(buffer)
  BY DEF FrameIInv
<1>1. PICK end : Placed(end)
  BY DEF FrameIInv
<1>2. /\ end \in [0 .. F -> Nat] /\ U <= F
      /\ Underway <= end[F] - end[U] /\ Underway = L + W
      /\ \A k \in U .. F - 1 : \A i \in 1 .. Len(framed[k + 1]) + 2 :
            end[k] - end[U] + i <= Underway =>
                ByteAt(end[k] - end[U] + i) = Frame!SendData(framed[k + 1])[i]
  BY <1>1, <1>a DEF Placed, FrameIInv, Underway
<1>3. L >= 2
  BY <1>a DEF Frame!MessageReady
<1>4. U < F
  <2>1. CASE U = F
    <3>1. PICK y \in Nat : y = end[F]
      BY <1>2
    <3> QED BY <1>2, <1>3, <2>1, <3>1
  <2> QED BY <1>2, <2>1
<1>5. PICK data \in Message : data = framed[U + 1]
  <2>1. U + 1 \in 1 .. Len(framed)
    BY <1>4, <1>a
  <2> QED BY <2>1 DEF FrameIInv
<1>6. PICK D \in Nat : D = Len(data) /\ D < Base * Base
  BY DEF Message
<1>7. ASSUME NEW i \in 1 .. D + 2, i <= L PROVE buffer[i] = Frame!SendData(data)[i]
  <2>1. U \in U .. F - 1 /\ end[U] \in Nat
    BY <1>2, <1>4
  <2>2. end[U] - end[U] + i = i
    BY <2>1
  <2>3. ByteAt(i) = Frame!SendData(data)[i]
    BY <1>2, <1>5, <1>6, <1>7, <2>1, <2>2
  <2>4. ByteAt(i) = buffer[i]
    BY <1>7, <1>a DEF ByteAt
  <2> QED BY <2>3, <2>4
<1>8. buffer[1] = D % Base /\ buffer[2] = (D \div Base) % Base
  <2>1. 1 \in 1 .. D + 2 /\ 2 \in 1 .. D + 2
    OBVIOUS
  <2>2. /\ Frame!SendData(data)[1] = D % Base
        /\ Frame!SendData(data)[2] = (D \div Base) % Base
    BY <1>6, SendDataIs
  <2> QED BY <1>3, <1>7, <2>1, <2>2
<1>9. Frame!MsgSize = D
  BY <1>6, <1>8, LengthBytes DEF Frame!MsgSize
<1>10. L >= D + 2
  BY <1>9, <1>a DEF Frame!MessageReady
<1>11. ASSUME NEW i \in 1 .. D PROVE buffer[i + 2] = data[i]
  <2>1. i + 2 \in 1 .. D + 2 /\ i + 2 <= L
    BY <1>10
  <2>2. Frame!SendData(data)[i + 2] = data[i]
    BY <1>6, SendDataIs
  <2> QED BY <1>7, <2>1, <2>2
<1>12. SubSeq(buffer, 3, D + 2) = data
  <2>1. buffer \in Seq(Byte)
    BY DEF FrameIInv
  <2>2. \A i \in 3 .. D + 2 : buffer[i] \in Byte
    BY <1>10, <1>a, <2>1
  <2>3. /\ SubSeq(buffer, 3, D + 2) \in Seq(Byte)
        /\ Len(SubSeq(buffer, 3, D + 2)) = IF 3 <= D + 2 THEN (D + 2) - 3 + 1 ELSE 0
        /\ \A i \in 1 .. (D + 2) - 3 + 1 : SubSeq(buffer, 3, D + 2)[i] = buffer[3 + i - 1]
    BY <2>2, SubSeqProperties
  <2>4. /\ Len(SubSeq(buffer, 3, D + 2)) = D
        /\ \A i \in 1 .. D : SubSeq(buffer, 3, D + 2)[i] = buffer[i + 2]
    BY <2>3
  <2>5. data \in Seq(Byte)
    BY DEF Message
  <2> QED BY <1>6, <1>11, <2>3, <2>4, <2>5
<1> QED BY <1>a, <1>4, <1>5, <1>6, <1>9, <1>12

(* The message is returned, and the stream begins after it.                *)
LEMMA ReturnsStep ==
    ASSUME FrameIInv, Frame!Returns
    PROVE  FrameIInv'
<1>a. PICK F \in Nat, U \in Nat, W \in Nat, L \in Nat :
          F = Len(framed) /\ U = Len(unframed) /\ W = Len(wire) /\ L = Len(buffer)
  BY DEF FrameIInv
<1>0. Frame!MessageReady /\ UNCHANGED <<framed, wire, broken>>
  BY DEF Frame!Returns
<1>1. PICK data \in Message : data = framed[U + 1]
  <2>1. U + 1 \in 1 .. Len(framed)
    BY <1>0, <1>a, NextMessage
  <2> QED BY <2>1 DEF FrameIInv
<1>2. PICK D \in Nat : D = Len(data)
  BY DEF Message
<1>3. U < F /\ Frame!MsgSize = D /\ SubSeq(buffer, 3, D + 2) = data
  BY <1>0, <1>1, <1>2, <1>a, NextMessage
<1>4. unframed' = Append(unframed, data) /\ buffer' = SubSeq(buffer, D + 3, L) /\ D + 2 <= L
  BY <1>3, <1>a DEF Frame!Returns, Frame!GetMessage, Frame!MessageReady
<1>5. /\ buffer' \in Seq(Byte) /\ Len(buffer') = L - (D + 2)
      /\ \A i \in 1 .. L - (D + 2) : buffer'[i] = buffer[(D + 2) + i]
  <2>1. \A i \in D + 3 .. L : buffer[i] \in Byte
    BY <1>a DEF FrameIInv
  <2>2. /\ SubSeq(buffer, D + 3, L) \in Seq(Byte)
        /\ Len(SubSeq(buffer, D + 3, L)) = IF D + 3 <= L THEN L - (D + 3) + 1 ELSE 0
        /\ \A i \in 1 .. L - (D + 3) + 1 : SubSeq(buffer, D + 3, L)[i] = buffer[(D + 3) + i - 1]
    BY <2>1, SubSeqProperties
  <2> QED BY <1>4, <2>2
<1>6. /\ unframed' \in Seq(Message) /\ Len(unframed') = U + 1
      /\ \A i \in 1 .. U + 1 : unframed'[i] = framed[i]
  BY <1>1, <1>4, <1>a DEF FrameIInv
<1>7. PICK end : Placed(end)
  BY DEF FrameIInv
<1>8. /\ end \in [0 .. F -> Nat]
      /\ \A k \in 0 .. F - 1 : end[k + 1] = end[k] + 2 + Len(framed[k + 1])
      /\ \A k, l \in 0 .. F : k <= l => end[k] <= end[l]
      /\ Underway <= end[F] - end[U]
      /\ ~broken => Underway = end[F] - end[U]
      /\ \A k \in U .. F - 1 : \A i \in 1 .. Len(framed[k + 1]) + 2 :
            end[k] - end[U] + i <= Underway =>
                ByteAt(end[k] - end[U] + i) = Frame!SendData(framed[k + 1])[i]
  BY <1>7, <1>a DEF Placed
<1>9. PICK x \in Nat, y \in Nat, z \in Nat :
          x = end[U] /\ y = end[U + 1] /\ z = end[F] /\ y = x + 2 + D
  <2>1. U \in 0 .. F - 1 /\ U \in 0 .. F /\ U + 1 \in 0 .. F /\ F \in 0 .. F
    BY <1>3
  <2>2. end[U] \in Nat /\ end[U + 1] \in Nat /\ end[F] \in Nat
    BY <1>8, <2>1
  <2>3. end[U + 1] = end[U] + 2 + D
    BY <1>1, <1>2, <1>8, <2>1
  <2> QED BY <2>2, <2>3
<1>10. Underway = L + W /\ Underway' = L + W - (D + 2)
  BY <1>0, <1>5, <1>a DEF Underway
<1>11. Underway' <= z - y /\ (~broken => Underway' = z - y)
  <2>1. L + W <= z - x /\ (~broken => L + W = z - x)
    BY <1>8, <1>9, <1>10
  <2> QED BY <1>9, <1>10, <2>1
<1>12. ASSUME NEW k \in U + 1 .. F - 1, NEW i \in 1 .. Len(framed[k + 1]) + 2,
              end[k] - y + i <= Underway'
       PROVE  ByteAt(end[k] - y + i)' = Frame!SendData(framed[k + 1])[i]
  <2>1. Len(framed[k + 1]) \in Nat
    <3>1. k + 1 \in 1 .. Len(framed)
      BY <1>a
    <3>2. framed \in Seq(Message)
      BY DEF FrameIInv
    <3>3. framed[k + 1] \in Message
      BY ONLY <3>1, <3>2
    <3> QED BY <3>3 DEF Message
  <2>2. PICK q \in Nat : q = end[k] /\ q >= y
    <3>1. k \in 0 .. F /\ U + 1 \in 0 .. F /\ U + 1 <= k
      OBVIOUS
    <3>2. end[k] \in Nat /\ end[U + 1] <= end[k]
      BY <1>8, <3>1
    <3> QED BY <1>9, <3>2
  <2>3. PICK j \in Nat : j = q - y + i /\ j >= 1 /\ j <= L + W - (D + 2)
    BY <1>10, <1>12, <2>1, <2>2
  <2>4. end[k] - end[U] + i = (D + 2) + j
    <3>1. q - x + i = (D + 2) + j
      <4>1. i \in Nat /\ y = x + 2 + D /\ j = q - y + i
        BY <1>9, <2>1, <2>3
      <4> QED BY ONLY <4>1, x \in Nat, y \in Nat, q \in Nat, j \in Nat, D \in Nat
    <3> QED BY <1>9, <2>2, <3>1
  <2>5. ByteAt((D + 2) + j) = Frame!SendData(framed[k + 1])[i]
    <3>1. k \in U .. F - 1 /\ (D + 2) + j <= Underway
      BY <1>10, <2>3
    <3> QED BY <1>8, <2>4, <3>1
  <2>6. ByteAt(j)' = ByteAt((D + 2) + j)
    <3>1. CASE j <= L - (D + 2)
      <4>1. j \in 1 .. L - (D + 2) /\ (D + 2) + j <= L
        BY <1>4, <2>3, <3>1
      <4>2. ByteAt(j)' = buffer'[j]
        BY <1>5, <3>1 DEF ByteAt
      <4>3. ByteAt((D + 2) + j) = buffer[(D + 2) + j]
        BY <1>a, <4>1 DEF ByteAt
      <4> QED BY <1>5, <4>1, <4>2, <4>3
    <3>2. CASE ~(j <= L - (D + 2))
      <4>1. ByteAt(j)' = wire[j - (L - (D + 2))]
        BY <1>0, <1>5, <3>2 DEF ByteAt
      <4>2. ByteAt((D + 2) + j) = wire[(D + 2) + j - L]
        <5>1. PICK p \in Nat : p = (D + 2) + j /\ ~(p <= L)
          BY <3>2
        <5>2. ByteAt(p) = wire[p - L]
          BY <1>a, <5>1 DEF ByteAt
        <5> QED BY <5>1, <5>2
      <4>3. j - (L - (D + 2)) = (D + 2) + j - L
        OBVIOUS
      <4> QED BY <4>1, <4>2, <4>3
    <3> QED BY <3>1, <3>2
  <2> QED BY <2>2, <2>3, <2>5, <2>6
<1>13. Placed(end)'
  <2>1. \A k \in Len(unframed') .. Len(framed') - 1 : \A i \in 1 .. Len(framed'[k + 1]) + 2 :
            end[k] - end[Len(unframed')] + i <= Underway' =>
                ByteAt(end[k] - end[Len(unframed)] + i)' = Frame!SendData(framed'[k + 1])[i]
    <3> SUFFICES ASSUME NEW k \in U + 1 .. F - 1, NEW i \in 1 .. Len(framed[k + 1]) + 2,
                        end[k] - y + i <= Underway'
                 PROVE  ByteAt(end[k] - y + i)' = Frame!SendData(framed[k + 1])[i]
      <4>1. /\ Len(unframed') = U + 1 /\ Len(framed') = F /\ framed' = framed
            /\ end[Len(unframed')] = y
        BY <1>0, <1>6, <1>9, <1>a
      <4> QED BY <4>1
    <3> QED BY <1>12
  <2>2. /\ end \in [0 .. Len(framed') -> Nat]
        /\ \A k \in 0 .. Len(framed') - 1 : end[k + 1] = end[k] + 2 + Len(framed'[k + 1])
        /\ \A k, l \in 0 .. Len(framed') : k <= l => end[k] <= end[l]
    BY <1>0, <1>8, <1>a
  <2>3. /\ Underway' <= end[Len(framed')] - end[Len(unframed')]
        /\ ~broken' => Underway' = end[Len(framed')] - end[Len(unframed')]
    BY <1>0, <1>6, <1>9, <1>11, <1>a
  <2> QED BY <2>1, <2>2, <2>3 DEF Placed
<1> QED BY <1>0, <1>3, <1>5, <1>6, <1>13, <1>a DEF FrameIInv

(* Every step keeps the invariant.                                         *)
LEMMA FrameStep == FrameIInv /\ [Frame!Next]_frameVars => FrameIInv'
<1> SUFFICES ASSUME FrameIInv, [Frame!Next]_frameVars PROVE FrameIInv'
  OBVIOUS
<1>1. ASSUME UNCHANGED <<framed, wire, broken, buffer, unframed>> PROVE FrameIInv'
  <2>1. Underway' = Underway /\ Underway \in Nat /\ \A j : ByteAt(j)' = ByteAt(j)
    BY <1>1 DEF Underway, ByteAt, FrameIInv
  <2> QED BY <1>1, <2>1, SameStream DEF FrameIInv
<1>2. CASE \/ Frame!Recv \/ Frame!RecvTimeout \/ Frame!RecvFails \/ UNCHANGED frameVars
  BY <1>1, <1>2 DEF Frame!Recv, Frame!RecvTimeout, Frame!RecvFails, frameVars
<1> QED BY <1>2, SendStep, BreakStep, RecvDataStep, ReturnsStep DEF Frame!Next, Frame!Receiver

(* Every step is one of the relay, or none.                                *)
LEMMA FrameRefines ==
    ASSUME FrameIInv, [Frame!Next]_frameVars
    PROVE  [Frame!FramesRelay!Next]_<<framed, unframed>>
<1>1. ASSUME NEW data \in Contents, Frame!Send(data) PROVE Frame!FramesRelay!Next
  <2>1. framed \in Seq(Message) /\ data \in Message
    BY FramingAssumption DEF FrameIInv, Frame!FramingAssumption, Message, Byte
  <2>2. framed' = Append(framed, data) /\ unframed' = unframed
    BY <1>1 DEF Frame!Send
  <2>3. Len(framed') > Len(framed)
    BY <2>1, <2>2
  <2>4. SubSeq(Append(framed, data), 1, Len(framed)) = framed
    BY <2>1
  <2> QED BY <2>2, <2>3, <2>4 DEF Frame!FramesRelay!Next, Frame!FramesRelay!Produce
<1>2. ASSUME Frame!Returns PROVE Frame!FramesRelay!Next
  <2>a. PICK U \in Nat, F \in Nat : U = Len(unframed) /\ F = Len(framed)
    BY DEF FrameIInv
  <2>1. /\ framed' = framed /\ U < F /\ unframed' = Append(unframed, framed[U + 1])
    BY <1>2, <2>a, NextMessage DEF Frame!Returns, Frame!GetMessage
  <2>2. framed \in Seq(Message) /\ unframed \in Seq(Message) /\ framed[U + 1] \in Message
    BY <2>1, <2>a DEF FrameIInv
  <2>3. /\ unframed' \in Seq(Message) /\ Len(unframed') = U + 1
        /\ \A i \in 1 .. U + 1 : unframed'[i] = framed[i]
    BY <2>1, <2>2, <2>a DEF FrameIInv
  <2>4. /\ SubSeq(framed, 1, U + 1) \in Seq(Message) /\ Len(SubSeq(framed, 1, U + 1)) = U + 1
        /\ \A i \in 1 .. U + 1 : SubSeq(framed, 1, U + 1)[i] = framed[i]
    <3>1. \A i \in 1 .. U + 1 : framed[i] \in Message
      BY <2>1, <2>2, <2>a
    <3> QED BY <3>1, SubSeqProperties
  <2>5. unframed' = SubSeq(framed, 1, U + 1)
    BY <2>3, <2>4
  <2>6. U + 1 \in Len(unframed) + 1 .. Len(framed)
    BY <2>1, <2>a
  <2> QED BY <2>1, <2>5, <2>6 DEF Frame!FramesRelay!Next, Frame!FramesRelay!PassOn
<1>3. CASE UNCHANGED <<framed, unframed>>
  BY <1>3
<1> QED BY <1>1, <1>2, <1>3 DEF Frame!Next, Frame!Receiver, Frame!Break, Frame!Recv,
     Frame!RecvData, Frame!RecvTimeout, Frame!RecvFails, frameVars

(* Framing implements Relay (framer.go).                                   *)
THEOREM FramingIsRelay == Frame!Init /\ [][Frame!Next]_frameVars => Frame!FramesAreRelayed
<1>1. Frame!Init => Frame!FramesRelay!Init
  BY DEF Frame!Init, Frame!FramesRelay!Init
<1> QED BY <1>1, FrameInit, FrameStep, FrameRefines, PTL
        DEF Frame!FramesAreRelayed, Frame!FramesRelay!Spec

-----------------------------------------------------------------------------
(* StreamsAreRelayed holds: a session, a stream of frames and both         *)
(* directions of a bridge implement the relay, for messages of any number  *)
(* and any contents, wherever the stream is cut.                           *)
THEOREM StreamsRelayed == Spec => StreamsAreRelayed
<1>1. Init => Path!Init /\ Frame!Init /\ Bridge!Init
  BY DEF Init
<1>2. [Next]_vars =>
          [Path!Next]_linkVars /\ [Frame!Next]_frameVars /\ [Bridge!Next]_bridgeVars
  BY Parts
<1> QED BY <1>1, <1>2, LinkIsRelay, FramingIsRelay, BridgeIsRelay, PTL DEF Spec, StreamsAreRelayed
=============================================================================
