------------------------------- MODULE MCMesh -------------------------------
(***************************************************************************)
(* Four parts of pkg/netceptor that meet only in tables the others treat   *)
(* as arbitrary, checked side by side: data messages (Forwarding), the     *)
(* sessions of one node with a peer (Session), service advertisements      *)
(* (ServiceAds) and the delivery of notices inside a node (Notices).       *)
(*                                                                         *)
(* Each behaviour is one of the part named at its start; the other parts   *)
(* keep their initial state.                                               *)
(***************************************************************************)
EXTENDS Forwarding

CONSTANTS
    Sessions, Peers, NoSession, NoPeer,   \* of Session
    Links, Origin, MaxTime,               \* of ServiceAds
    Sockets                               \* of Notices

AllLinks == {l \in Nodes \X Nodes : l[1] # l[2]}   \* every node next to every other

VARIABLES
    part,                                                    \* the part that runs
    pc, remote, cancelled, greeting, conns, ownRow,          \* of Session
    open, ads, net, clock, last, tick,                       \* of ServiceAds
    broker, about, busy, alive, subscribed, relay, inner, insub, giver, reading

Sess == INSTANCE Session
Ads == INSTANCE ServiceAds
Note == INSTANCE Notices

ASSUME SessionAssumption == Sess!SessionAssumption
ASSUME ServiceAdsAssumption == Ads!ServiceAdsAssumption

sessionVars == <<pc, remote, cancelled, greeting, conns, ownRow>>
adsVars == <<open, ads, net, clock, last, tick>>
noticeVars == <<broker, about, busy, alive, subscribed, relay, inner, insub, giver, reading>>
meshVars == <<part, vars, sessionVars, adsVars, noticeVars>>

MeshInit ==
    /\ part \in {"forwarding", "session", "ads", "notices"}
    /\ Init /\ Sess!Init /\ Ads!Init /\ Note!Init
    /\ part # "forwarding" => listening = {}
    /\ part # "notices" => about = CHOOSE s \in Sockets : TRUE

MeshNext ==
    \/ part = "forwarding" /\ Next /\ UNCHANGED <<part, sessionVars, adsVars, noticeVars>>
    \/ part = "session" /\ Sess!Next /\ UNCHANGED <<part, vars, adsVars, noticeVars>>
    \/ part = "ads" /\ Ads!Next /\ UNCHANGED <<part, vars, sessionVars, noticeVars>>
    \/ part = "notices" /\ Note!Next /\ UNCHANGED <<part, vars, sessionVars, adsVars>>

(* The fairness of each part, for the one that runs.                       *)
MeshFairness ==
    /\ \A i \in Ids : WF_vars(part = "forwarding" /\ \E m \in msgs : m.id = i /\ Handle(m))
    /\ \A s \in Sessions :
          /\ WF_sessionVars(part = "session" /\ Sess!Protocol(s))
          /\ WF_sessionVars(part = "session" /\ Sess!GreetingEnds(s))
    /\ WF_noticeVars(part = "notices" /\ Note!Published)
    /\ \A s \in Sockets :
          /\ WF_noticeVars(part = "notices" /\ Note!Step(s))
          /\ WF_noticeVars(part = "notices" /\ ~reading[s] /\ Note!Close(s))

MeshSpec == MeshInit /\ [][MeshNext]_meshVars /\ MeshFairness

-----------------------------------------------------------------------------
(* Session: an entry that a session left behind in s.connections cannot    *)
(* keep its peer from connecting again (runProtocol, removeConnection).    *)
EntryIsReplaceable == Sess!EntryIsReplaceable

(* Session: every session that a backend hands over is established or over *)
(* in the end, and over if its context is cancelled (runProtocol).         *)
Settles == Sess!Settles

(* ServiceAds: when no advertisement is on its way any more, every node    *)
(* has the last one, whatever the order in which they arrived              *)
(* (handleServiceAdvertisement).                                           *)
QuietIsCurrent == Ads!QuietIsCurrent

(* Forwarding, Notices: every message, reply or notice leaves the mesh in  *)
(* the end, however the routing tables send it round, and the broker of    *)
(* the node it comes to gets rid of every notice, whoever stops reading or *)
(* closes its PacketConn meanwhile (forwardMessage, Broker.start).         *)
MessagesEnd == Vanishes /\ Note!PublishReturns
=============================================================================
