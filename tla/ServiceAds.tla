----------------------------- MODULE ServiceAds -----------------------------
(***************************************************************************)
(* Advertisements of one service, and their cancellation, flooded through  *)
(* a mesh of established connections (pkg/netceptor/netceptor.go, the      *)
(* advertised listeners of pkg/netceptor/packetconn.go).                   *)
(*                                                                         *)
(* Of an advertisement its time is kept, and whether it is a cancellation. *)
(* flood starts a goroutine for every connection, so messages on their way *)
(* are a set; equal messages are not counted.                              *)
(***************************************************************************)
EXTENDS Naturals, FiniteSets

CONSTANTS
    Nodes,
    Links,      \* pairs of neighbours, both ways
    Origin,     \* the node that listens
    MaxTime     \* bound on its clock

(* Every node can be reached from Origin: a set of nodes that nothing      *)
(* leads out of is the whole mesh.                                         *)
Connected ==
    \A S \in SUBSET Nodes :
        Origin \in S /\ (\A l \in Links : l[1] \in S => l[2] \in S) => S = Nodes

ServiceAdsAssumption ==
    /\ Origin \in Nodes
    /\ Links \subseteq Nodes \X Nodes
    /\ MaxTime \in Nat
    /\ Connected

VARIABLES
    open,       \* the listener of Origin is in its listenerRegistry
    ads,        \* time of the advertisement in serviceAdsReceived, 0 for none
    net,        \* advertisements on their way
    clock,      \* the last time that Origin took
    last,       \* time of the last advertisement sent since it was opened
    tick        \* sendServiceAds has been asked for

vars == <<open, ads, net, clock, last, tick>>

Messages == [from : Nodes, to : Nodes, time : 1 .. MaxTime, cancel : BOOLEAN]

-----------------------------------------------------------------------------
Init ==
    /\ open = FALSE
    /\ ads = [n \in Nodes |-> 0]
    /\ net = {}
    /\ clock = 0
    /\ last = 0
    /\ tick = FALSE

flood(node, time, cancel, except) ==
    {[from |-> node, to |-> n, time |-> time, cancel |-> cancel] :
        n \in {n \in Nodes \ {except} : <<node, n>> \in Links}}

(* time.Now; nothing happens twice at one time.                            *)
Now == clock + 1

(* ListenPacketAndAdvertise, AddLocalServiceAdvertisement.                 *)
Listen ==
    /\ ~open
    /\ clock + 1 < MaxTime
    /\ open' = TRUE
    /\ ads' = [ads EXCEPT ![Origin] = Now]
    /\ clock' = Now
    /\ tick' = TRUE
    /\ UNCHANGED <<net, last>>

(* sendServiceAds, when asked for or as its interval has passed.  It       *)
(* collects under the lock and floods later; net has no order, so that is  *)
(* the same as at once.                                                    *)
SendServiceAds ==
    /\ open
    /\ clock + 1 < MaxTime
    /\ net' = net \cup flood(Origin, Now, FALSE, Origin)
    /\ last' = Now
    /\ clock' = Now
    /\ tick' = FALSE
    /\ UNCHANGED <<open, ads>>

(* PacketConn.Close, RemoveLocalServiceAdvertisement.                      *)
Close ==
    /\ open
    /\ open' = FALSE
    /\ ads' = [ads EXCEPT ![Origin] = 0]
    /\ net' = net \cup flood(Origin, Now, TRUE, Origin)
    /\ clock' = Now
    /\ last' = 0
    /\ tick' = FALSE

(* Faulty variant: an advertisement that is known is kept.                 *)
KeepsKnown(node, m) == ads[node] # 0

(* keepCur of handleServiceAdvertisement.                                  *)
KeepsCurrent(node, m) == ads[node] # 0 /\ ~(m.time > ads[node])

(* handleServiceAdvertisement.  A cancellation leaves nothing behind, and  *)
(* one of a service that is not known is passed on as well.                *)
HandleServiceAdvertisement(m) ==
    /\ m \in net
    /\ IF KeepsCurrent(m.to, m)
       THEN /\ net' = net \ {m}
            /\ UNCHANGED ads
       ELSE /\ ads' = [ads EXCEPT ![m.to] = IF m.cancel THEN 0 ELSE m.time]
            /\ net' = (net \ {m}) \cup flood(m.to, m.time, m.cancel, m.from)
    /\ UNCHANGED <<open, clock, last, tick>>

-----------------------------------------------------------------------------
Next == Listen \/ SendServiceAds \/ Close \/ \E m \in net : HandleServiceAdvertisement(m)

Spec == Init /\ [][Next]_vars

-----------------------------------------------------------------------------
(* When nothing is on its way any more, every other node has the last      *)
(* advertisement, whatever the order in which they arrived.                *)
QuietIsCurrent == net = {} /\ last # 0 => \A n \in Nodes \ {Origin} : ads[n] = last
=============================================================================
