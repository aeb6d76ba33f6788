----------------------------- MODULE MeshProofs -----------------------------
(***************************************************************************)
(* Proofs about data messages (Forwarding), sessions (Session) and service *)
(* advertisements (ServiceAds): the first for any nodes, calls and limit   *)
(* on the hops, the second for any number of sessions and peers, the third *)
(* for every mesh in which Origin reaches every node.                      *)
(*                                                                         *)
(* Forwarding: a message that is still in the mesh is within its budget,   *)
(* it is the only one of its call, nothing has been reported about its     *)
(* call yet, and if it is a notice it is on its way to the sender of an    *)
(* ordinary message.                                                       *)
(***************************************************************************)
EXTENDS MCMesh, TLAPS

GoodAbout(a) ==
    /\ a \in Abouts
    /\ a.kind # "unreach"
    /\ a.problem = "expired" => a.travelled = a.budget

GoodMessage(m) ==
    /\ m \in Messages
    /\ m.hops + m.travelled = m.budget
    /\ m.budget <= MaxHops
    /\ m.kind = "unreach" => GoodAbout(m.about) /\ m.to = m.about.from

Live ==
    \A m \in msgs : GoodMessage(m) /\ sender[m.id] # NoNode /\ outcomes[m.id] = 0

GoodNotices ==
    \A n \in notices :
        /\ n \in [node : Nodes, about : Abouts \cup {NoAbout}]
        /\ GoodAbout(n.about)
        /\ n.node = n.about.from

Tables ==
    /\ listening \subseteq Nodes
    /\ sender \in [Ids -> Nodes \cup {NoNode}]
    /\ outcomes \in [Ids -> {0, 1}]
    /\ \A i \in Ids : sender[i] = NoNode => outcomes[i] = 0

IInv ==
    /\ Tables
    /\ Live
    /\ OneMessagePerCall
    /\ GoodNotices

-----------------------------------------------------------------------------
(* A fresh message with a budget below the limit is good.                  *)
LEMMA MessageGood ==
    ASSUME NEW i \in Ids, NEW kind \in Kinds \ {"unreach"}, NEW from \in Nodes,
           NEW to \in Nodes, NEW hops \in 0..MaxHops
    PROVE  /\ GoodMessage(Message(i, kind, from, to, hops, NoAbout))
           /\ Message(i, kind, from, to, hops, NoAbout).id = i
<1>1. hops \in 0..(Byte - 1) /\ 0 \in 0..(Byte - 1)
  BY ForwardingAssumption DEF Byte
<1>2. Message(i, kind, from, to, hops, NoAbout) \in Messages
  BY <1>1 DEF Message, Messages
<1>3. hops + 0 = hops /\ hops <= MaxHops
  BY ForwardingAssumption DEF Byte
<1> QED
  BY <1>2, <1>3 DEF Message, GoodMessage

(* A notice about a good message that is not a notice is good, provided    *)
(* that it only speaks of expiry when the hops are used up.                *)
LEMMA NoticeGood ==
    ASSUME NEW m, GoodMessage(m), Notifiable(m), NEW problem \in Problems,
           problem = "expired" => m.travelled = m.budget
    PROVE  GoodMessage(Notice(m, problem)) /\ Notice(m, problem).id = m.id
<1> DEFINE a == [kind |-> m.kind, from |-> m.from, to |-> m.to,
                 travelled |-> m.travelled, budget |-> m.budget,
                 problem |-> problem]
<1>1. m \in Messages
  BY DEF GoodMessage
<1>2. a \in Abouts
  BY <1>1 DEF Messages, Abouts
<1>3. GoodAbout(a)
  BY <1>2 DEF GoodAbout, Notifiable
<1>4. MaxHops \in 0..(Byte - 1) /\ 0 \in 0..(Byte - 1)
  BY ForwardingAssumption DEF Byte
<1>5. Notice(m, problem) =
        [id |-> m.id, kind |-> "unreach", from |-> m.at, to |-> m.from,
         at |-> m.at, hops |-> MaxHops, travelled |-> 0, budget |-> MaxHops,
         about |-> a]
  BY DEF Notice, Message
<1>6. Notice(m, problem) \in Messages
  BY <1>1, <1>2, <1>4, <1>5 DEF Messages, Kinds
<1>7. MaxHops + 0 = MaxHops /\ MaxHops <= MaxHops
  BY ForwardingAssumption DEF Byte
<1> QED
  BY <1>3, <1>5, <1>6, <1>7 DEF GoodMessage

(* The byte's arithmetic.                                                  *)
LEMMA HopArithmetic ==
    ASSUME NEW h \in 0..255, NEW t \in 0..255, NEW b \in 0..255, h > 0, h + t = b
    PROVE  /\ Decrement(h) \in 0..255 /\ t + 1 \in 0..255
           /\ Decrement(h) + (t + 1) = b
<1>1. Decrement(h) = h - 1
  BY DEF Decrement, Byte
<1> QED
  BY <1>1

(* One hop takes one off the byte and stays within the budget.             *)
LEMMA HopGood ==
    ASSUME NEW m, GoodMessage(m), ~Expired(m), NEW next \in Nodes
    PROVE  GoodMessage(Hop(m, next)) /\ Hop(m, next).id = m.id
<1>1. /\ m \in Messages /\ m.hops \in 0..255 /\ m.travelled \in 0..255
      /\ m.budget \in 0..255
      /\ m.hops + m.travelled = m.budget /\ m.budget <= MaxHops
  BY DEF GoodMessage, Messages, Byte
<1>2. m.hops > 0
  BY <1>1 DEF Expired
<1>3. PICK h \in 0..255, t \in 0..255, b \in 0..255 :
          h = m.hops /\ t = m.travelled /\ b = m.budget
  BY <1>1
<1>4. h > 0 /\ h + t = b
  BY <1>1, <1>2, <1>3
<1>5. Decrement(h) \in 0..255 /\ t + 1 \in 0..255 /\ Decrement(h) + (t + 1) = b
  BY <1>4, HopArithmetic
<1>6. /\ Hop(m, next).hops = Decrement(h) /\ Hop(m, next).travelled = t + 1
      /\ Hop(m, next).budget = b /\ Hop(m, next).id = m.id
      /\ Hop(m, next).kind = m.kind /\ Hop(m, next).to = m.to
      /\ Hop(m, next).about = m.about
  BY <1>1, <1>3 DEF Hop, Messages
<1>7. Hop(m, next) \in Messages
  <2>1. Decrement(m.hops) \in 0..(Byte - 1) /\ m.travelled + 1 \in 0..(Byte - 1)
    BY <1>3, <1>5 DEF Byte
  <2> QED
    BY <1>1, <2>1 DEF Hop, Messages
<1> QED
  BY <1>1, <1>3, <1>5, <1>6, <1>7 DEF GoodMessage

(* A step that replaces a message by at most one good message of the same  *)
(* call, and reports nothing, preserves the invariant.                     *)
LEMMA ReplaceIInv ==
    ASSUME IInv, NEW m \in msgs, NEW S,
           \A x \in S : GoodMessage(x) /\ x.id = m.id,
           \A x, y \in S : x = y,
           msgs' = (msgs \ {m}) \cup S,
           listening' \subseteq Nodes,
           UNCHANGED <<sender, outcomes, notices>>
    PROVE  IInv'
<1>1. Tables' /\ GoodNotices'
  BY DEF IInv, Tables, GoodNotices
<1>2. Live'
  BY DEF IInv, Live
<1>3. OneMessagePerCall'
  BY DEF IInv, OneMessagePerCall
<1> QED
  BY <1>1, <1>2, <1>3 DEF IInv

(* The same when nothing, or one message, takes its place.                 *)
LEMMA DropIInv ==
    ASSUME IInv, NEW m \in msgs,
           msgs' = msgs \ {m}, listening' \subseteq Nodes,
           UNCHANGED <<sender, outcomes, notices>>
    PROVE  IInv'
<1> DEFINE S == {}
<1>1. msgs' = (msgs \ {m}) \cup S /\ \A x \in S : FALSE
  OBVIOUS
<1> HIDE DEF S
<1> QED
  BY <1>1, ReplaceIInv

(* Replacing a message by its successor, the same call on its way with a   *)
(* budget that still adds up, keeps the strengthening.                     *)
LEMMA SwapIInv ==
    ASSUME IInv, NEW m \in msgs, NEW x, GoodMessage(x), x.id = m.id,
           msgs' = (msgs \ {m}) \cup {x}, listening' \subseteq Nodes,
           UNCHANGED <<sender, outcomes, notices>>
    PROVE  IInv'
<1> DEFINE S == {x}
<1>1. msgs' = (msgs \ {m}) \cup S /\ \A y \in S : y = x
  OBVIOUS
<1> HIDE DEF S
<1> QED
  BY <1>1, ReplaceIInv

(* A step that takes a message out and reports on its call preserves the   *)
(* invariant.                                                              *)
LEMMA ReportIInv ==
    ASSUME IInv, NEW m \in msgs,
           msgs' = msgs \ {m}, Told(m.id) \/ UNCHANGED outcomes,
           UNCHANGED <<listening, sender>>, GoodNotices'
    PROVE  IInv'
<1>1. m.id \in Ids /\ sender[m.id] # NoNode /\ outcomes[m.id] = 0
  BY DEF IInv, Live, GoodMessage, Messages
<1>2. \A i \in Ids \ {m.id} : outcomes'[i] = outcomes[i]
  BY DEF IInv, Tables, Told
<1>3. outcomes' \in [Ids -> {0, 1}]
  BY <1>1 DEF IInv, Tables, Told
<1>4. Tables'
  BY <1>1, <1>2, <1>3 DEF IInv, Tables
<1>5. \A x \in msgs' : x \in msgs /\ x.id # m.id
  BY DEF IInv, OneMessagePerCall
<1>6. \A x \in msgs' : x.id \in Ids
  BY <1>5 DEF IInv, Live, GoodMessage, Messages
<1>7. Live'
  BY <1>2, <1>5, <1>6 DEF IInv, Live
<1>8. OneMessagePerCall'
  BY DEF IInv, OneMessagePerCall
<1> QED
  BY <1>4, <1>7, <1>8 DEF IInv

(* At the start there is no message.                                       *)
LEMMA InitIInv == Init => IInv
  BY DEF Init, IInv, Tables, Live, OneMessagePerCall, GoodNotices

(* A call uses an id that no message has yet.                              *)
LEMMA SendIInv ==
    ASSUME IInv, NEW i \in Ids, Send(i)
    PROVE  IInv'
<1>1. PICK n \in listening, to \in Nodes, kind \in {"data", "ping"}, hops \in 0..MaxHops :
          /\ msgs' = msgs \cup {Message(i, kind, n, to, hops, NoAbout)}
          /\ sender' = [sender EXCEPT ![i] = n]
  BY DEF Send
<1> DEFINE new == Message(i, kind, n, to, hops, NoAbout)
<1>2. n \in Nodes /\ n # NoNode
  BY ForwardingAssumption DEF IInv, Tables
<1>3. GoodMessage(new) /\ new.id = i
  BY <1>2, MessageGood DEF Kinds
<1>4. sender[i] = NoNode /\ outcomes[i] = 0 /\ UNCHANGED <<listening, outcomes, notices>>
  BY DEF Send, IInv, Tables
<1>5. \A m \in msgs : m.id # i /\ m.id \in Ids
  BY <1>4 DEF IInv, Live, GoodMessage, Messages
<1>6. Tables'
  BY <1>1, <1>2, <1>4 DEF IInv, Tables
<1>7. Live'
  <2>1. sender'[i] # NoNode /\ \A m \in msgs : sender'[m.id] = sender[m.id]
    BY <1>1, <1>2, <1>5 DEF IInv, Tables
  <2> HIDE DEF new
  <2> QED
    BY <1>1, <1>3, <1>4, <2>1 DEF IInv, Live, new
<1>8. OneMessagePerCall'
  <2> HIDE DEF new
  <2>1. msgs' = msgs \cup {new}
    BY <1>1 DEF new
  <2> QED
    BY <1>3, <1>5, <2>1 DEF IInv, OneMessagePerCall
<1>9. GoodNotices'
  BY <1>4 DEF IInv, GoodNotices
<1> QED
  BY <1>6, <1>7, <1>8, <1>9 DEF IInv

(* Every way a message can be handled preserves the invariant.             *)
LEMMA HandleIInv ==
    ASSUME IInv, NEW m \in msgs, Handle(m)
    PROVE  IInv'
<1>0. GoodMessage(m) /\ m \in Messages /\ m.id \in Ids /\ listening \subseteq Nodes
  BY DEF IInv, Live, Tables, GoodMessage, Messages
<1>1. CASE FirewallDrops(m) \/ Lost(m)
  <2>1. /\ msgs' = msgs \ {m} /\ listening' \subseteq Nodes
        /\ UNCHANGED <<sender, outcomes, notices>>
    BY <1>0, <1>1 DEF FirewallDrops, Lost
  <2> QED
    BY <2>1, DropIInv
<1>2. CASE FirewallRejects(m)
  <2> DEFINE S == NoticeUnlessUnreach(m, "rejected")
  <2>1. \A x \in S : GoodMessage(x) /\ x.id = m.id
    BY <1>0, NoticeGood DEF NoticeUnlessUnreach, Problems
  <2>2. \A x, y \in S : x = y
    BY DEF NoticeUnlessUnreach
  <2>3. /\ msgs' = (msgs \ {m}) \cup S /\ listening' \subseteq Nodes
        /\ UNCHANGED <<sender, outcomes, notices>>
    BY <1>0, <1>2 DEF FirewallRejects
  <2> HIDE DEF S
  <2> QED
    BY <2>1, <2>2, <2>3, ReplaceIInv
<1>3. CASE Delivers(m)
  <2>1. GoodNotices'
    BY <1>3 DEF IInv, GoodNotices, Delivers
  <2> QED
    BY <1>3, <2>1, ReportIInv DEF Delivers
<1>4. CASE ListenerCloses(m)
  <2>1. /\ msgs' = msgs \ {m} /\ listening' \subseteq Nodes
        /\ UNCHANGED <<sender, outcomes, notices>>
    BY <1>0, <1>4 DEF ListenerCloses
  <2> QED
    BY <2>1, DropIInv
<1>5. CASE ServiceUnknown(m)
  <2>1. CASE m.from = m.at
    <3>1. /\ msgs' = msgs \ {m} /\ (Told(m.id) \/ UNCHANGED outcomes)
          /\ UNCHANGED <<listening, sender, notices>>
      BY <1>5, <2>1 DEF ServiceUnknown
    <3>2. GoodNotices'
      BY <3>1 DEF IInv, GoodNotices
    <3> QED
      BY <3>1, <3>2, ReportIInv
  <2>2. CASE m.from # m.at
    <3> DEFINE x == Notice(m, "unknown")
    <3>1. Notifiable(m) /\ "unknown" \in Problems
      BY <1>5 DEF ServiceUnknown, Notifiable, Problems
    <3>2. GoodMessage(x) /\ x.id = m.id
      BY <1>0, <3>1, NoticeGood
    <3>3. /\ msgs' = (msgs \ {m}) \cup {x} /\ listening' \subseteq Nodes
          /\ UNCHANGED <<sender, outcomes, notices>>
      BY <1>0, <1>5, <2>2 DEF ServiceUnknown
    <3> HIDE DEF x
    <3> QED
      BY <3>2, <3>3, SwapIInv
  <2> QED
    BY <2>1, <2>2
<1>6. CASE AnswersPing(m)
  <2> DEFINE x == Message(m.id, "reply", m.at, m.from, MaxHops, NoAbout)
  <2>1. m.at \in Nodes /\ m.from \in Nodes /\ MaxHops \in 0..MaxHops
    BY <1>0, ForwardingAssumption DEF Messages, Byte
  <2>2. GoodMessage(x) /\ x.id = m.id
    BY <1>0, <2>1, MessageGood DEF Kinds
  <2>3. /\ msgs' = (msgs \ {m}) \cup {x} /\ listening' \subseteq Nodes
        /\ UNCHANGED <<sender, outcomes, notices>>
    BY <1>0, <1>6 DEF AnswersPing
  <2> HIDE DEF x
  <2> QED
    BY <2>2, <2>3, SwapIInv
<1>7. CASE PublishesNotice(m)
  <2>1. m.kind = "unreach" /\ m.at = m.to
    BY <1>7 DEF PublishesNotice
  <2>2. GoodAbout(m.about) /\ m.at = m.about.from /\ m.at \in Nodes
    BY <1>0, <2>1 DEF GoodMessage, Messages
  <2>3. notices' = notices \cup {[node |-> m.at, about |-> m.about]}
    BY <1>7 DEF PublishesNotice
  <2>4. GoodNotices'
    BY <2>2, <2>3 DEF IInv, GoodNotices, GoodAbout
  <2>5. /\ msgs' = msgs \ {m} /\ (Told(m.id) \/ UNCHANGED outcomes)
        /\ UNCHANGED <<listening, sender>>
    BY <1>7 DEF PublishesNotice
  <2> QED
    BY <2>4, <2>5, ReportIInv
<1>8. CASE Expires(m)
  <2> DEFINE S == NoticeUnlessUnreach(m, "expired")
  <2>1. m.travelled = m.budget
    BY <1>0, <1>8 DEF Expires, Expired, GoodMessage, Messages, Byte
  <2>2. \A x \in S : GoodMessage(x) /\ x.id = m.id
    BY <1>0, <2>1, NoticeGood DEF NoticeUnlessUnreach, Problems
  <2>3. \A x, y \in S : x = y
    BY DEF NoticeUnlessUnreach
  <2>4. /\ msgs' = (msgs \ {m}) \cup S /\ listening' \subseteq Nodes
        /\ UNCHANGED <<sender, outcomes, notices>>
    BY <1>0, <1>8 DEF Expires
  <2> HIDE DEF S
  <2> QED
    BY <2>2, <2>3, <2>4, ReplaceIInv
<1>9. CASE Forwards(m)
  <2>1. PICK next \in Nodes \ {m.at} : msgs' = (msgs \ {m}) \cup {Hop(m, next)}
    BY <1>9 DEF Forwards
  <2> DEFINE x == Hop(m, next)
  <2>2. GoodMessage(x) /\ x.id = m.id
    BY <1>0, <1>9, HopGood DEF Forwards
  <2>3. /\ msgs' = (msgs \ {m}) \cup {x} /\ listening' \subseteq Nodes
        /\ UNCHANGED <<sender, outcomes, notices>>
    BY <1>0, <1>9, <2>1 DEF Forwards
  <2> HIDE DEF x
  <2> QED
    BY <2>2, <2>3, SwapIInv
<1>10. CASE NoRoute(m)
  <2>1. /\ msgs' = msgs \ {m} /\ (Told(m.id) \/ UNCHANGED outcomes)
        /\ UNCHANGED <<listening, sender, notices>>
    BY <1>10 DEF NoRoute
  <2>2. GoodNotices'
    BY <2>1 DEF IInv, GoodNotices
  <2> QED
    BY <2>1, <2>2, ReportIInv
<1> QED
  BY <1>1, <1>2, <1>3, <1>4, <1>5, <1>6, <1>7, <1>8, <1>9, <1>10 DEF Handle

(* Sending, a new listener and every handler of a message keep the         *)
(* strengthening.                                                          *)
LEMMA NextIInv == IInv /\ [Next]_vars => IInv'
<1> SUFFICES ASSUME IInv, [Next]_vars PROVE IInv'
  OBVIOUS
<1>1. ASSUME NEW n \in Nodes, Listen(n) PROVE IInv'
  BY <1>1 DEF Listen, IInv, Tables, Live, OneMessagePerCall, GoodNotices
<1>2. CASE UNCHANGED vars
  BY <1>2 DEF vars, IInv, Tables, Live, OneMessagePerCall, GoodNotices
<1> QED
  BY <1>1, <1>2, SendIInv, HandleIInv DEF Next

-----------------------------------------------------------------------------
(* The inductive invariant holds of every behaviour of the mesh.           *)
THEOREM Invariance == Spec => []IInv
  BY InitIInv, NextIInv, PTL DEF Spec

(* Type correctness of messages, notices and node state.                   *)
THEOREM TypeCorrect == Spec => []TypeOK
<1>1. IInv => TypeOK
  BY DEF IInv, Tables, Live, GoodNotices, GoodMessage, TypeOK
<1> QED
  BY <1>1, Invariance, PTL

(* No message is forwarded more often than its HopsToLive said, whatever   *)
(* the routing tables of the nodes.                                        *)
THEOREM BoundedTravel == Spec => []HopBudget
<1>1. IInv => HopBudget
  BY DEF IInv, Live, GoodMessage, HopBudget
<1> QED
  BY <1>1, Invariance, PTL

(* The mesh never multiplies the traffic of a call.                        *)
THEOREM NoMultiplication == Spec => []OneMessagePerCall
<1>1. IInv => OneMessagePerCall
  BY DEF IInv
<1> QED
  BY <1>1, Invariance, PTL

(* At most one of delivery, reply, notice and error comes of a call.       *)
THEOREM AtMostOneOutcome == Spec => []OneOutcome
<1>1. IInv => OneOutcome
  BY DEF IInv, Tables, OneOutcome
<1> QED
  BY <1>1, Invariance, PTL

(* Notices reach the node that sent the message they are about.            *)
THEOREM NoticesReachSender == Spec => []NoticeReachesSender
<1>1. IInv => NoticeReachesSender
  BY ForwardingAssumption DEF IInv, GoodNotices, GoodAbout, NoticeReachesSender
<1> QED
  BY <1>1, Invariance, PTL

(* What traceroute relies on.                                              *)
THEOREM ExpiryIsExact == Spec => []ExpiredAfterAllHops
<1>1. IInv => ExpiredAfterAllHops
  BY DEF IInv, GoodNotices, GoodAbout, ExpiredAfterAllHops
<1> QED
  BY <1>1, Invariance, PTL

-----------------------------------------------------------------------------
(* Session: an entry of s.connections is of a session that has got past    *)
(* the check with that peer and has not been through remove2; if its       *)
(* runProtocol is at its end, its context is cancelled.                    *)
SessionEntry ==
    \A p \in Peers : \A s \in Sessions : conns[p] = s =>
        /\ remote[s] = p
        /\ pc[s] \notin {"new", "init", "check", "remove2"}
        /\ pc[s] \in {"return", "ended"} => cancelled[s]

SessionIInv == Sess!TypeOK /\ SessionEntry

(* At the start no session is in s.connections.                            *)
LEMMA SessionInit == Sess!Init => SessionIInv
BY SessionAssumption
   DEF Sess!SessionAssumption, Sess!Init, SessionIInv, Sess!TypeOK, SessionEntry, Sess!Stages

(* Every step of a session keeps what is known of the entries: Register    *)
(* enters a session that runs on, removeConnection takes the entry out     *)
(* before the session leaves runProtocol, or its context is cancelled.     *)
LEMMA SessionNext == SessionIInv /\ [Sess!Next]_sessionVars => SessionIInv'
<1> SUFFICES ASSUME SessionIInv, [Sess!Next]_sessionVars PROVE SessionIInv'
  OBVIOUS
<1> USE SessionAssumption
    DEF Sess!SessionAssumption, SessionIInv, Sess!TypeOK, SessionEntry, Sess!Stages, Sess!To
<1>1. ASSUME NEW s \in Sessions, Sess!Start(s) \/ Sess!NotAcceptable(s) \/ Sess!Disagree(s)
      PROVE SessionIInv'
  <2>1. CASE Sess!Start(s)
    BY <2>1 DEF Sess!Start
  <2>2. CASE Sess!NotAcceptable(s)
    BY <2>2 DEF Sess!NotAcceptable
  <2>3. CASE Sess!Disagree(s)
    BY <2>3 DEF Sess!Disagree
  <2> QED BY <1>1, <2>1, <2>2, <2>3
<1>2. ASSUME NEW s \in Sessions, Sess!Protocol(s)
      PROVE SessionIInv'
  <2>1. CASE Sess!Register(s)
    BY <2>1 DEF Sess!Register
  <2>2. CASE Sess!Duplicate(s) \/ Sess!FindCancelled(s)
    BY <2>2 DEF Sess!Duplicate, Sess!FindCancelled
  <2>3. CASE Sess!Purge1(s) \/ Sess!Remove1(s)
    BY <2>3 DEF Sess!Purge1, Sess!Remove1, Sess!DeleteEntry
  <2>4. CASE Sess!Purge2(s) \/ Sess!Remove2(s)
    BY <2>4 DEF Sess!Purge2, Sess!Remove2, Sess!DeleteCost
  <2>5. CASE Sess!Relock(s)
    BY <2>5 DEF Sess!Relock
  <2>6. CASE Sess!Offer(s)
    BY <2>6 DEF Sess!Offer
  <2>8. CASE Sess!EnterCost(s)
    BY <2>8 DEF Sess!EnterCost
  <2>9. CASE Sess!AskFlood(s) \/ Sess!AskUpdate(s)
    BY <2>9 DEF Sess!AskFlood, Sess!AskUpdate
  <2>7. CASE Sess!SeeDone(s) \/ Sess!Return(s)
    BY <2>7 DEF Sess!SeeDone, Sess!Return
  <2> QED BY <1>2, <2>1, <2>2, <2>3, <2>4, <2>5, <2>6, <2>7, <2>8, <2>9 DEF Sess!Protocol
<1>3. ASSUME NEW s \in Sessions, NEW p \in Peers, Sess!FirstUpdate(s, p)
      PROVE SessionIInv'
  BY <1>3 DEF Sess!FirstUpdate
<1>4. ASSUME NEW s \in Sessions, Sess!LinkFails(s) \/ Sess!GreetingEnds(s)
      PROVE SessionIInv'
  <2>1. CASE Sess!LinkFails(s)
    BY <2>1 DEF Sess!LinkFails
  <2>2. CASE Sess!GreetingEnds(s)
    BY <2>2 DEF Sess!GreetingEnds
  <2> QED BY <1>4, <2>1, <2>2
<1>5. ASSUME NEW p \in Peers, Sess!IdleTimeout(p)
      PROVE SessionIInv'
  BY <1>5 DEF Sess!IdleTimeout
<1>6. ASSUME UNCHANGED sessionVars PROVE SessionIInv'
  BY <1>6 DEF sessionVars
<1> QED BY <1>1, <1>2, <1>3, <1>4, <1>5, <1>6 DEF Sess!Next

(* An entry that a session left behind in s.connections cannot keep its    *)
(* peer from connecting again (runProtocol, removeConnection), for any     *)
(* number of sessions and peers.                                           *)
THEOREM EntriesReplaceable == MeshSpec => []EntryIsReplaceable
<1>1. MeshInit => SessionIInv
  BY SessionInit DEF MeshInit
<1>2. SessionIInv /\ [MeshNext]_meshVars => SessionIInv'
  BY SessionNext DEF MeshNext, meshVars
<1>3. SessionIInv => EntryIsReplaceable
  BY DEF SessionIInv, SessionEntry, Sess!TypeOK, EntryIsReplaceable, Sess!EntryIsReplaceable
<1> QED BY <1>1, <1>2, <1>3, PTL DEF MeshSpec

-----------------------------------------------------------------------------
(* A node that has the last advertisement, or sent it.                     *)
HasLast(n) == n = Origin \/ ads[n] = last

(* The last advertisement is at a node, or on its way there.               *)
Reaches(n) == ads[n] = last \/ \E m \in net : m.to = n /\ m.time = last

(* Nothing is ahead of the clock of Origin, and the last advertisement is  *)
(* the last thing that Origin did.                                         *)
AdsTypes ==
    /\ ads \in [Nodes -> Nat] /\ clock \in Nat /\ last \in Nat
    /\ \A n \in Nodes : ads[n] <= clock
    /\ \A m \in net : /\ m.from \in Nodes /\ m.to \in Nodes
                      /\ m.time \in Nat \ {0} /\ m.time <= clock
    /\ last # 0 => open /\ last = clock

(* Only who has the last advertisement passes it on, and whoever is next   *)
(* to one who has it has it too, or it is on its way there.                *)
AdsSpread ==
    last # 0 =>
        /\ \A m \in net : m.time = last => m.cancel = FALSE /\ HasLast(m.from)
        /\ \A a, b \in Nodes : <<a, b>> \in Links /\ b # Origin /\ HasLast(a) => Reaches(b)

AdsIInv == AdsTypes /\ AdsSpread

(* Before the listener opens there is nothing to spread.                   *)
LEMMA AdsInit == Ads!Init => AdsIInv
BY DEF Ads!Init, AdsIInv, AdsTypes, AdsSpread

(* flood sends what it is given, from the node it is given, to every       *)
(* neighbour but one.                                                      *)
LEMMA FloodIs ==
    ASSUME NEW node, NEW time, NEW cancel, NEW except
    PROVE  /\ \A m \in Ads!flood(node, time, cancel, except) :
                 m.from = node /\ m.to \in Nodes /\ m.time = time /\ m.cancel = cancel
           /\ \A n \in Nodes \ {except} : <<node, n>> \in Links =>
                 \E m \in Ads!flood(node, time, cancel, except) : m.to = n /\ m.time = time
<1>1. ASSUME NEW m \in Ads!flood(node, time, cancel, except)
      PROVE  m.from = node /\ m.to \in Nodes /\ m.time = time /\ m.cancel = cancel
  <2>1. PICK n \in {k \in Nodes \ {except} : <<node, k>> \in Links} :
            m = [from |-> node, to |-> n, time |-> time, cancel |-> cancel]
    BY <1>1 DEF Ads!flood
  <2> QED BY <2>1
<1>2. ASSUME NEW n \in Nodes \ {except}, <<node, n>> \in Links
      PROVE  \E m \in Ads!flood(node, time, cancel, except) : m.to = n /\ m.time = time
  <2>1. PICK m : m = [from |-> node, to |-> n, time |-> time, cancel |-> cancel]
    OBVIOUS
  <2>2. m \in Ads!flood(node, time, cancel, except)
    BY <1>2, <2>1 DEF Ads!flood
  <2> QED BY <2>1, <2>2
<1> QED BY <1>1, <1>2

(* Every step keeps the spreading: a node that takes the last              *)
(* advertisement floods it to every neighbour but the one it came from,    *)
(* which has it, and one that keeps what it has has it already             *)
(* (handleServiceAdvertisement).                                           *)
LEMMA AdsStep == AdsIInv /\ [Ads!Next]_adsVars => AdsIInv'
<1> SUFFICES ASSUME AdsIInv, [Ads!Next]_adsVars PROVE AdsIInv'
  OBVIOUS
<1>0. Origin \in Nodes
  BY ServiceAdsAssumption DEF Ads!ServiceAdsAssumption
<1> USE DEF AdsIInv
<1>1. CASE Ads!Listen
  BY <1>0, <1>1 DEF Ads!Listen, Ads!Now, AdsTypes, AdsSpread
<1>2. CASE Ads!SendServiceAds
  <2>1. /\ net' = net \cup Ads!flood(Origin, clock + 1, FALSE, Origin)
        /\ last' = clock + 1 /\ clock' = clock + 1 /\ UNCHANGED <<open, ads>> /\ open
    BY <1>2 DEF Ads!SendServiceAds, Ads!Now
  <2>a. PICK now \in Nat : now = clock + 1
    BY DEF AdsTypes
  <2>b. PICK no \in BOOLEAN : no = FALSE
    OBVIOUS
  <2>2. PICK new : new = Ads!flood(Origin, now, no, Origin)
    OBVIOUS
  <2>3. /\ \A m \in new : m.from = Origin /\ m.to \in Nodes /\ m.time = now /\ m.cancel = no
        /\ \A n \in Nodes \ {Origin} : <<Origin, n>> \in Links =>
              \E m \in new : m.to = n /\ m.time = now
    BY ONLY <2>2, FloodIs
  <2>4. net' = net \cup new
    BY <2>1, <2>2, <2>a, <2>b
  <2>5. AdsTypes'
    <3>1. clock \in Nat /\ last' = now /\ clock' = now /\ now # 0 /\ now >= clock
      BY <2>1, <2>a DEF AdsTypes
    <3>2. \A n \in Nodes : ads'[n] <= clock'
      BY <2>1, <3>1 DEF AdsTypes
    <3>3. \A m \in net' : /\ m.from \in Nodes /\ m.to \in Nodes
                          /\ m.time \in Nat \ {0} /\ m.time <= clock'
      BY <1>0, <2>3, <2>4, <3>1 DEF AdsTypes
    <3> QED BY <2>1, <3>1, <3>2, <3>3 DEF AdsTypes
  <2>6. \A m \in net' : m.time = last' => m.cancel = FALSE /\ HasLast(m.from)'
    <3> SUFFICES ASSUME NEW m \in net', m.time = last' PROVE m.cancel = FALSE /\ HasLast(m.from)'
      OBVIOUS
    <3>1. m \notin net
      BY <2>1 DEF AdsTypes
    <3> QED BY <2>3, <2>4, <2>b, <3>1 DEF HasLast
  <2>7. \A a, b \in Nodes : <<a, b>> \in Links /\ b # Origin /\ HasLast(a)' => Reaches(b)'
    <3> SUFFICES ASSUME NEW a \in Nodes, NEW b \in Nodes, <<a, b>> \in Links,
                        b # Origin, HasLast(a)'
                 PROVE  Reaches(b)'
      OBVIOUS
    <3>1. a = Origin
      BY <2>1 DEF HasLast, AdsTypes
    <3>2. PICK m \in new : m.to = b /\ m.time = now
      BY <2>3, <3>1
    <3> QED BY <2>1, <2>4, <2>a, <3>2 DEF Reaches
  <2> QED BY <2>5, <2>6, <2>7 DEF AdsSpread
<1>3. CASE Ads!Close
  <2>a. PICK now \in Nat : now = clock + 1
    BY DEF AdsTypes
  <2>b. PICK yes \in BOOLEAN : yes = TRUE
    OBVIOUS
  <2>1. /\ net' = net \cup Ads!flood(Origin, now, yes, Origin)
        /\ last' = 0 /\ clock' = now /\ ads' = [ads EXCEPT ![Origin] = 0]
    BY <1>3, <2>a, <2>b DEF Ads!Close, Ads!Now
  <2>2. \A m \in Ads!flood(Origin, now, yes, Origin) :
            m.from = Origin /\ m.to \in Nodes /\ m.time = now
    BY ONLY FloodIs
  <2>3. AdsTypes'
    <3>1. clock \in Nat /\ clock' = now /\ now # 0 /\ now >= clock
      BY <2>1, <2>a DEF AdsTypes
    <3>4. ads \in [Nodes -> Nat] /\ 0 <= now
          /\ \A n \in Nodes : ads[n] \in Nat /\ ads[n] <= clock
      BY <3>1 DEF AdsTypes
    <3>5. \A n \in Nodes : ads[n] <= now
      BY ONLY <3>1, <3>4
    <3>6. \A n \in Nodes : ads'[n] \in {0, ads[n]}
      BY ONLY <2>1, <3>4
    <3>7. ads' \in [Nodes -> Nat]
      BY ONLY <2>1, <3>4
    <3>2. ads' \in [Nodes -> Nat] /\ \A n \in Nodes : ads'[n] <= clock'
      BY ONLY <3>1, <3>4, <3>5, <3>6, <3>7
    <3>3. \A m \in net' : /\ m.from \in Nodes /\ m.to \in Nodes
                          /\ m.time \in Nat \ {0} /\ m.time <= clock'
      BY <1>0, <2>1, <2>2, <3>1 DEF AdsTypes
    <3> QED BY <2>1, <3>1, <3>2, <3>3 DEF AdsTypes
  <2> QED BY <2>1, <2>3 DEF AdsSpread
<1>4. ASSUME NEW m \in net, Ads!HandleServiceAdvertisement(m) PROVE AdsIInv'
  <2>a. /\ m.from \in Nodes /\ m.to \in Nodes /\ m.time \in Nat \ {0} /\ m.time <= clock
        /\ ads \in [Nodes -> Nat] /\ ads[m.to] \in Nat /\ ads[m.to] <= clock
        /\ clock \in Nat /\ last \in Nat /\ UNCHANGED <<open, clock, last>>
    BY <1>4 DEF AdsTypes, Ads!HandleServiceAdvertisement
  <2>1. CASE Ads!KeepsCurrent(m.to, m)
    <3>1. net' = net \ {m} /\ ads' = ads
      BY <1>4, <2>1 DEF Ads!HandleServiceAdvertisement
    <3>2. last # 0 /\ m.time = last => ads[m.to] = last
      BY <2>1, <2>a DEF Ads!KeepsCurrent, AdsTypes
    <3>3. AdsTypes'
      BY <2>a, <3>1 DEF AdsTypes
    <3>4. ASSUME NEW b \in Nodes, last # 0, Reaches(b) PROVE Reaches(b)'
      BY <2>a, <3>1, <3>2, <3>4 DEF Reaches
    <3> QED BY <2>a, <3>1, <3>3, <3>4 DEF AdsSpread, HasLast
  <2>2. CASE ~Ads!KeepsCurrent(m.to, m)
    <3>1. PICK new : new = Ads!flood(m.to, m.time, m.cancel, m.from)
      OBVIOUS
    <3>2. /\ net' = (net \ {m}) \cup new
          /\ ads' = [ads EXCEPT ![m.to] = IF m.cancel THEN 0 ELSE m.time]
      BY <1>4, <2>2, <3>1 DEF Ads!HandleServiceAdvertisement
    <3>3. /\ \A e \in new : /\ e.from = m.to /\ e.to \in Nodes
                            /\ e.time = m.time /\ e.cancel = m.cancel
          /\ \A n \in Nodes \ {m.from} : <<m.to, n>> \in Links =>
                \E e \in new : e.to = n /\ e.time = m.time
      BY ONLY <3>1, FloodIs
    <3>4. AdsTypes'
      <4>1. \A n \in Nodes : ads'[n] \in Nat /\ ads'[n] <= clock
        BY <2>a, <3>2 DEF AdsTypes
      <4>2. ads' \in [Nodes -> Nat]
        BY <2>a, <3>2, <4>1
      <4>3. \A e \in net' : /\ e.from \in Nodes /\ e.to \in Nodes
                            /\ e.time \in Nat \ {0} /\ e.time <= clock
        BY <2>a, <3>2, <3>3 DEF AdsTypes
      <4> QED BY <2>a, <4>1, <4>2, <4>3 DEF AdsTypes
    <3>5. ASSUME last # 0 PROVE AdsSpread'
      <4>1. last = clock /\ ads[m.to] # last
        BY <2>2, <2>a, <3>5 DEF AdsTypes, Ads!KeepsCurrent
      <4>2. m.time = last => m.cancel = FALSE /\ HasLast(m.from) /\ ads'[m.to] = last
        BY <2>a, <3>2, <3>5, <1>4 DEF AdsSpread
      <4>3. m.time # last => ads'[m.to] # last
        BY <2>a, <3>2, <3>5
      <4>4. \A n \in Nodes : n # m.to => ads'[n] = ads[n]
        BY <2>a, <3>2
      <4>5. \A n \in Nodes : HasLast(n) => HasLast(n)'
        BY <2>a, <4>1, <4>4 DEF HasLast
      <4>6. \A e \in net' : e.time = last => e.cancel = FALSE /\ HasLast(e.from)'
        <5> SUFFICES ASSUME NEW e \in net', e.time = last
                     PROVE  e.cancel = FALSE /\ HasLast(e.from)'
          OBVIOUS
        <5>1. CASE e \in net
          BY <2>a, <3>5, <4>5, <5>1 DEF AdsSpread, AdsTypes
        <5>2. CASE e \in new
          BY <2>a, <3>3, <4>2, <5>2 DEF HasLast
        <5> QED BY <3>2, <5>1, <5>2
      <4>7. \A b \in Nodes : Reaches(b) => Reaches(b)'
        <5> SUFFICES ASSUME NEW b \in Nodes, Reaches(b) PROVE Reaches(b)'
          OBVIOUS
        <5>1. CASE ads[b] = last
          BY <2>a, <4>1, <4>4, <5>1 DEF Reaches
        <5>2. ASSUME NEW e \in net, e.to = b, e.time = last PROVE Reaches(b)'
          <6>1. CASE e = m
            BY <2>a, <4>2, <5>2, <6>1 DEF Reaches
          <6>2. CASE e # m
            BY <2>a, <3>2, <5>2, <6>2 DEF Reaches
          <6> QED BY <6>1, <6>2
        <5> QED BY <5>1, <5>2 DEF Reaches
      <4>8. \A a, b \in Nodes : <<a, b>> \in Links /\ b # Origin /\ HasLast(a)' => Reaches(b)'
        <5> SUFFICES ASSUME NEW a \in Nodes, NEW b \in Nodes, <<a, b>> \in Links, b # Origin,
                            HasLast(a)'
                     PROVE  Reaches(b)'
          OBVIOUS
        <5>1. CASE HasLast(a)
          BY <3>5, <4>7, <5>1 DEF AdsSpread
        <5>2. CASE ~HasLast(a)
          <6>1. a = m.to /\ m.time = last
            BY <2>a, <4>3, <4>4, <5>2 DEF HasLast
          <6>2. CASE b = m.from
            <7>1. ads[b] = last
              BY <4>2, <6>1, <6>2 DEF HasLast
            <7> QED BY <4>7, <7>1 DEF Reaches
          <6>3. CASE b # m.from
            <7>1. PICK e \in new : e.to = b /\ e.time = m.time
              BY <3>3, <6>1, <6>3
            <7> QED BY <2>a, <3>2, <6>1, <7>1 DEF Reaches
          <6> QED BY <6>2, <6>3
        <5> QED BY <5>1, <5>2
      <4> QED BY <2>a, <4>6, <4>8 DEF AdsSpread
    <3>6. ASSUME last = 0 PROVE AdsSpread'
      <4>1. last' = 0
        BY <2>a, <3>6
      <4> QED BY <4>1 DEF AdsSpread
    <3> QED BY <3>4, <3>5, <3>6
  <2> QED BY <2>1, <2>2
<1>5. CASE UNCHANGED adsVars
  BY <1>5 DEF adsVars, AdsTypes, AdsSpread, HasLast, Reaches
<1> QED BY <1>1, <1>2, <1>3, <1>4, <1>5 DEF Ads!Next

(* With nothing on its way, the nodes that have the last advertisement are *)
(* a set that no link leads out of, which is the whole mesh.               *)
LEMMA AdsQuiet == AdsIInv => Ads!QuietIsCurrent
<1> SUFFICES ASSUME AdsIInv, net = {}, last # 0, NEW n \in Nodes \ {Origin} PROVE ads[n] = last
  BY DEF Ads!QuietIsCurrent
<1> DEFINE S == {k \in Nodes : HasLast(k)}
<1>0. /\ Origin \in Nodes /\ Links \subseteq Nodes \X Nodes
      /\ \A T \in SUBSET Nodes :
            Origin \in T /\ (\A l \in Links : l[1] \in T => l[2] \in T) => T = Nodes
  BY ServiceAdsAssumption DEF Ads!ServiceAdsAssumption, Ads!Connected
<1>1. ASSUME NEW l \in Links, l[1] \in S PROVE l[2] \in S
  <2>1. l[1] \in Nodes /\ l[2] \in Nodes /\ l = <<l[1], l[2]>>
    BY <1>0
  <2>2. l[2] # Origin => Reaches(l[2])
    BY <1>1, <2>1 DEF AdsIInv, AdsSpread
  <2> QED BY <2>1, <2>2 DEF Reaches, HasLast
<1>2. Origin \in S /\ S \in SUBSET Nodes
  BY <1>0 DEF HasLast
<1>3. S = Nodes
  <2> HIDE DEF S
  <2> QED BY <1>0, <1>1, <1>2
<1> QED BY <1>3 DEF HasLast

(* When no advertisement is on its way any more, every node has the last   *)
(* one, in any order of arrival and in any mesh that Origin reaches all of *)
(* (sendServiceAds, handleServiceAdvertisement).                           *)
THEOREM QuietCurrent == MeshSpec => []QuietIsCurrent
<1>1. MeshInit => AdsIInv
  BY AdsInit DEF MeshInit
<1>2. AdsIInv /\ [MeshNext]_meshVars => AdsIInv'
  BY AdsStep DEF MeshNext, meshVars
<1>3. AdsIInv => QuietIsCurrent
  BY AdsQuiet DEF QuietIsCurrent
<1> QED BY <1>1, <1>2, <1>3, PTL DEF MeshSpec
=============================================================================
