---------------------------- MODULE RoutingProofs ---------------------------
(***************************************************************************)
(* Proofs about Routing, for any nodes, any topology and any bounds.  The  *)
(* strengthening: whatever is under way has been made by its node, no      *)
(* update that was ever made is ahead of its node, and a node has made at  *)
(* least as many updates as its sequence number tells.                     *)
(*                                                                         *)
(* Convergence: the last update of a node does not stop at a connection,   *)
(* since whoever takes it passes it on.  In a quiet mesh the nodes that    *)
(* have it are therefore a set which no connection leaves, and their rows  *)
(* are those of the update.                                                *)
(***************************************************************************)
EXTENDS Routing, FiniteSetTheorems, TLAPS

(* What is under way or about to be flooded has been made.                 *)
PendingIsMade ==
    /\ \A msg \in net : msg.update \in made
    /\ \A n \in Nodes : making[n] \subseteq made

(* No node is behind an update of its own, through restarts as well.       *)
MadeIsOld == \A u \in made : ~Older(stamp[u.node], u.stamp)

InfoIsOld == \A n, m \in Nodes : ~Older(stamp[m], info[n][m])

(* Sequence numbers are used up only by updates.                           *)
Counted ==
    /\ IsFiniteSet(made)
    /\ Cardinality(made) <= MaxUpdates
    /\ \A n \in Nodes : stamp[n][2] <= Cardinality(made)

Truth == PendingIsMade /\ MadeIsOld /\ InfoIsOld /\ NoGhostLinks /\ OwnRowIsConnections

IInv == TypeOK /\ Counted /\ Truth

-----------------------------------------------------------------------------
(* Stamps are pairs of numbers.                                            *)
LEMMA StampIs ==
    ASSUME NEW s \in Stamps
    PROVE  s[1] \in 0 .. MaxEpoch /\ s[2] \in 0 .. MaxUpdates /\ s = <<s[1], s[2]>>
BY DEF Stamps

(* An epoch and a sequence number within the bounds make a stamp.          *)
LEMMA StampMake ==
    ASSUME NEW a \in 0 .. MaxEpoch, NEW b \in 0 .. MaxUpdates
    PROVE  <<a, b>> \in Stamps
BY DEF Stamps

(* Bounds are natural numbers.                                             *)
LEMMA Bounds == MaxUpdates \in Nat /\ MaxEpoch \in Nat \ {0} /\ MaxChanges \in Nat
BY RoutingAssumption

(* A stamp that is not ahead of another one is not ahead of a later one.   *)
LEMMA StillOld ==
    ASSUME NEW s \in Stamps, NEW t \in Stamps, NEW x \in Stamps, Older(s, t), ~Older(s, x)
    PROVE  ~Older(t, x) /\ x # t
<1>1. /\ s[1] \in Int /\ s[2] \in Int /\ t[1] \in Int /\ t[2] \in Int
      /\ x[1] \in Int /\ x[2] \in Int
  BY StampIs, Bounds
<1> QED BY ONLY <1>1, Older(s, t), ~Older(s, x) DEF Older

(* No stamp is ahead of itself.                                            *)
LEMMA NotAheadOfSelf ==
    ASSUME NEW s \in Stamps
    PROVE  ~Older(s, s)
<1>1. s[1] \in Int /\ s[2] \in Int
  BY StampIs, Bounds
<1> QED BY <1>1 DEF Older

(* The fields of messages and updates.                                     *)
LEMMA MessageIs ==
    ASSUME NEW msg \in Messages
    PROVE  /\ msg.from \in Nodes /\ msg.to \in Nodes /\ msg.update \in Updates
           /\ msg.update.node \in Nodes /\ msg.update.stamp \in Stamps
           /\ msg.update.conns \subseteq Nodes
BY DEF Messages, Updates

(* An edge joins two different nodes.                                      *)
LEMMA EdgeIs ==
    ASSUME NEW a \in Nodes, NEW b \in Nodes, {a, b} \in Edges
    PROVE  a # b
BY RoutingAssumption

(* At the start nobody has said anything.                                  *)
LEMMA InitIInv == Init => IInv
<1> SUFFICES ASSUME Init PROVE IInv
  OBVIOUS
<1>1. <<1, 0>> \in Stamps /\ Unknown \in Stamps
  BY Bounds DEF Stamps, Unknown
<1>2. TypeOK
  BY <1>1, Bounds DEF Init, TypeOK
<1>3. Counted
  BY Bounds, FS_EmptySet DEF Init, Counted
<1>4. InfoIsOld
  BY DEF Init, InfoIsOld, Older, Unknown
<1> QED BY <1>2, <1>3, <1>4
     DEF Init, IInv, Truth, PendingIsMade, MadeIsOld, NoGhostLinks, OwnRowIsConnections

-----------------------------------------------------------------------------
(* Closing links takes messages and greetings away.                        *)
LEMMA CloseIs ==
    ASSUME TypeOK, NEW edges, Close(edges)
    PROVE  /\ links' \subseteq Edges /\ net' \subseteq net /\ net' \subseteq Messages
           /\ \A msg \in net' : {msg.from, msg.to} \in links'
           /\ \A g \in greetings' : g \in Nodes \X Nodes /\ {g[1], g[2]} \in links'
BY DEF TypeOK, Close

(* removeConnection takes the peer out of the row of the node itself, and  *)
(* the node out of the row of the peer; no row grows.                      *)
LEMMA DropIs ==
    ASSUME TypeOK, OwnRowIsConnections, NEW n \in Nodes, NEW m \in Nodes, Drop(n, m)
    PROVE  /\ conns' \in [Nodes -> SUBSET Nodes] /\ mutual' \in [Nodes -> SUBSET Nodes]
           /\ rows' \in [Nodes -> [Nodes -> SUBSET Nodes]] /\ settled' = {}
           /\ \A k, l \in Nodes : rows'[k][l] \subseteq rows[k][l]
           /\ OwnRowIsConnections'
<1>1. /\ conns' = [conns EXCEPT ![n] = conns[n] \ {m}]
      /\ mutual' = [mutual EXCEPT ![n] = mutual[n] \ {m}]
      /\ rows' = [rows EXCEPT ![n][m] = rows[n][m] \ {n}, ![n][n] = @ \ {m}]
      /\ settled' = {}
  BY DEF Drop
<1>2. /\ conns' \in [Nodes -> SUBSET Nodes] /\ mutual' \in [Nodes -> SUBSET Nodes]
  BY <1>1 DEF TypeOK
<1>3. PICK row : row = [rows[n] EXCEPT ![m] = rows[n][m] \ {n}]
  OBVIOUS
<1>4. PICK new : new = [row EXCEPT ![n] = row[n] \ {m}]
  OBVIOUS
<1>5. rows[n] \in [Nodes -> SUBSET Nodes]
  BY DEF TypeOK
<1>6. row \in [Nodes -> SUBSET Nodes] /\ \A l \in Nodes : row[l] \subseteq rows[n][l]
  BY <1>3, <1>5
<1>7. new \in [Nodes -> SUBSET Nodes] /\ \A l \in Nodes : new[l] \subseteq rows[n][l]
  BY <1>4, <1>6
<1>8. rows' = [rows EXCEPT ![n] = new]
  BY <1>1, <1>3, <1>4 DEF TypeOK
<1>9. new[n] = rows[n][n] \ {m}
  BY <1>3, <1>4, <1>5
<1>10. /\ rows' \in [Nodes -> [Nodes -> SUBSET Nodes]]
       /\ \A k, l \in Nodes : rows'[k][l] \subseteq rows[k][l]
  BY <1>7, <1>8 DEF TypeOK
<1>11. OwnRowIsConnections'
  BY <1>1, <1>8, <1>9 DEF OwnRowIsConnections, TypeOK
<1> QED BY <1>1, <1>2, <1>10, <1>11

(* Rows that shrink bring no link back.                                    *)
LEMMA NoGhostIfSmaller ==
    ASSUME NoGhostLinks, made' = made, info' = info,
           \A k, l \in Nodes : rows'[k][l] \ {k} \subseteq rows[k][l]
    PROVE  NoGhostLinks'
BY DEF NoGhostLinks

-----------------------------------------------------------------------------
(* Links that open, and greetings, change nothing that anybody knows.      *)
LEMMA LinkIInv ==
    ASSUME IInv, NEW n \in Nodes, NEW m \in Nodes,
           LinkOpens(n, m) \/ Greet(n, m) \/ LateGreeting(n, m)
    PROVE  IInv'
<1>1. UNCHANGED <<conns, mutual, stamp, info, rows, making, net, made, settled>>
  BY DEF LinkOpens, Greet, LateGreeting
<1>2. TypeOK'
  <2>1. CASE LinkOpens(n, m)
    <3>1. links' = links \cup {{n, m}} /\ {n, m} \in Edges
      BY <2>1 DEF LinkOpens
    <3>2. changes' \in 0 .. MaxChanges
      BY <2>1, Bounds DEF LinkOpens, IInv, TypeOK
    <3>3. \A g \in greetings' : g \in Nodes \X Nodes /\ {g[1], g[2]} \in links'
      <4>1. greetings' = greetings \cup {<<n, m>>, <<m, n>>}
        BY <2>1 DEF LinkOpens
      <4>2. {n, m} = {m, n}
        OBVIOUS
      <4> QED BY <3>1, <4>1, <4>2 DEF IInv, TypeOK
    <3> QED BY <1>1, <3>1, <3>2, <3>3 DEF IInv, TypeOK
  <2>2. CASE Greet(n, m)
    <3>1. /\ links' = links /\ changes' = changes /\ {n, m} \in links
          /\ greetings' = greetings \cup {<<n, m>>}
      BY <2>2 DEF Greet
    <3>2. ASSUME NEW g \in greetings' PROVE g \in Nodes \X Nodes /\ {g[1], g[2]} \in links'
      <4>1. CASE g \in greetings
        BY <3>1, <4>1 DEF IInv, TypeOK
      <4>2. CASE g = <<n, m>>
        BY <3>1, <4>2
      <4> QED BY <3>1, <4>1, <4>2
    <3> QED BY <1>1, <3>1, <3>2 DEF IInv, TypeOK
  <2>3. CASE LateGreeting(n, m)
    BY <1>1, <2>3 DEF LateGreeting, IInv, TypeOK
  <2> QED BY <2>1, <2>2, <2>3
<1>3. Counted' /\ Truth'
  BY <1>1 DEF IInv, Counted, Truth, PendingIsMade, MadeIsOld, InfoIsOld, NoGhostLinks,
     OwnRowIsConnections
<1> QED BY <1>2, <1>3 DEF IInv

(* A link that breaks only loses messages.                                 *)
LEMMA BreakIInv ==
    ASSUME IInv, NEW e \in links, LinkBreaks(e)
    PROVE  IInv'
<1>1. UNCHANGED <<conns, mutual, stamp, info, rows, making, made, settled>>
  BY DEF LinkBreaks
<1>2. /\ links' \subseteq Edges /\ net' \subseteq net /\ net' \subseteq Messages
      /\ \A msg \in net' : {msg.from, msg.to} \in links'
      /\ \A g \in greetings' : g \in Nodes \X Nodes /\ {g[1], g[2]} \in links'
  BY CloseIs DEF LinkBreaks, IInv
<1>3. changes' \in 0 .. MaxChanges
  BY Bounds DEF LinkBreaks, IInv, TypeOK
<1>4. TypeOK'
  BY <1>1, <1>2, <1>3 DEF IInv, TypeOK
<1>5. Counted' /\ Truth'
  BY <1>1, <1>2 DEF IInv, Counted, Truth, PendingIsMade, MadeIsOld, InfoIsOld, NoGhostLinks,
     OwnRowIsConnections
<1> QED BY <1>4, <1>5 DEF IInv

(* A connection is taken off its own row and the peer's.                   *)
LEMMA DropIInv ==
    ASSUME IInv, NEW n \in Nodes, NEW m \in Nodes, Drop(n, m),
           UNCHANGED <<stamp, info, making, changes, made>>,
           links' \subseteq Edges, net' \subseteq net, net' \subseteq Messages,
           \A msg \in net' : {msg.from, msg.to} \in links',
           \A g \in greetings' : g \in Nodes \X Nodes /\ {g[1], g[2]} \in links'
    PROVE  IInv'
<1>1. /\ conns' \in [Nodes -> SUBSET Nodes] /\ mutual' \in [Nodes -> SUBSET Nodes]
      /\ rows' \in [Nodes -> [Nodes -> SUBSET Nodes]] /\ settled' = {}
      /\ \A k, l \in Nodes : rows'[k][l] \subseteq rows[k][l]
      /\ OwnRowIsConnections'
  BY DropIs DEF IInv, Truth
<1>2. TypeOK'
  BY <1>1 DEF IInv, TypeOK
<1>3. NoGhostLinks'
  BY <1>1, NoGhostIfSmaller DEF IInv, Truth
<1>4. Counted' /\ PendingIsMade' /\ MadeIsOld' /\ InfoIsOld'
  BY DEF IInv, Counted, Truth, PendingIsMade, MadeIsOld, InfoIsOld
<1> QED BY <1>1, <1>2, <1>3, <1>4 DEF IInv, Truth

(* A new connection goes into the row of the node itself and of the peer,  *)
(* nowhere else (runProtocol).                                             *)
LEMMA EstablishIInv ==
    ASSUME IInv, NEW n \in Nodes, NEW m \in Nodes, Establish(n, m)
    PROVE  IInv'
<1>1. /\ UNCHANGED <<links, mutual, stamp, info, making, net, changes, made>>
      /\ greetings' = greetings \ {<<m, n>>}
      /\ conns' = [conns EXCEPT ![n] = conns[n] \cup {m}]
      /\ rows' = [rows EXCEPT ![n][n] = rows[n][n] \cup {m}, ![n][m] = @ \cup {n}]
      /\ settled' = {} /\ <<m, n>> \in greetings
  BY DEF Establish
<1>2. n # m
  <2>1. {m, n} \in Edges
    BY <1>1 DEF IInv, TypeOK
  <2> QED BY <2>1, EdgeIs
<1>3. conns' \in [Nodes -> SUBSET Nodes]
  BY <1>1 DEF IInv, TypeOK
<1>4. PICK row : row = [rows[n] EXCEPT ![n] = rows[n][n] \cup {m}]
  OBVIOUS
<1>5. PICK new : new = [row EXCEPT ![m] = row[m] \cup {n}]
  OBVIOUS
<1>6. rows[n] \in [Nodes -> SUBSET Nodes]
  BY DEF IInv, TypeOK
<1>7. /\ row \in [Nodes -> SUBSET Nodes] /\ row[n] = rows[n][n] \cup {m}
      /\ \A l \in Nodes : l # n => row[l] = rows[n][l]
  BY <1>4, <1>6
<1>8. /\ new \in [Nodes -> SUBSET Nodes] /\ new[n] = rows[n][n] \cup {m}
      /\ \A l \in Nodes : l # n => new[l] \ {n} \subseteq rows[n][l]
  BY <1>2, <1>5, <1>7
<1>9. rows' = [rows EXCEPT ![n] = new]
  BY <1>1, <1>4, <1>5 DEF IInv, TypeOK
<1>10. /\ rows' \in [Nodes -> [Nodes -> SUBSET Nodes]]
       /\ rows'[n] = new /\ \A k \in Nodes : k # n => rows'[k] = rows[k]
  BY <1>8, <1>9 DEF IInv, TypeOK
<1>11. TypeOK'
  BY <1>1, <1>3, <1>10 DEF IInv, TypeOK
<1>12. OwnRowIsConnections'
  BY <1>1, <1>8, <1>10 DEF IInv, Truth, OwnRowIsConnections, TypeOK
<1>13. NoGhostLinks'
  BY <1>1, <1>8, <1>10 DEF IInv, Truth, NoGhostLinks
<1>14. Counted' /\ PendingIsMade' /\ MadeIsOld' /\ InfoIsOld'
  BY <1>1 DEF IInv, Counted, Truth, PendingIsMade, MadeIsOld, InfoIsOld
<1> QED BY <1>11, <1>12, <1>13, <1>14 DEF IInv, Truth

(* A node that goes on to a later stamp is behind nothing.                 *)
LEMMA LaterStamp ==
    ASSUME IInv, NEW n \in Nodes, NEW s \in Stamps, Older(stamp[n], s),
           stamp' = [stamp EXCEPT ![n] = s]
    PROVE  /\ stamp' \in [Nodes -> Stamps]
           /\ \A u \in made : ~Older(stamp'[u.node], u.stamp)
           /\ \A k, m \in Nodes : ~Older(stamp'[m], info[k][m])
<1>1. stamp \in [Nodes -> Stamps] /\ made \subseteq Updates /\ info \in [Nodes -> [Nodes -> Stamps]]
  BY DEF IInv, TypeOK
<1>2. /\ stamp' \in [Nodes -> Stamps] /\ stamp'[n] = s
      /\ \A m \in Nodes : m # n => stamp'[m] = stamp[m]
  BY <1>1
<1>3. ASSUME NEW u \in made PROVE ~Older(stamp'[u.node], u.stamp)
  <2>1. u.node \in Nodes /\ u.stamp \in Stamps /\ ~Older(stamp[u.node], u.stamp)
    BY <1>1, <1>3 DEF Updates, IInv, Truth, MadeIsOld
  <2>2. CASE u.node = n
    <3>1. ~Older(stamp[n], u.stamp) /\ stamp[n] \in Stamps
      BY <1>1, <2>1, <2>2
    <3>2. ~Older(s, u.stamp)
      BY <2>1, <3>1, StillOld
    <3> QED BY <1>2, <2>2, <3>2
  <2>3. CASE u.node # n
    BY <1>2, <2>1, <2>3
  <2> QED BY <2>2, <2>3
<1>4. ASSUME NEW k \in Nodes, NEW m \in Nodes PROVE ~Older(stamp'[m], info[k][m])
  <2>1. info[k][m] \in Stamps /\ ~Older(stamp[m], info[k][m]) /\ stamp[m] \in Stamps
    BY <1>1 DEF IInv, Truth, InfoIsOld
  <2>2. CASE m = n
    <3>1. ~Older(s, info[k][m])
      BY <2>1, <2>2, StillOld
    <3> QED BY <1>2, <2>2, <3>1
  <2>3. CASE m # n
    BY <1>2, <2>1, <2>3
  <2> QED BY <2>2, <2>3
<1> QED BY <1>2, <1>3, <1>4

(* An update is new: no earlier one has its stamp.                         *)
LEMMA BeginFloodIInv ==
    ASSUME IInv, NEW n \in Nodes, BeginFlood(n)
    PROVE  IInv'
<1>1. /\ Cardinality(made) < MaxUpdates
      /\ stamp' = [stamp EXCEPT ![n] = NextStamp(n)]
      /\ made' = made \cup {Update(n)}
      /\ making' = [making EXCEPT ![n] = {Update(n)}]
      /\ settled' \in {settled, settled \cup {n}}
      /\ UNCHANGED <<links, conns, mutual, info, rows, greetings, net, changes>>
  BY DEF BeginFlood, MakeUpdate
<1>2. PICK c \in Nat : c = Cardinality(made)
  BY FS_CardinalityType DEF IInv, Counted
<1>3. PICK s : s = NextStamp(n)
  OBVIOUS
<1>4. PICK u : u = [node |-> n, stamp |-> s, conns |-> conns[n]]
  OBVIOUS
<1>5. u = Update(n)
  BY <1>3, <1>4 DEF Update
<1>6. PICK old \in Stamps : old = stamp[n]
  BY DEF IInv, TypeOK
<1>7. /\ old[1] \in 0 .. MaxEpoch /\ old[2] \in 0 .. MaxUpdates /\ old[2] <= c /\ c < MaxUpdates
  BY <1>1, <1>2, <1>6, StampIs DEF IInv, Counted
<1>8. s = <<old[1], old[2] + 1>>
  BY <1>3, <1>6 DEF NextStamp
<1>9. old[2] + 1 \in 0 .. MaxUpdates /\ old[2] + 1 <= c + 1
  BY <1>7, Bounds
<1>10. s \in Stamps
  BY <1>7, <1>8, <1>9, StampMake
<1>11. Older(old, s)
  BY <1>7, <1>8, Bounds DEF Older
<1>12. u \in Updates /\ u.node = n /\ u.stamp = s
  BY <1>4, <1>10 DEF Updates, IInv, TypeOK
<1>13. /\ stamp' \in [Nodes -> Stamps] /\ stamp'[n] = s
       /\ \A m \in Nodes : m # n => stamp'[m] = stamp[m]
       /\ \A v \in made : ~Older(stamp'[v.node], v.stamp)
       /\ \A k, m \in Nodes : ~Older(stamp'[m], info[k][m])
  <2>1. stamp' = [stamp EXCEPT ![n] = s] /\ Older(stamp[n], s)
    BY <1>1, <1>3, <1>6, <1>11
  <2>2. /\ stamp' \in [Nodes -> Stamps]
        /\ \A v \in made : ~Older(stamp'[v.node], v.stamp)
        /\ \A k, m \in Nodes : ~Older(stamp'[m], info[k][m])
    BY <1>10, <2>1, LaterStamp
  <2> QED BY <2>1, <2>2 DEF IInv, TypeOK
<1>14. u \notin made
  <2> SUFFICES ASSUME u \in made PROVE FALSE
    OBVIOUS
  <2>1. ~Older(old, s)
    BY <1>6, <1>12 DEF IInv, Truth, MadeIsOld
  <2> QED BY <1>11, <2>1
<1>15. made' = made \cup {u} /\ making' = [making EXCEPT ![n] = {u}]
  BY <1>1, <1>5
<1>16. Counted'
  <2>1. IsFiniteSet(made') /\ Cardinality(made') = c + 1
    BY <1>2, <1>14, <1>15, FS_AddElement DEF IInv, Counted
  <2>2. \A m \in Nodes : stamp[m][2] \in Nat /\ stamp[m][2] <= c
    BY <1>2, StampIs, Bounds DEF IInv, Counted, TypeOK
  <2>3. \A m \in Nodes : stamp[m][2] <= c + 1
    BY ONLY <1>2, <2>2
  <2>4. s[2] = old[2] + 1
    BY <1>8
  <2>5. \A m \in Nodes : stamp'[m][2] <= c + 1
    BY ONLY <1>9, <1>13, <2>3, <2>4
  <2>6. c + 1 <= MaxUpdates
    BY <1>2, <1>7, Bounds
  <2> QED BY ONLY <2>1, <2>5, <2>6 DEF Counted
<1>17. TypeOK'
  <2>1. making' \in [Nodes -> SUBSET Updates]
    BY <1>12, <1>15 DEF IInv, TypeOK
  <2>2. made' \subseteq Updates /\ settled' \subseteq Nodes
    BY <1>1, <1>12, <1>15 DEF IInv, TypeOK
  <2> QED BY <1>1, <1>13, <2>1, <2>2 DEF IInv, TypeOK
<1>18. PendingIsMade'
  BY <1>1, <1>15 DEF IInv, TypeOK, Truth, PendingIsMade
<1>19. MadeIsOld'
  BY <1>10, <1>12, <1>13, <1>15, NotAheadOfSelf DEF MadeIsOld
<1>20. InfoIsOld' /\ NoGhostLinks' /\ OwnRowIsConnections'
  BY <1>1, <1>13, <1>15 DEF IInv, Truth, InfoIsOld, NoGhostLinks, OwnRowIsConnections
<1> QED BY <1>16, <1>17, <1>18, <1>19, <1>20 DEF IInv, Truth

(* What flood sends, over open links.                                      *)
LEMMA FloodedIs ==
    ASSUME TypeOK, NEW n \in Nodes, NEW u \in Updates, NEW except
    PROVE  \A msg \in Flooded(n, u, except) :
               msg \in Messages /\ msg.update = u /\ {msg.from, msg.to} \in links
<1> SUFFICES ASSUME NEW msg \in Flooded(n, u, except)
             PROVE  msg \in Messages /\ msg.update = u /\ {msg.from, msg.to} \in links
  OBVIOUS
<1>1. PICK m \in {m \in conns[n] \ except : {n, m} \in links} :
          msg = [from |-> n, to |-> m, update |-> u]
  BY DEF Flooded
<1>2. m \in Nodes /\ {n, m} \in links
  BY <1>1 DEF TypeOK
<1> QED BY <1>1, <1>2 DEF Messages

(* An update is flooded after it was made (sendRoutingUpdate).             *)
LEMMA EndFloodIInv ==
    ASSUME IInv, NEW n \in Nodes, EndFlood(n)
    PROVE  IInv'
<1>1. PICK u \in making[n] : net' = net \cup Flooded(n, u, {})
  BY DEF EndFlood
<1>2. /\ making' = [making EXCEPT ![n] = {}]
      /\ UNCHANGED <<links, conns, mutual, stamp, info, rows, greetings, changes, made, settled>>
  BY DEF EndFlood
<1>3. u \in Updates /\ u \in made
  BY <1>1 DEF IInv, TypeOK, Truth, PendingIsMade
<1>4. \A msg \in net' :
         msg \in net \/ (msg \in Messages /\ msg.update = u /\ {msg.from, msg.to} \in links)
  BY <1>1, <1>3, FloodedIs DEF IInv
<1>5. TypeOK'
  BY <1>2, <1>4 DEF IInv, TypeOK
<1>6. PendingIsMade'
  BY <1>2, <1>3, <1>4 DEF IInv, TypeOK, Truth, PendingIsMade
<1>7. Counted' /\ MadeIsOld' /\ InfoIsOld' /\ NoGhostLinks' /\ OwnRowIsConnections'
  BY <1>2 DEF IInv, Counted, Truth, MadeIsOld, InfoIsOld, NoGhostLinks, OwnRowIsConnections
<1> QED BY <1>5, <1>6, <1>7 DEF IInv, Truth

(* A restarted node has a later epoch and knows nothing.                   *)
LEMMA RestartIInv ==
    ASSUME IInv, NEW n \in Nodes, Restart(n)
    PROVE  IInv'
<1>1. /\ stamp[n][1] < MaxEpoch
      /\ stamp' = [stamp EXCEPT ![n] = <<stamp[n][1] + 1, 0>>]
      /\ conns' = [conns EXCEPT ![n] = {}]
      /\ mutual' = [mutual EXCEPT ![n] = {}]
      /\ info' = [info EXCEPT ![n] = [m \in Nodes |-> Unknown]]
      /\ rows' = [rows EXCEPT ![n] = [m \in Nodes |-> {}]]
      /\ making' = [making EXCEPT ![n] = {}]
      /\ settled' = {} /\ UNCHANGED <<changes, made>>
      /\ Close({e \in links : n \in e})
  BY DEF Restart, Forget
<1>2. /\ links' \subseteq Edges /\ net' \subseteq net /\ net' \subseteq Messages
      /\ \A msg \in net' : {msg.from, msg.to} \in links'
      /\ \A g \in greetings' : g \in Nodes \X Nodes /\ {g[1], g[2]} \in links'
  BY <1>1, CloseIs DEF IInv
<1>3. PICK old \in Stamps : old = stamp[n]
  BY DEF IInv, TypeOK
<1>4. PICK s : s = <<old[1] + 1, 0>>
  OBVIOUS
<1>5. old[1] \in 0 .. MaxEpoch /\ old[2] \in 0 .. MaxUpdates /\ old[1] < MaxEpoch
  BY <1>1, <1>3, StampIs
<1>6. old[1] + 1 \in 0 .. MaxEpoch /\ 0 \in 0 .. MaxUpdates
  BY <1>5, Bounds
<1>7. s \in Stamps /\ Older(stamp[n], s)
  <2>1. s \in Stamps
    BY <1>4, <1>6, StampMake
  <2>2. Older(old, s)
    BY <1>4, <1>5, Bounds DEF Older
  <2> QED BY <1>3, <2>1, <2>2
<1>8. stamp' = [stamp EXCEPT ![n] = s]
  BY <1>1, <1>3, <1>4
<1>9. /\ stamp' \in [Nodes -> Stamps]
      /\ \A v \in made : ~Older(stamp'[v.node], v.stamp)
      /\ \A k, m \in Nodes : ~Older(stamp'[m], info[k][m])
  BY <1>7, <1>8, LaterStamp
<1>10. Unknown \in Stamps /\ Unknown = <<0, 0>>
  BY Bounds DEF Stamps, Unknown
<1>11. /\ info' \in [Nodes -> [Nodes -> Stamps]]
       /\ \A k, m \in Nodes : info'[k][m] \in {Unknown, info[k][m]}
       /\ \A m \in Nodes : \A k \in Nodes : k # n => info'[k][m] = info[k][m]
  BY <1>1, <1>10 DEF IInv, TypeOK
<1>12. /\ rows' \in [Nodes -> [Nodes -> SUBSET Nodes]]
       /\ \A m \in Nodes : rows'[n][m] = {}
       /\ \A k \in Nodes : k # n => rows'[k] = rows[k]
  BY <1>1 DEF IInv, TypeOK
<1>13. TypeOK'
  BY <1>1, <1>2, <1>9, <1>11, <1>12 DEF IInv, TypeOK
<1>14. Counted'
  <2>1. PICK c \in Nat : c = Cardinality(made)
    BY FS_CardinalityType DEF IInv, Counted
  <2>2. \A m \in Nodes : stamp[m][2] <= c
    BY <2>1 DEF IInv, Counted
  <2>3. s[2] = 0 /\ 0 <= c
    BY <1>4, <2>1
  <2>4. \A m \in Nodes : stamp'[m][2] <= c
    <3>1. \A m \in Nodes : stamp'[m] = IF m = n THEN s ELSE stamp[m]
      BY <1>8 DEF IInv, TypeOK
    <3> QED BY ONLY <2>2, <2>3, <3>1
  <2> QED BY <1>1, <2>1, <2>4 DEF IInv, Counted
<1>15. InfoIsOld'
  <2> SUFFICES ASSUME NEW k \in Nodes, NEW m \in Nodes PROVE ~Older(stamp'[m], info'[k][m])
    BY DEF InfoIsOld
  <2>1. PICK t \in Stamps : t = stamp'[m]
    BY <1>9
  <2>2. ~Older(t, Unknown)
    <3>1. t[1] \in Nat /\ t[2] \in Nat
      BY <2>1, StampIs, Bounds
    <3> QED BY ONLY <1>10, <3>1 DEF Older
  <2> QED BY <1>9, <1>11, <2>1, <2>2
<1>16. NoGhostLinks'
  BY <1>1, <1>11, <1>12 DEF IInv, Truth, NoGhostLinks
<1>17. OwnRowIsConnections'
  BY <1>1, <1>12 DEF IInv, TypeOK, Truth, OwnRowIsConnections
<1>18. PendingIsMade' /\ MadeIsOld'
  BY <1>1, <1>2, <1>9 DEF IInv, TypeOK, Truth, PendingIsMade, MadeIsOld
<1> QED BY <1>13, <1>14, <1>15, <1>16, <1>17, <1>18 DEF IInv, Truth

(* The rows of a node after an update: the update's node has what it says, *)
(* no other row grows, and the node's own row is left alone.               *)
LEMMA RowsIs ==
    ASSUME TypeOK, NEW n \in Nodes, NEW u \in Updates, u.node # n
    PROVE  /\ Rows(n, u) \in [Nodes -> SUBSET Nodes]
           /\ Rows(n, u)[u.node] = u.conns
           /\ Rows(n, u)[n] = rows[n][n]
           /\ \A m \in Nodes : m # u.node => Rows(n, u)[m] \subseteq rows[n][m]
<1>1. u.node \in Nodes /\ u.conns \subseteq Nodes /\ rows[n] \in [Nodes -> SUBSET Nodes]
  BY DEF TypeOK, Updates
<1>2. CASE u.conns = rows[n][u.node]
  BY <1>1, <1>2 DEF Rows
<1>3. CASE u.conns # rows[n][u.node]
  <2>1. Rows(n, u) = [m \in Nodes |-> IF m = u.node THEN u.conns
                          ELSE IF m # n /\ m \notin u.conns THEN rows[n][m] \ {u.node}
                          ELSE rows[n][m]]
    BY <1>3 DEF Rows
  <2> QED BY <1>1, <2>1
<1> QED BY <1>2, <1>3

(* handleRoutingUpdate: what is taken over is what the node of the update  *)
(* said, with the stamp that goes with it.                                 *)
LEMMA ReceiveIInv ==
    ASSUME IInv, NEW msg \in net, Receive(msg)
    PROVE  IInv'
<1>0. /\ msg \in Messages /\ msg.from \in Nodes /\ msg.to \in Nodes /\ msg.update \in Updates
      /\ msg.update.node \in Nodes /\ msg.update.stamp \in Stamps
      /\ msg.update \in made
  BY MessageIs DEF IInv, TypeOK, Truth, PendingIsMade
<1>1. CASE NotYetListed(msg) \/ Ignore(msg)
  <2>1. /\ UNCHANGED <<links, conns, stamp, info, rows, making, greetings, changes, made, settled>>
        /\ net' = net \ {msg}
    BY <1>1 DEF NotYetListed, Ignore
  <2>2. mutual' \in [Nodes -> SUBSET Nodes]
    BY <1>0, <1>1 DEF NotYetListed, Ignore, Handled, IInv, TypeOK
  <2>3. TypeOK'
    BY <2>1, <2>2 DEF IInv, TypeOK
  <2>4. Counted' /\ Truth'
    BY <2>1 DEF IInv, Counted, Truth, PendingIsMade, MadeIsOld, InfoIsOld, NoGhostLinks,
       OwnRowIsConnections
  <2> QED BY <2>3, <2>4 DEF IInv
<1>2. CASE TearDown(msg)
  <2>1. /\ Drop(msg.to, msg.from) /\ Close({{msg.from, msg.to}})
        /\ UNCHANGED <<stamp, info, making, changes, made>>
    BY <1>2 DEF TearDown
  <2>2. /\ links' \subseteq Edges /\ net' \subseteq net /\ net' \subseteq Messages
        /\ \A m \in net' : {m.from, m.to} \in links'
        /\ \A g \in greetings' : g \in Nodes \X Nodes /\ {g[1], g[2]} \in links'
    BY <2>1, CloseIs DEF IInv
  <2> QED BY <1>0, <2>1, <2>2, DropIInv
<1>3. CASE Apply(msg)
  <2>1. PICK n \in Nodes : n = msg.to
    BY <1>0
  <2>2. PICK u \in Updates : u = msg.update
    BY <1>0
  <2>3. u.node \in Nodes /\ u.stamp \in Stamps /\ u \in made
    BY <1>0, <2>2
  <2>4. /\ u.node # n
        /\ info' = [info EXCEPT ![n][u.node] = u.stamp]
        /\ rows' = [rows EXCEPT ![n] = Rows(n, u)]
        /\ net' = (net \ {msg}) \cup Flooded(n, u, {msg.from})
        /\ UNCHANGED <<links, conns, stamp, making, greetings, changes, made, settled>>
    BY <1>3, <2>1, <2>2 DEF Apply, IsNews, PassOn
  <2>5. mutual' \in [Nodes -> SUBSET Nodes]
    BY <1>0, <1>3 DEF Apply, Handled, IInv, TypeOK
  <2>6. PICK new \in [Nodes -> SUBSET Nodes] :
          /\ new = Rows(n, u) /\ new[u.node] = u.conns /\ new[n] = rows[n][n]
          /\ \A m \in Nodes : m # u.node => new[m] \subseteq rows[n][m]
    BY <2>4, RowsIs DEF IInv
  <2>7. /\ rows' \in [Nodes -> [Nodes -> SUBSET Nodes]] /\ rows'[n] = new
        /\ \A k \in Nodes : k # n => rows'[k] = rows[k]
    BY <2>4, <2>6 DEF IInv, TypeOK
  <2>8. /\ info' \in [Nodes -> [Nodes -> Stamps]] /\ info'[n][u.node] = u.stamp
        /\ \A k, m \in Nodes : k # n \/ m # u.node => info'[k][m] = info[k][m]
    BY <2>3, <2>4 DEF IInv, TypeOK
  <2>9. \A m \in net' : m \in net \/ (m \in Messages /\ m.update = u /\ {m.from, m.to} \in links)
    BY <2>4, FloodedIs DEF IInv
  <2>10. TypeOK'
    BY <2>4, <2>5, <2>7, <2>8, <2>9 DEF IInv, TypeOK
  <2>11. PendingIsMade'
    BY <2>3, <2>4, <2>9 DEF IInv, Truth, PendingIsMade
  <2>12. InfoIsOld'
    <3>1. ~Older(stamp[u.node], u.stamp)
      BY <2>3 DEF IInv, Truth, MadeIsOld
    <3> QED BY <2>4, <2>8, <3>1 DEF IInv, Truth, InfoIsOld
  <2>13. NoGhostLinks'
    <3> SUFFICES ASSUME NEW k \in Nodes, NEW m \in Nodes, k # m, NEW l \in rows'[k][m] \ {k}
                 PROVE  \E v \in made' : v.node = m /\ v.stamp = info'[k][m] /\ l \in v.conns
      BY DEF NoGhostLinks
    <3>1. CASE k = n /\ m = u.node
      BY <2>3, <2>4, <2>6, <2>7, <2>8, <3>1
    <3>2. CASE k # n \/ m # u.node
      <4>1. l \in rows[k][m] \ {k} /\ info'[k][m] = info[k][m]
        BY <2>6, <2>7, <2>8, <3>2
      <4> QED BY <2>4, <4>1 DEF IInv, Truth, NoGhostLinks
    <3> QED BY <3>1, <3>2
  <2>14. OwnRowIsConnections'
    BY <2>4, <2>6, <2>7 DEF IInv, Truth, OwnRowIsConnections
  <2>15. Counted' /\ MadeIsOld'
    BY <2>4 DEF IInv, Counted, Truth, MadeIsOld
  <2> QED BY <2>10, <2>11, <2>12, <2>13, <2>14, <2>15 DEF IInv, Truth
<1> QED BY <1>1, <1>2, <1>3 DEF Receive

-----------------------------------------------------------------------------
(* Every step keeps the strengthening.                                     *)
LEMMA NextIInv == IInv /\ [Next]_vars => IInv'
<1> SUFFICES ASSUME IInv, [Next]_vars PROVE IInv'
  OBVIOUS
<1>1. ASSUME NEW n \in Nodes, NEW m \in Nodes, LoseConnection(n, m) PROVE IInv'
  <2>1. Drop(n, m) /\ UNCHANGED <<links, stamp, info, making, greetings, net, changes, made>>
    BY <1>1 DEF LoseConnection
  <2>2. /\ links' \subseteq Edges /\ net' \subseteq net /\ net' \subseteq Messages
        /\ \A msg \in net' : {msg.from, msg.to} \in links'
        /\ \A g \in greetings' : g \in Nodes \X Nodes /\ {g[1], g[2]} \in links'
    BY <2>1 DEF IInv, TypeOK
  <2> QED BY <2>1, <2>2, DropIInv
<1>2. CASE UNCHANGED vars
  <2>1. TypeOK'
    BY <1>2 DEF vars, IInv, TypeOK
  <2>2. Counted' /\ PendingIsMade' /\ MadeIsOld' /\ InfoIsOld'
    BY <1>2 DEF vars, IInv, Counted, Truth, PendingIsMade, MadeIsOld, InfoIsOld
  <2>3. NoGhostLinks' /\ OwnRowIsConnections'
    BY <1>2 DEF vars, IInv, Truth, NoGhostLinks, OwnRowIsConnections
  <2> QED BY <2>1, <2>2, <2>3 DEF IInv, Truth
<1> QED BY <1>1, <1>2, LinkIInv, BreakIInv, EstablishIInv, BeginFloodIInv, EndFloodIInv,
          RestartIInv, ReceiveIInv DEF Next

(* The strengthening holds in every state.                                 *)
THEOREM Invariance == Spec => []IInv
BY InitIInv, NextIInv, PTL DEF Spec

(* Type correctness, and with it that epochs and sequence numbers stay     *)
(* within their bounds and nothing is under way where there is no link.    *)
THEOREM TypeCorrect == Spec => []TypeOK
<1>1. IInv => TypeOK
  BY DEF IInv
<1> QED BY <1>1, Invariance, PTL

(* What a node believes of the mesh is what the others have said last, in  *)
(* whatever order updates come and however often nodes restart             *)
(* (handleRoutingUpdate), in every topology.                               *)
THEOREM KnowledgeTrue == Spec => []KnowledgeIsTrue
<1>1. IInv => KnowledgeIsTrue
  <2> SUFFICES ASSUME IInv PROVE NeverAhead /\ NoGhostLinks /\ OwnRowIsConnections
    BY DEF KnowledgeIsTrue
  <2>1. \A u \in Pending : u \in made
    BY DEF Pending, IInv, Truth, PendingIsMade
  <2> QED BY <2>1 DEF IInv, Truth, MadeIsOld, InfoIsOld, NeverAhead
<1> QED BY <1>1, Invariance, PTL

-----------------------------------------------------------------------------
(* x knows the last update of m; m itself always does.                     *)
Has(x, m) == x = m \/ info[x][m] = stamp[m]

(* The last update of m is on its way from x to y.                         *)
Carried(x, y, m) ==
    \E msg \in net :
        /\ msg.from = x /\ msg.to = y
        /\ msg.update.node = m /\ msg.update.stamp = stamp[m]

(* No node is in the epoch before the first one.                           *)
Started == \A n \in Nodes : stamp[n][1] # 0

(* An update that is made and not flooded is its node's last one, and      *)
(* nobody else has heard of it.                                            *)
MakingIsLast == \A n \in Nodes : \A u \in making[n] : u.node = n /\ u.stamp = stamp[n]

MakingIsSecret ==
    \A m \in Nodes : making[m] # {} =>
        /\ \A x \in Nodes : info[x][m] # stamp[m]
        /\ \A msg \in net : msg.update.node = m => msg.update.stamp # stamp[m]

(* Whoever passes on the last update of a node has taken it itself.        *)
SenderHas ==
    \A msg \in net :
        msg.update.stamp = stamp[msg.update.node] => Has(msg.from, msg.update.node)

(* Once a node is settled nothing under way tells of other connections     *)
(* than those of now.                                                      *)
PendingIsCurrent == settled # {} => \A u \in Pending : Current(u)

(* The last update of a settled node does not stop at a connection: who    *)
(* has it has told the peer, or is about to.                               *)
Spread ==
    \A m \in settled : making[m] = {} =>
        \A x, y \in Nodes :
            Has(x, m) /\ y \in conns[x] /\ {x, y} \in links => Has(y, m) \/ Carried(x, y, m)

(* Who has the last update of a settled node has its connections, but for  *)
(* peers that do not list the node (handleRoutingUpdate takes those out).  *)
RowsAgree ==
    \A m \in settled : \A n \in Nodes : n # m /\ info[n][m] = stamp[m] =>
        /\ rows[n][m] \subseteq conns[m]
        /\ \A k \in conns[m] \ rows[n][m] : m \notin conns[k]

Flood == Started /\ MakingIsLast /\ MakingIsSecret /\ SenderHas

Settling == PendingIsCurrent /\ Spread /\ RowsAgree

-----------------------------------------------------------------------------
(* Stamps are ordered: one that is neither ahead nor behind is the same.   *)
LEMMA SameStamp ==
    ASSUME NEW s \in Stamps, NEW t \in Stamps, ~Older(s, t), ~Older(t, s)
    PROVE  s = t
<1>1. /\ s[1] \in Int /\ s[2] \in Int /\ t[1] \in Int /\ t[2] \in Int
  BY StampIs, Bounds
<1>2. s[1] = t[1] /\ s[2] = t[2]
  BY ONLY <1>1, ~Older(s, t), ~Older(t, s) DEF Older
<1>3. s = <<s[1], s[2]>> /\ t = <<t[1], t[2]>>
  BY StampIs
<1> QED BY ONLY <1>2, <1>3

(* A later stamp is that of no update made and of nothing known.           *)
LEMMA LaterIsNew ==
    ASSUME IInv, NEW n \in Nodes, NEW s \in Stamps, Older(stamp[n], s)
    PROVE  /\ \A u \in made : u.node = n => u.stamp # s
           /\ \A x \in Nodes : info[x][n] # s
<1>1. stamp[n] \in Stamps
  BY DEF IInv, TypeOK
<1>2. ASSUME NEW u \in made, u.node = n PROVE u.stamp # s
  <2>1. ~Older(stamp[n], u.stamp)
    BY <1>2 DEF IInv, Truth, MadeIsOld
  <2> QED BY <2>1
<1>3. ASSUME NEW x \in Nodes PROVE info[x][n] # s
  <2>1. ~Older(stamp[n], info[x][n])
    BY DEF IInv, Truth, InfoIsOld
  <2> QED BY <2>1
<1> QED BY <1>2, <1>3

(* A change of the connections starts the wait for quiet again.            *)
LEMMA ResetSettling == settled' = {} => Settling'
BY DEF Settling, PendingIsCurrent, Spread, RowsAgree

(* Messages that are lost tell nobody anything.                            *)
LEMMA LossFlood ==
    ASSUME Flood, net' \subseteq net, UNCHANGED <<stamp, info, making>>
    PROVE  Flood'
BY DEF Flood, Started, MakingIsLast, MakingIsSecret, SenderHas, Has

(* Nothing settles, and nothing is lost between connected nodes.           *)
LEMMA LossSettling ==
    ASSUME Settling, net' \subseteq net, UNCHANGED <<conns, stamp, info, rows, making, settled>>,
           \A x, y \in Nodes : y \in conns[x] /\ {x, y} \in links' => {x, y} \in links,
           \A x, y \in Nodes : \A m \in settled :
               y \in conns[x] /\ {x, y} \in links' /\ Carried(x, y, m)
                  => Has(y, m) \/ Carried(x, y, m)'
    PROVE  Settling'
<1>1. PendingIsCurrent'
  BY DEF Settling, PendingIsCurrent, Pending, Current
<1>2. Spread'
  <2> SUFFICES ASSUME NEW m \in settled, making[m] = {}, NEW x \in Nodes, NEW y \in Nodes,
                      Has(x, m)', y \in conns[x], {x, y} \in links'
               PROVE  Has(y, m)' \/ Carried(x, y, m)'
    BY DEF Spread
  <2>1. Has(x, m) /\ {x, y} \in links
    BY DEF Has
  <2>2. Has(y, m) \/ Carried(x, y, m)
    BY <2>1 DEF Settling, Spread
  <2>3. Has(y, m) \/ Carried(x, y, m)'
    BY <2>2
  <2>4. Has(y, m) => Has(y, m)'
    BY DEF Has
  <2> QED BY <2>3, <2>4
<1>3. RowsAgree'
  BY DEF Settling, RowsAgree
<1> QED BY <1>1, <1>2, <1>3 DEF Settling

(* A link opens between nodes without a connection; one that breaks takes  *)
(* its own messages along and no others; greetings tell nothing.           *)
LEMMA LinkConv ==
    ASSUME IInv, Flood, Settling, NEW n \in Nodes, NEW m \in Nodes,
           LinkOpens(n, m) \/ Greet(n, m) \/ LateGreeting(n, m)
    PROVE  Flood' /\ Settling'
<1>1. UNCHANGED <<conns, stamp, info, rows, making, net, settled>>
  BY DEF LinkOpens, Greet, LateGreeting
<1>2. ASSUME NEW x \in Nodes, NEW y \in Nodes, y \in conns[x], {x, y} \in links'
      PROVE  {x, y} \in links
  <2>1. CASE LinkOpens(n, m)
    <3>1. links' = links \cup {{n, m}} /\ m \notin conns[n] /\ n \notin conns[m]
      BY <2>1 DEF LinkOpens
    <3>2. {x, y} # {n, m}
      BY <1>2, <3>1
    <3> QED BY <1>2, <3>1, <3>2
  <2>2. CASE Greet(n, m) \/ LateGreeting(n, m)
    BY <1>2, <2>2 DEF Greet, LateGreeting
  <2> QED BY <2>1, <2>2
<1>3. \A x, y, k \in Nodes : Carried(x, y, k) => Carried(x, y, k)'
  BY <1>1 DEF Carried
<1>4. settled \subseteq Nodes
  BY DEF IInv, TypeOK
<1> QED BY <1>1, <1>2, <1>3, <1>4, LossFlood, LossSettling

(* A link that breaks.                                                     *)
LEMMA BreakConv ==
    ASSUME IInv, Flood, Settling, NEW e \in links, LinkBreaks(e)
    PROVE  Flood' /\ Settling'
<1>1. /\ UNCHANGED <<conns, stamp, info, rows, making, settled>>
      /\ links' = links \ {e} /\ net' = {msg \in net : {msg.from, msg.to} \notin {e}}
  BY DEF LinkBreaks, Close
<1>2. ASSUME NEW x \in Nodes, NEW y \in Nodes, NEW k \in settled, {x, y} \in links',
             Carried(x, y, k)
      PROVE  Carried(x, y, k)'
  <2>1. PICK msg \in net : /\ msg.from = x /\ msg.to = y
                           /\ msg.update.node = k /\ msg.update.stamp = stamp[k]
    BY <1>2 DEF Carried
  <2>2. msg \in net'
    BY <1>1, <1>2, <2>1
  <2> QED BY <1>1, <2>1, <2>2 DEF Carried
<1> QED BY <1>1, <1>2, LossFlood, LossSettling

(* A new update: nobody has it, and what was waited for still is.          *)
LEMMA BeginFloodConv ==
    ASSUME IInv, IInv', Flood, Settling, NEW n \in Nodes, BeginFlood(n)
    PROVE  Flood' /\ Settling'
<1>1. /\ making[n] = {}
      /\ stamp' = [stamp EXCEPT ![n] = NextStamp(n)]
      /\ making' = [making EXCEPT ![n] = {Update(n)}]
      /\ settled' = IF \A u \in Pending : Current(u) THEN settled \cup {n} ELSE settled
      /\ UNCHANGED <<links, conns, info, rows, net>>
  BY DEF BeginFlood, MakeUpdate
<1>2. PICK u : u = Update(n)
  OBVIOUS
<1>3. PICK s : s = NextStamp(n)
  OBVIOUS
<1>4. u.node = n /\ u.stamp = s /\ u.conns = conns[n]
  BY <1>2, <1>3 DEF Update
<1>5. /\ stamp'[n] = s /\ \A m \in Nodes : m # n => stamp'[m] = stamp[m]
      /\ making'[n] = {u} /\ \A m \in Nodes : m # n => making'[m] = making[m]
      /\ s \in Stamps
  <2>1. stamp'[n] \in Stamps
    BY DEF IInv, TypeOK
  <2> QED BY <1>1, <1>2, <1>3, <2>1 DEF IInv, TypeOK
<1>6. s[1] # 0 /\ Older(stamp[n], s)
  <2>1. stamp[n] \in Stamps
    BY DEF IInv, TypeOK
  <2>2. stamp[n][1] \in Int /\ stamp[n][2] \in Int
    BY <2>1, StampIs, Bounds
  <2>3. s = <<stamp[n][1], stamp[n][2] + 1>>
    BY <1>3 DEF NextStamp
  <2>4. s[1] = stamp[n][1] /\ s[2] = stamp[n][2] + 1
    BY <2>3
  <2>5. stamp[n][1] # 0
    BY DEF Flood, Started
  <2> QED BY ONLY <2>2, <2>4, <2>5 DEF Older
<1>7. /\ \A v \in made : v.node = n => v.stamp # s
      /\ \A x \in Nodes : info[x][n] # s
  BY <1>5, <1>6, LaterIsNew
<1>8. \A msg \in net : msg.update \in made /\ msg.from \in Nodes /\ msg.update.node \in Nodes
  BY MessageIs DEF IInv, TypeOK, Truth, PendingIsMade
<1>9. Flood'
  <2>1. Started'
    BY <1>5, <1>6 DEF Flood, Started
  <2>2. MakingIsLast'
    BY <1>4, <1>5 DEF Flood, MakingIsLast
  <2>3. MakingIsSecret'
    BY <1>1, <1>5, <1>7, <1>8 DEF Flood, MakingIsSecret
  <2>4. SenderHas'
    BY <1>1, <1>5, <1>7, <1>8 DEF Flood, SenderHas, Has
  <2> QED BY <2>1, <2>2, <2>3, <2>4 DEF Flood
<1>10. Pending' \subseteq Pending \cup {u}
  <2> SUFFICES ASSUME NEW v \in Pending' PROVE v \in Pending \cup {u}
    OBVIOUS
  <2>1. (\E msg \in net : v = msg.update) \/ (\E m \in Nodes : v \in making'[m])
    BY <1>1 DEF Pending
  <2> QED BY <1>5, <2>1 DEF Pending
<1>11. PendingIsCurrent'
  <2> SUFFICES ASSUME settled' # {}, NEW v \in Pending' PROVE v.conns = conns'[v.node]
    BY DEF PendingIsCurrent, Current
  <2>1. \A w \in Pending : Current(w)
    BY <1>1 DEF Settling, PendingIsCurrent
  <2> QED BY <1>1, <1>4, <1>10, <2>1 DEF Current
<1>12. settled' \subseteq settled \cup {n} /\ settled \subseteq Nodes
  BY <1>1 DEF IInv, TypeOK
<1>13. Spread'
  <2> SUFFICES ASSUME NEW m \in settled', making'[m] = {}, NEW x \in Nodes, NEW y \in Nodes,
                      Has(x, m)', y \in conns'[x], {x, y} \in links'
               PROVE  Has(y, m)' \/ Carried(x, y, m)'
    BY DEF Spread
  <2>1. m # n /\ m \in settled /\ m \in Nodes
    BY <1>5, <1>12
  <2>2. stamp'[m] = stamp[m] /\ making[m] = {}
    BY <1>5, <2>1
  <2>3. Has(x, m) /\ y \in conns[x] /\ {x, y} \in links
    BY <1>1, <2>2 DEF Has
  <2>4. Has(y, m) \/ Carried(x, y, m)
    BY <2>1, <2>2, <2>3 DEF Settling, Spread
  <2> QED BY <1>1, <2>2, <2>4 DEF Has, Carried
<1>14. RowsAgree'
  <2> SUFFICES ASSUME NEW m \in settled', NEW k \in Nodes, k # m, info'[k][m] = stamp'[m]
               PROVE  /\ rows'[k][m] \subseteq conns'[m]
                      /\ \A l \in conns'[m] \ rows'[k][m] : m \notin conns'[l]
    BY DEF RowsAgree
  <2>1. m # n /\ m \in settled /\ m \in Nodes
    BY <1>1, <1>5, <1>7, <1>12
  <2> QED BY <1>1, <1>5, <2>1 DEF Settling, RowsAgree
<1> QED BY <1>9, <1>11, <1>13, <1>14 DEF Settling

(* What flood sends goes to every connection with an open link but one.    *)
LEMMA FloodedHas ==
    ASSUME NEW n, NEW u, NEW except, NEW y \in conns[n], y \notin except, {n, y} \in links
    PROVE  [from |-> n, to |-> y, update |-> u] \in Flooded(n, u, except)
BY DEF Flooded

(* And it says where it comes from.                                        *)
LEMMA FloodedFrom ==
    ASSUME NEW n, NEW u, NEW except, NEW msg \in Flooded(n, u, except)
    PROVE  msg.from = n /\ msg.update = u
<1>1. PICK m \in {m \in conns[n] \ except : {n, m} \in links} :
          msg = [from |-> n, to |-> m, update |-> u]
  BY DEF Flooded
<1> QED BY <1>1

(* A node floods its update to all peers that it has.                      *)
LEMMA EndFloodConv ==
    ASSUME IInv, Flood, Settling, NEW n \in Nodes, EndFlood(n)
    PROVE  Flood' /\ Settling'
<1>1. PICK u \in making[n] : net' = net \cup Flooded(n, u, {})
  BY DEF EndFlood
<1>2. /\ making' = [making EXCEPT ![n] = {}]
      /\ UNCHANGED <<links, conns, stamp, info, rows, settled>>
  BY DEF EndFlood
<1>3. u.node = n /\ u.stamp = stamp[n]
  BY <1>1 DEF Flood, MakingIsLast
<1>4. making'[n] = {} /\ \A m \in Nodes : m # n => making'[m] = making[m]
  BY <1>2 DEF IInv, TypeOK
<1>5. \A msg \in net' : msg \in net \/ (msg.from = n /\ msg.update = u)
  BY <1>1, FloodedFrom
<1>6. \A x \in Nodes : info[x][n] # stamp[n]
  BY <1>1 DEF Flood, MakingIsSecret
<1>7. Flood'
  <2>1. Started' /\ MakingIsLast'
    BY <1>2, <1>4 DEF Flood, Started, MakingIsLast
  <2>2. MakingIsSecret'
    BY <1>2, <1>3, <1>4, <1>5 DEF Flood, MakingIsSecret
  <2>3. SenderHas'
    BY <1>2, <1>3, <1>5 DEF Flood, SenderHas, Has
  <2> QED BY <2>1, <2>2, <2>3 DEF Flood
<1>8. Pending' \subseteq Pending
  <2> SUFFICES ASSUME NEW v \in Pending' PROVE v \in Pending
    OBVIOUS
  <2>1. (\E msg \in net' : v = msg.update) \/ (\E m \in Nodes : v \in making'[m])
    BY DEF Pending
  <2>2. CASE \E msg \in net' : v = msg.update
    BY <1>1, <1>5, <2>2 DEF Pending
  <2>3. CASE \E m \in Nodes : v \in making'[m]
    BY <1>4, <2>3 DEF Pending
  <2> QED BY <2>1, <2>2, <2>3
<1>9. PendingIsCurrent'
  BY <1>2, <1>8 DEF Settling, PendingIsCurrent, Current
<1>10. Spread'
  <2> SUFFICES ASSUME NEW m \in settled, making'[m] = {}, NEW x \in Nodes, NEW y \in Nodes,
                      Has(x, m)', y \in conns[x], {x, y} \in links
               PROVE  Has(y, m)' \/ Carried(x, y, m)'
    BY <1>2 DEF Spread
  <2>1. Has(x, m) /\ m \in Nodes
    BY <1>2 DEF Has, IInv, TypeOK
  <2>2. CASE m = n
    <3>1. x = n
      BY <1>6, <2>1, <2>2 DEF Has
    <3>2. PICK msg : msg = [from |-> n, to |-> y, update |-> u]
      OBVIOUS
    <3>3. msg \in net'
      BY <1>1, <3>1, <3>2, FloodedHas
    <3>4. msg.from = x /\ msg.to = y /\ msg.update.node = m /\ msg.update.stamp = stamp'[m]
      BY <1>2, <1>3, <2>2, <3>1, <3>2
    <3> QED BY <3>3, <3>4 DEF Carried
  <2>3. CASE m # n
    <3>1. Has(y, m) \/ Carried(x, y, m)
      BY <1>4, <2>1, <2>3 DEF Settling, Spread
    <3> QED BY <1>1, <1>2, <3>1 DEF Has, Carried
  <2> QED BY <2>2, <2>3
<1>11. RowsAgree'
  BY <1>2 DEF Settling, RowsAgree
<1> QED BY <1>7, <1>9, <1>10, <1>11 DEF Settling

(* A restart: what the node said before is behind its new epoch, and what  *)
(* it has sent on is lost with its links.                                  *)
LEMMA RestartConv ==
    ASSUME IInv, IInv', Flood, NEW n \in Nodes, Restart(n)
    PROVE  Flood' /\ Settling'
<1>1. /\ stamp' = [stamp EXCEPT ![n] = <<stamp[n][1] + 1, 0>>]
      /\ info' = [info EXCEPT ![n] = [m \in Nodes |-> Unknown]]
      /\ making' = [making EXCEPT ![n] = {}]
      /\ settled' = {}
      /\ net' = {msg \in net : {msg.from, msg.to} \notin {e \in links : n \in e}}
  BY DEF Restart, Forget, Close
<1>2. PICK s : s = <<stamp[n][1] + 1, 0>>
  OBVIOUS
<1>3. /\ stamp'[n] = s /\ \A m \in Nodes : m # n => stamp'[m] = stamp[m]
      /\ making'[n] = {} /\ \A m \in Nodes : m # n => making'[m] = making[m]
      /\ \A m \in Nodes : info'[n][m] = Unknown
      /\ \A k \in Nodes : k # n => info'[k] = info[k]
      /\ s \in Stamps
  <2>1. stamp'[n] \in Stamps
    BY DEF IInv, TypeOK
  <2> QED BY <1>1, <1>2, <2>1 DEF IInv, TypeOK
<1>4. s[1] # 0 /\ Older(stamp[n], s)
  <2>1. stamp[n] \in Stamps
    BY DEF IInv, TypeOK
  <2>2. stamp[n][1] \in Nat /\ stamp[n][2] \in Nat
    BY <2>1, StampIs, Bounds
  <2>3. s[1] = stamp[n][1] + 1
    BY <1>2
  <2> QED BY ONLY <2>2, <2>3 DEF Older
<1>5. \A v \in made : v.node = n => v.stamp # s
  BY <1>3, <1>4, LaterIsNew
<1>6. \A msg \in net' : /\ msg \in net /\ msg.update \in made /\ msg.from # n
                        /\ msg.from \in Nodes /\ msg.update.node \in Nodes
  <2> SUFFICES ASSUME NEW msg \in net'
               PROVE  /\ msg \in net /\ msg.update \in made /\ msg.from # n
                      /\ msg.from \in Nodes /\ msg.update.node \in Nodes
    OBVIOUS
  <2>1. msg \in net /\ {msg.from, msg.to} \notin {e \in links : n \in e}
    BY <1>1
  <2>2. {msg.from, msg.to} \in links /\ msg \in Messages /\ msg.update \in made
    BY <2>1 DEF IInv, TypeOK, Truth, PendingIsMade
  <2> QED BY <2>1, <2>2, MessageIs
<1>7. \A m \in Nodes : stamp[m] # Unknown
  BY DEF Flood, Started, Unknown
<1>8. Started'
  BY <1>3, <1>4 DEF Flood, Started
<1>9. MakingIsLast'
  BY <1>3 DEF Flood, MakingIsLast
<1>10. MakingIsSecret'
  <2> SUFFICES ASSUME NEW m \in Nodes, making'[m] # {}
               PROVE  /\ \A x \in Nodes : info'[x][m] # stamp'[m]
                      /\ \A msg \in net' : msg.update.node = m => msg.update.stamp # stamp'[m]
    BY DEF MakingIsSecret
  <2>1. m # n /\ making[m] # {} /\ stamp'[m] = stamp[m]
    BY <1>3
  <2>2. /\ \A x \in Nodes : info[x][m] # stamp[m]
        /\ \A msg \in net : msg.update.node = m => msg.update.stamp # stamp[m]
    BY <2>1 DEF Flood, MakingIsSecret
  <2> QED BY <1>3, <1>6, <1>7, <2>1, <2>2
<1>11. SenderHas'
  <2> SUFFICES ASSUME NEW msg \in net', msg.update.stamp = stamp'[msg.update.node]
               PROVE  Has(msg.from, msg.update.node)'
    BY DEF SenderHas
  <2>1. PICK x \in Nodes, m \in Nodes : x = msg.from /\ m = msg.update.node
    BY <1>6
  <2>2. m # n /\ x # n
    BY <1>3, <1>5, <1>6, <2>1
  <2>3. Has(x, m)
    BY <1>3, <1>6, <2>1, <2>2 DEF Flood, SenderHas
  <2>4. x = m \/ info'[x][m] = stamp'[m]
    BY <1>3, <2>2, <2>3 DEF Has
  <2> QED BY <2>1, <2>4 DEF Has
<1> QED BY <1>1, <1>8, <1>9, <1>10, <1>11, ResetSettling DEF Flood

(* A message that its receiver has no use for is taken off the network:    *)
(* the receiver has the last update of that node, or is no peer of it.     *)
LEMMA DiscardConv ==
    ASSUME IInv, Flood, Settling, NEW msg \in net, NotYetListed(msg) \/ Ignore(msg)
    PROVE  Flood' /\ Settling'
<1>1. /\ UNCHANGED <<links, conns, stamp, info, rows, making, settled>>
      /\ net' = net \ {msg}
  BY DEF NotYetListed, Ignore
<1>2. /\ msg.from \in Nodes /\ msg.to \in Nodes /\ msg.update \in made
      /\ msg.update.node \in Nodes /\ msg.update.stamp \in Stamps
  BY MessageIs DEF IInv, TypeOK, Truth, PendingIsMade
<1>3. ASSUME NEW x \in Nodes, NEW y \in Nodes, NEW m \in settled, y \in conns[x],
             Carried(x, y, m)
      PROVE  Has(y, m) \/ Carried(x, y, m)'
  <2>1. PICK w \in net : /\ w.from = x /\ w.to = y
                         /\ w.update.node = m /\ w.update.stamp = stamp[m]
    BY <1>3 DEF Carried
  <2>2. CASE w # msg
    BY <1>1, <2>1, <2>2 DEF Carried
  <2>3. CASE w = msg
    <3>1. msg.from = x /\ msg.to = y /\ msg.update.node = m /\ msg.update.stamp = stamp[m]
      BY <2>1, <2>3
    <3>2. CASE NotYetListed(msg)
      <4>1. m = x /\ y \notin msg.update.conns
        BY <3>1, <3>2 DEF NotYetListed, Unlisted
      <4>2. msg.update \in Pending
        BY DEF Pending
      <4>3. msg.update.conns = conns[m]
        BY <1>3, <3>1, <4>2 DEF Settling, PendingIsCurrent, Current
      <4> QED BY <1>3, <4>1, <4>3
    <3>3. CASE Ignore(msg)
      <4>1. m = y \/ ~Older(info[y][m], stamp[m])
        BY <3>1, <3>3 DEF Ignore, IsNews
      <4>2. CASE m = y
        BY <4>2 DEF Has
      <4>3. CASE ~Older(info[y][m], stamp[m])
        <5>1. m \in Nodes /\ info[y][m] \in Stamps /\ stamp[m] \in Stamps
          BY DEF IInv, TypeOK
        <5>2. ~Older(stamp[m], info[y][m])
          BY <5>1 DEF IInv, Truth, InfoIsOld
        <5>3. info[y][m] = stamp[m]
          BY <4>3, <5>1, <5>2, SameStamp
        <5> QED BY <5>3 DEF Has
      <4> QED BY <4>1, <4>2, <4>3
    <3> QED BY <3>2, <3>3
  <2> QED BY <2>2, <2>3
<1>4. net' \subseteq net
  BY <1>1
<1>5. Flood'
  BY <1>1, <1>4, LossFlood
<1>6. Settling'
  BY <1>1, <1>3, <1>4, LossSettling
<1> QED BY <1>5, <1>6

(* An update that is news: its receiver keeps what it says, passes it on   *)
(* to everybody but the sender, which has it already, and takes the        *)
(* update's node out of rows of nodes that it does not list.               *)
LEMMA ApplyConv ==
    ASSUME IInv, Flood, Settling, NEW msg \in net, Apply(msg)
    PROVE  Flood' /\ Settling'
<1>1. PICK n \in Nodes : n = msg.to
  BY MessageIs DEF IInv, TypeOK
<1>2. PICK u \in Updates : u = msg.update
  BY MessageIs DEF IInv, TypeOK
<1>3. u.node \in Nodes /\ u.stamp \in Stamps /\ u.conns \subseteq Nodes /\ u \in made
  BY <1>2 DEF Updates, IInv, Truth, PendingIsMade
<1>4. PICK p \in Nodes : p = msg.from
  BY MessageIs DEF IInv, TypeOK
<1>5. /\ u.node # n /\ Older(info[n][u.node], u.stamp)
      /\ info' = [info EXCEPT ![n][u.node] = u.stamp]
      /\ rows' = [rows EXCEPT ![n] = Rows(n, u)]
      /\ net' = (net \ {msg}) \cup Flooded(n, u, {p})
      /\ UNCHANGED <<links, conns, stamp, making, settled>>
  BY <1>1, <1>2, <1>4 DEF Apply, IsNews, PassOn
<1>6. /\ info'[n][u.node] = u.stamp
      /\ \A k, m \in Nodes : k # n \/ m # u.node => info'[k][m] = info[k][m]
  BY <1>3, <1>5 DEF IInv, TypeOK
<1>7. rows'[n] = Rows(n, u) /\ \A k \in Nodes : k # n => rows'[k] = rows[k]
  BY <1>5 DEF IInv, TypeOK
<1>8. \A w \in net' : w \in net \/ (w.from = n /\ w.update = u)
  BY <1>5, FloodedFrom
<1>9. info[n][u.node] # stamp[u.node]
  <2>1. ~Older(stamp[u.node], u.stamp)
    BY <1>3 DEF IInv, Truth, MadeIsOld
  <2> QED BY <1>5, <2>1
<1>10. \A x, m \in Nodes : Has(x, m) => Has(x, m)'
  <2> SUFFICES ASSUME NEW x \in Nodes, NEW m \in Nodes, Has(x, m)
               PROVE  x = m \/ info'[x][m] = stamp'[m]
    BY DEF Has
  <2>1. CASE x = n /\ m = u.node
    BY <1>5, <1>9, <2>1 DEF Has
  <2>2. CASE x # n \/ m # u.node
    BY <1>5, <1>6, <2>2 DEF Has
  <2> QED BY <2>1, <2>2
<1>11. u.stamp = stamp[u.node] => Has(n, u.node)' /\ Has(p, u.node)
  BY <1>2, <1>4, <1>5, <1>6 DEF Has, Flood, SenderHas
<1>12. Flood'
  <2>1. Started' /\ MakingIsLast'
    BY <1>5 DEF Flood, Started, MakingIsLast
  <2>2. MakingIsSecret'
    <3> SUFFICES ASSUME NEW m \in Nodes, making[m] # {}
                 PROVE  /\ \A x \in Nodes : info'[x][m] # stamp[m]
                        /\ \A w \in net' : w.update.node = m => w.update.stamp # stamp[m]
      BY <1>5 DEF MakingIsSecret
    <3>1. /\ \A x \in Nodes : info[x][m] # stamp[m]
          /\ \A w \in net : w.update.node = m => w.update.stamp # stamp[m]
      BY DEF Flood, MakingIsSecret
    <3>2. u.node = m => u.stamp # stamp[m]
      BY <1>2, <3>1
    <3>3. \A x \in Nodes : info'[x][m] # stamp[m]
      BY <1>6, <3>1, <3>2
    <3> QED BY <1>8, <3>1, <3>2, <3>3
  <2>3. SenderHas'
    <3> SUFFICES ASSUME NEW w \in net', w.update.stamp = stamp'[w.update.node]
                 PROVE  Has(w.from, w.update.node)'
      BY DEF SenderHas
    <3>1. CASE w.from = n /\ w.update = u
      <4>1. Has(n, u.node)'
        BY <1>5, <1>11, <3>1
      <4> QED BY <3>1, <4>1
    <3>2. CASE w \in net
      <4>1. PICK x \in Nodes, m \in Nodes : x = w.from /\ m = w.update.node
        BY <3>2, MessageIs DEF IInv, TypeOK
      <4>2. Has(x, m)
        BY <1>5, <3>2, <4>1 DEF Flood, SenderHas
      <4>3. Has(x, m)'
        BY <1>10, <4>2
      <4> QED BY <4>1, <4>3
    <3> QED BY <1>8, <3>1, <3>2
  <2> QED BY <2>1, <2>2, <2>3 DEF Flood
<1>13. u \in Pending
  BY <1>2 DEF Pending
<1>14. PendingIsCurrent'
  <2>1. Pending' \subseteq Pending
    <3> SUFFICES ASSUME NEW v \in Pending' PROVE v \in Pending
      OBVIOUS
    <3>1. (\E w \in net' : v = w.update) \/ (\E m \in Nodes : v \in making[m])
      BY <1>5 DEF Pending
    <3> QED BY <1>8, <1>13, <3>1 DEF Pending
  <2> QED BY <1>5, <2>1 DEF Settling, PendingIsCurrent, Current
<1>15. Spread'
  <2> SUFFICES ASSUME NEW m \in settled, making[m] = {}, NEW x \in Nodes, NEW y \in Nodes,
                      Has(x, m)', y \in conns[x], {x, y} \in links
               PROVE  Has(y, m)' \/ Carried(x, y, m)'
    BY <1>5 DEF Spread
  <2>0. m \in Nodes
    BY DEF IInv, TypeOK
  <2>1. CASE Has(x, m)
    <3>1. CASE Has(y, m)
      BY <1>10, <2>0, <3>1
    <3>2. CASE Carried(x, y, m)
      <4>1. PICK w \in net : /\ w.from = x /\ w.to = y
                             /\ w.update.node = m /\ w.update.stamp = stamp[m]
        BY <3>2 DEF Carried
      <4>2. CASE w = msg
        BY <1>1, <1>2, <1>11, <4>1, <4>2
      <4>3. CASE w # msg
        BY <1>5, <4>1, <4>3 DEF Carried
      <4> QED BY <4>2, <4>3
    <3> QED BY <2>1, <3>1, <3>2 DEF Settling, Spread
  <2>2. CASE ~Has(x, m)
    <3>1. x = n /\ m = u.node /\ u.stamp = stamp[m]
      BY <1>5, <1>6, <2>0, <2>2 DEF Has
    <3>2. CASE y = p
      <4>1. Has(y, m)
        BY <1>11, <3>1, <3>2
      <4> QED BY <1>10, <2>0, <4>1
    <3>3. CASE y # p
      <4>1. PICK w : w = [from |-> n, to |-> y, update |-> u]
        OBVIOUS
      <4>2. w \in net'
        BY <1>5, <3>1, <3>3, <4>1, FloodedHas
      <4>3. w.from = x /\ w.to = y /\ w.update.node = m /\ w.update.stamp = stamp'[m]
        BY <1>5, <3>1, <4>1
      <4> QED BY <4>2, <4>3 DEF Carried
    <3> QED BY <3>2, <3>3
  <2> QED BY <2>1, <2>2
<1>16. RowsAgree'
  <2> SUFFICES ASSUME NEW m \in settled, NEW k \in Nodes, k # m, info'[k][m] = stamp[m]
               PROVE  /\ rows'[k][m] \subseteq conns[m]
                      /\ \A l \in conns[m] \ rows'[k][m] : m \notin conns[l]
    BY <1>5 DEF RowsAgree
  <2>0. m \in Nodes
    BY DEF IInv, TypeOK
  <2>1. u.conns = conns[u.node]
    BY <1>13 DEF Settling, PendingIsCurrent, Current
  <2>2. CASE k # n
    BY <1>6, <1>7, <2>0, <2>2 DEF Settling, RowsAgree
  <2>3. CASE k = n /\ m = u.node
    <3>1. rows'[k][m] = u.conns
      BY <1>5, <1>7, <2>3, RowsIs DEF IInv
    <3> QED BY <2>1, <2>3, <3>1
  <2>4. CASE k = n /\ m # u.node
    <3>1. info[k][m] = stamp[m]
      BY <1>6, <2>0, <2>4
    <3>2. /\ rows[k][m] \subseteq conns[m]
          /\ \A l \in conns[m] \ rows[k][m] : m \notin conns[l]
      BY <3>1 DEF Settling, RowsAgree
    <3>3. \/ rows'[k][m] = rows[k][m]
          \/ m \notin u.conns /\ rows'[k][m] = rows[k][m] \ {u.node}
      BY <1>7, <2>0, <2>4 DEF Rows
    <3> QED BY <2>1, <3>2, <3>3
  <2> QED BY <2>2, <2>3, <2>4
<1> QED BY <1>12, <1>14, <1>15, <1>16 DEF Settling

(* Every step keeps what the flood needs and where it stands.              *)
LEMMA NextConv == IInv /\ IInv' /\ Flood /\ Settling /\ [Next]_vars => Flood' /\ Settling'
<1> SUFFICES ASSUME IInv, IInv', Flood, Settling, [Next]_vars PROVE Flood' /\ Settling'
  OBVIOUS
<1>1. ASSUME NEW n \in Nodes, NEW m \in Nodes, LoseConnection(n, m) \/ Establish(n, m)
      PROVE  Flood' /\ Settling'
  <2>1. settled' = {} /\ net' = net /\ UNCHANGED <<stamp, info, making>>
    BY <1>1 DEF LoseConnection, Drop, Establish
  <2> QED BY <2>1, LossFlood, ResetSettling
<1>2. ASSUME NEW msg \in net, TearDown(msg) PROVE Flood' /\ Settling'
  <2>1. settled' = {} /\ net' \subseteq net /\ UNCHANGED <<stamp, info, making>>
    BY <1>2 DEF TearDown, Drop, Close
  <2> QED BY <2>1, LossFlood, ResetSettling
<1>3. CASE UNCHANGED vars
  <2>1. /\ net' \subseteq net /\ UNCHANGED <<conns, stamp, info, rows, making, settled>>
        /\ links' = links /\ net' = net
    BY <1>3 DEF vars
  <2>2. \A x, y \in Nodes : \A m \in settled : Carried(x, y, m) => Carried(x, y, m)'
    BY <2>1 DEF Carried
  <2> QED BY <2>1, <2>2, LossFlood, LossSettling
<1>4. ASSUME NEW msg \in net, Receive(msg) PROVE Flood' /\ Settling'
  BY <1>2, <1>4, DiscardConv, ApplyConv DEF Receive
<1> QED BY <1>1, <1>3, <1>4, LinkConv, BreakConv, BeginFloodConv, EndFloodConv, RestartConv
     DEF Next

(* When all is quiet, whoever a settled node is reached from has its last  *)
(* update: the nodes that do not have it are a set no connection leaves.   *)
LEMMA QuietHas ==
    ASSUME IInv, Settling, Quiet, NEW n \in Nodes, NEW m \in Nodes, n # m, Reaches(n, m)
    PROVE  m \in settled /\ info[n][m] = stamp[m]
<1>1. m \in settled
  <2> SUFFICES ASSUME conns[m] = {} PROVE FALSE
    BY DEF Quiet
  <2>1. PICK S \in SUBSET Nodes : S = Nodes \ {m}
    OBVIOUS
  <2>2. \A x \in S, y \in Nodes : Connected(x, y) => y \in S
    BY <2>1 DEF Connected
  <2>3. n \in S /\ m \notin S
    BY <2>1
  <2> QED BY <2>2, <2>3 DEF Reaches
<1>2. making[m] = {} /\ net = {}
  <2>1. Pending = {}
    BY DEF Quiet
  <2>2. \A msg \in net : msg.update \in Pending
    BY DEF Pending
  <2>3. \A u \in making[m] : u \in Pending
    BY DEF Pending
  <2> QED BY <2>1, <2>2, <2>3
<1>3. PICK S \in SUBSET Nodes : S = {x \in Nodes : ~Has(x, m)}
  OBVIOUS
<1>4. ASSUME NEW x \in S, NEW y \in Nodes, Connected(x, y) PROVE y \in S
  <2> SUFFICES ASSUME Has(y, m) PROVE Has(x, m)
    BY <1>3
  <2>1. x \in conns[y] /\ x \in Nodes
    BY <1>3, <1>4 DEF Connected
  <2>2. {y, x} \in links
    BY <2>1 DEF Quiet
  <2>3. Has(x, m) \/ Carried(y, x, m)
    BY <1>1, <1>2, <2>1, <2>2 DEF Settling, Spread
  <2> QED BY <1>2, <2>3 DEF Carried
<1>5. m \notin S
  BY <1>3 DEF Has
<1>6. n \notin S
  BY <1>4, <1>5 DEF Reaches
<1> QED BY <1>1, <1>3, <1>6 DEF Has

(* In quiet the nodes agree with each other about every connection.        *)
LEMMA QuietRows == IInv /\ Settling => Convergence
<1> SUFFICES ASSUME IInv, Settling, Quiet, NEW n \in Nodes, NEW m \in Nodes, Reaches(n, m)
             PROVE  rows[n][m] = conns[m]
  BY DEF Convergence
<1>1. CASE n = m
  BY <1>1 DEF IInv, Truth, OwnRowIsConnections
<1>2. CASE n # m
  <2>1. m \in settled /\ info[n][m] = stamp[m]
    BY <1>2, QuietHas
  <2>2. /\ rows[n][m] \subseteq conns[m]
        /\ \A k \in conns[m] \ rows[n][m] : m \notin conns[k]
    BY <1>2, <2>1 DEF Settling, RowsAgree
  <2>3. \A k \in conns[m] : m \in conns[k]
    BY DEF Quiet
  <2> QED BY <2>2, <2>3
<1> QED BY <1>1, <1>2

(* The flood and what it has left behind, in every state.                  *)
THEOREM Flooding == Spec => [](Flood /\ Settling)
<1>1. Init => Flood /\ Settling
  <2> SUFFICES ASSUME Init PROVE Flood /\ Settling
    OBVIOUS
  <2>1. Started
    BY DEF Init, Started
  <2>2. MakingIsLast /\ MakingIsSecret /\ SenderHas
    BY DEF Init, MakingIsLast, MakingIsSecret, SenderHas
  <2>3. Settling
    BY DEF Init, Settling, PendingIsCurrent, Spread, RowsAgree
  <2> QED BY <2>1, <2>2, <2>3 DEF Flood
<1> QED BY <1>1, NextConv, Invariance, PTL DEF Spec

(* Once the connections stop changing and every node has sent an update    *)
(* that no older traffic follows, all nodes know the connections of all    *)
(* nodes they reach, for every topology and number of restarts             *)
(* (sendRoutingUpdate, handleRoutingUpdate, flood).                        *)
THEOREM Converged == Spec => []Convergence
BY QuietRows, Invariance, Flooding, PTL
=============================================================================
