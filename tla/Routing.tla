------------------------------ MODULE Routing -------------------------------
(***************************************************************************)
(* The link-state protocol of pkg/netceptor/netceptor.go: every node tells *)
(* all others, by flooding, which nodes it is connected to.                *)
(*                                                                         *)
(* An update is named by its node, epoch and sequence number.  It is made  *)
(* under connLock (makeRoutingUpdate) and flooded afterwards to whatever   *)
(* connections there are by then, by one goroutine per connection, so      *)
(* updates on a link overtake each other.  What a node sends before it has *)
(* heard from its peer, the greeting, comes before all of them.  A node    *)
(* that handles an update passes it on in the same step.                   *)
(*                                                                         *)
(* A row of knownConnectionCosts is the set of its keys; costs, and the    *)
(* sessions behind a connection, are the business of other modules.        *)
(* Nodes restart with a later epoch (the clock goes forward) and names are *)
(* unique, so a node that hears of itself only ignores it.  seenUpdates is *)
(* left out: an update in it is never newer than the entry of              *)
(* knownNodeInfo that is looked at next.                                   *)
(***************************************************************************)
EXTENDS Integers, FiniteSets

CONSTANTS
    Nodes,        \* node names
    Edges,        \* pairs {a, b} of nodes that a backend may connect
    MaxUpdates,   \* bound on the updates made, greetings not counted
    MaxEpoch,     \* bound on the number of lives of a node
    MaxChanges    \* bound on the number of times links open or break

ASSUME RoutingAssumption ==
    /\ Edges \subseteq {{a, b} : a \in Nodes, b \in Nodes}
    /\ \A n \in Nodes : {n} \notin Edges
    /\ MaxUpdates \in Nat
    /\ MaxEpoch \in Nat \ {0}
    /\ MaxChanges \in Nat

Stamps == (0..MaxEpoch) \X (0..MaxUpdates)
Unknown == <<0, 0>>      \* no entry in knownNodeInfo

Updates == [node : Nodes, stamp : Stamps, conns : SUBSET Nodes]

VARIABLES
    links,      \* the edges with an open backend session
    conns,      \* [Nodes -> SUBSET Nodes]: s.connections
    mutual,     \* [Nodes -> SUBSET Nodes]: peers with remoteEstablished set
    stamp,      \* [Nodes -> Stamps]: s.epoch and s.sequence
    info,       \* [Nodes -> [Nodes -> Stamps]]: s.knownNodeInfo
    rows,       \* [Nodes -> [Nodes -> SUBSET Nodes]]: s.knownConnectionCosts
    making,     \* [Nodes -> sets of at most one update]: made, not flooded
    greetings,  \* <<n, m>>: n's greeting is on its way to m
    net,        \* messages under way: from, to and the update
    changes,    \* the number of times links opened or broke
    made,       \* all updates made so far
    settled     \* nodes that made an update since connections last changed,
                \* when no update from before that change was under way

vars == <<links, conns, mutual, stamp, info, rows, making, greetings, net,
          changes, made, settled>>

Messages == [from : Nodes, to : Nodes, update : Updates]

(* The order of epochs, and of sequence numbers within an epoch.           *)
Older(s, t) == s[1] < t[1] \/ (s[1] = t[1] /\ s[2] < t[2])

(* Links close: what is queued for them or in flight is lost.              *)
Close(edges) ==
    /\ links' = links \ edges
    /\ net' = {msg \in net : {msg.from, msg.to} \notin edges}
    /\ greetings' = {g \in greetings : {g[1], g[2]} \notin edges}

Pending == {msg.update : msg \in net} \cup UNION {making[n] : n \in Nodes}

Current(u) == u.conns = conns[u.node]

-----------------------------------------------------------------------------
Init ==
    /\ links = {}
    /\ conns = [n \in Nodes |-> {}]
    /\ mutual = [n \in Nodes |-> {}]
    /\ stamp = [n \in Nodes |-> <<1, 0>>]
    /\ info = [n \in Nodes |-> [m \in Nodes |-> Unknown]]
    /\ rows = [n \in Nodes |-> [m \in Nodes |-> {}]]
    /\ making = [n \in Nodes |-> {}]
    /\ greetings = {}
    /\ net = {}
    /\ changes = 0
    /\ made = {}
    /\ settled = {}

(* A backend connects two nodes that have no connection to each other;     *)
(* both begin with a greeting.                                             *)
LinkOpens(a, b) ==
    /\ {a, b} \in Edges \ links
    /\ b \notin conns[a] /\ a \notin conns[b]
    /\ changes < MaxChanges
    /\ changes' = changes + 1
    /\ links' = links \cup {{a, b}}
    /\ greetings' = greetings \cup {<<a, b>>, <<b, a>>}
    /\ UNCHANGED <<conns, mutual, stamp, info, rows, making, net, made, settled>>

(* A backend session breaks.                                               *)
LinkBreaks(e) ==
    /\ e \in links
    /\ changes < MaxChanges
    /\ changes' = changes + 1
    /\ Close({e})
    /\ UNCHANGED <<conns, mutual, stamp, info, rows, making, made, settled>>

(* removeConnection at n, of the connection to m.                          *)
Drop(n, m) ==
    /\ conns' = [conns EXCEPT ![n] = @ \ {m}]
    /\ mutual' = [mutual EXCEPT ![n] = @ \ {m}]
    /\ rows' = [rows EXCEPT ![n][m] = @ \ {n}, ![n][n] = @ \ {m}]
    /\ settled' = {}

(* n notices that its session with m is gone.                              *)
LoseConnection(n, m) ==
    /\ m \in conns[n]
    /\ {n, m} \notin links
    /\ Drop(n, m)
    /\ UNCHANGED <<links, stamp, info, making, greetings, net, changes, made>>

(* makeRoutingUpdate: the next sequence number and the connections of now. *)
NextStamp(n) == <<stamp[n][1], stamp[n][2] + 1>>

Update(n) == [node |-> n, stamp |-> NextStamp(n), conns |-> conns[n]]

MakeUpdate(n) ==
    /\ Cardinality(made) < MaxUpdates
    /\ stamp' = [stamp EXCEPT ![n] = NextStamp(n)]
    /\ made' = made \cup {Update(n)}

(* sendInitialConnectMessage sends an update every second until n has      *)
(* heard from m.  No node ever applies one, as they do not list the peer,  *)
(* so the numbers they use up are not counted.                             *)
Greet(n, m) ==
    /\ {n, m} \in links
    /\ m \notin conns[n]
    /\ greetings' = greetings \cup {<<n, m>>}
    /\ UNCHANGED <<links, conns, mutual, stamp, info, rows, making, net, changes,
                   made, settled>>

(* sendRoutingUpdate, periodically and on request, first half.             *)
BeginFlood(n) ==
    /\ making[n] = {}
    /\ conns[n] # {}
    /\ MakeUpdate(n)
    /\ making' = [making EXCEPT ![n] = {Update(n)}]
    /\ settled' = IF \A u \in Pending : Current(u) THEN settled \cup {n}
                                                   ELSE settled
    /\ UNCHANGED <<links, conns, mutual, info, rows, greetings, net, changes>>

(* What flood sends from n: to every connection but one.  A connection     *)
(* whose link is gone takes nothing.                                       *)
Flooded(n, u, except) ==
    {[from |-> n, to |-> m, update |-> u] :
        m \in {m \in conns[n] \ except : {n, m} \in links}}

EndFlood(n) ==
    /\ \E u \in making[n] : net' = net \cup Flooded(n, u, {})
    /\ making' = [making EXCEPT ![n] = {}]
    /\ UNCHANGED <<links, conns, mutual, stamp, info, rows, greetings, changes,
                   made, settled>>

-----------------------------------------------------------------------------
(* n hears from m over a new session: the connection is established.       *)
Establish(n, m) ==
    /\ <<m, n>> \in greetings
    /\ m \notin conns[n]
    /\ greetings' = greetings \ {<<m, n>>}
    /\ conns' = [conns EXCEPT ![n] = @ \cup {m}]
    /\ rows' = [rows EXCEPT ![n][n] = @ \cup {m}, ![n][m] = @ \cup {n}]
    /\ settled' = {}
    /\ UNCHANGED <<links, mutual, stamp, info, making, net, changes, made>>

(* "This is a late initialization request from the remote node": m has not *)
(* heard from n yet and goes on greeting.                                  *)
LateGreeting(n, m) ==
    /\ <<m, n>> \in greetings
    /\ m \in conns[n]
    /\ greetings' = greetings \ {<<m, n>>}
    /\ UNCHANGED <<links, conns, mutual, stamp, info, rows, making, net, changes,
                   made, settled>>

(* An update arrives over an established connection.                       *)
Arrives(msg) ==
    /\ <<msg.from, msg.to>> \notin greetings
    /\ msg.from \in conns[msg.to]

(* The peer's own update, and it does not list us.                         *)
Unlisted(msg) ==
    msg.update.node = msg.from /\ msg.to \notin msg.update.conns

(* Before the peer has listed us once, that is taken for a greeting too.   *)
NotYetListed(msg) ==
    /\ Arrives(msg)
    /\ Unlisted(msg)
    /\ msg.from \notin mutual[msg.to]
    /\ net' = net \ {msg}
    /\ UNCHANGED <<links, conns, mutual, stamp, info, rows, making, greetings,
                   changes, made, settled>>

(* "Remote node no longer lists us as a connection": the connection is     *)
(* removed and the session closed.                                         *)
TearDown(msg) ==
    /\ Arrives(msg)
    /\ Unlisted(msg)
    /\ msg.from \in mutual[msg.to]
    /\ Drop(msg.to, msg.from)
    /\ Close({{msg.from, msg.to}})
    /\ UNCHANGED <<stamp, info, making, changes, made>>

(* An update that is handled; one from the peer itself lists us.           *)
Handled(msg) ==
    /\ Arrives(msg)
    /\ ~Unlisted(msg)
    /\ mutual' = IF msg.update.node = msg.from
                    THEN [mutual EXCEPT ![msg.to] = @ \cup {msg.from}]
                    ELSE mutual

(* handleRoutingUpdate goes on only with news about another node.          *)
IsNews(n, u) == u.node # n /\ Older(info[n][u.node], u.stamp)

Ignore(msg) ==
    /\ Handled(msg)
    /\ ~IsNews(msg.to, msg.update)
    /\ net' = net \ {msg}
    /\ UNCHANGED <<links, conns, stamp, info, rows, making, greetings, changes,
                   made, settled>>

(* Faulty variant: what was known of the node is kept.                     *)
RowsMerged(n, u) == [rows[n] EXCEPT ![u.node] = @ \cup u.conns]

(* knownConnectionCosts of n after update u: a row that changed is         *)
(* replaced, and the node is taken out of the rows of the nodes that it    *)
(* does not list, except our own.                                          *)
Rows(n, u) ==
    IF u.conns = rows[n][u.node] THEN rows[n]
    ELSE [m \in Nodes |-> IF m = u.node THEN u.conns
                          ELSE IF m # n /\ m \notin u.conns THEN rows[n][m] \ {u.node}
                          ELSE rows[n][m]]

(* Faulty variant: the update is not passed on.                            *)
PassOnNot(msg) == net \ {msg}

(* Messages under way after n has taken msg and flooded its update.        *)
PassOn(msg) == (net \ {msg}) \cup Flooded(msg.to, msg.update, {msg.from})

Apply(msg) ==
    LET n == msg.to
        u == msg.update
    IN  /\ Handled(msg)
        /\ IsNews(n, u)
        /\ info' = [info EXCEPT ![n][u.node] = u.stamp]
        /\ rows' = [rows EXCEPT ![n] = Rows(n, u)]
        /\ net' = PassOn(msg)
        /\ UNCHANGED <<links, conns, stamp, making, greetings, changes, made,
                       settled>>

Receive(msg) == NotYetListed(msg) \/ TearDown(msg) \/ Ignore(msg) \/ Apply(msg)

(* What Restart does besides giving n its new epoch.                       *)
Forget(n) ==
    /\ Close({e \in links : n \in e})
    /\ conns' = [conns EXCEPT ![n] = {}]
    /\ mutual' = [mutual EXCEPT ![n] = {}]
    /\ info' = [info EXCEPT ![n] = [m \in Nodes |-> Unknown]]
    /\ rows' = [rows EXCEPT ![n] = [m \in Nodes |-> {}]]
    /\ making' = [making EXCEPT ![n] = {}]
    /\ settled' = {}
    /\ UNCHANGED <<changes, made>>

(* The process dies and is started again: its sessions are gone and so is  *)
(* all it knew.                                                            *)
Restart(n) ==
    /\ stamp[n][1] < MaxEpoch
    /\ stamp' = [stamp EXCEPT ![n] = <<@[1] + 1, 0>>]
    /\ Forget(n)

Next ==
    \/ \E n, m \in Nodes :
          \/ LinkOpens(n, m) \/ LoseConnection(n, m)
          \/ Greet(n, m) \/ Establish(n, m) \/ LateGreeting(n, m)
    \/ \E e \in links : LinkBreaks(e)
    \/ \E n \in Nodes : BeginFlood(n) \/ EndFlood(n) \/ Restart(n)
    \/ \E msg \in net : Receive(msg)

Spec == Init /\ [][Next]_vars

-----------------------------------------------------------------------------
(* Types of the node state and of the messages.                            *)
TypeOK ==
    /\ links \subseteq Edges
    /\ conns \in [Nodes -> SUBSET Nodes]
    /\ mutual \in [Nodes -> SUBSET Nodes]
    /\ stamp \in [Nodes -> Stamps]
    /\ info \in [Nodes -> [Nodes -> Stamps]]
    /\ rows \in [Nodes -> [Nodes -> SUBSET Nodes]]
    /\ making \in [Nodes -> SUBSET Updates]
    /\ net \subseteq Messages
    /\ changes \in 0..MaxChanges
    /\ made \subseteq Updates
    /\ settled \subseteq Nodes
    /\ \A msg \in net : {msg.from, msg.to} \in links
    /\ \A g \in greetings : g \in Nodes \X Nodes /\ {g[1], g[2]} \in links

(* Nobody has or hears news of a node that the node did not send: neither  *)
(* what is known of it nor what is under way is ahead of its own epoch and *)
(* sequence number, through restarts as well.  Otherwise its next updates  *)
(* would be taken for old ones and ignored.                                *)
NeverAhead ==
    /\ \A n, m \in Nodes : ~Older(stamp[m], info[n][m])
    /\ \A u \in Pending : ~Older(stamp[u.node], u.stamp)

(* What a node knows of another node's connections comes from the newest   *)
(* update of that node it has accepted, or from its own connection to it:  *)
(* updates that overtake each other never bring a link back.               *)
NoGhostLinks ==
    \A n, m \in Nodes :
        n # m =>
          \A k \in rows[n][m] \ {n} :
             \E u \in made :
                u.node = m /\ u.stamp = info[n][m] /\ k \in u.conns

(* A node's own row is the set of its connections, whatever it hears.      *)
OwnRowIsConnections ==
    \A n \in Nodes : rows[n][n] = conns[n]

(* What a node believes of the mesh is what the others have said last, in  *)
(* whatever order their updates come (handleRoutingUpdate).                *)
KnowledgeIsTrue == NeverAhead /\ NoGhostLinks /\ OwnRowIsConnections

-----------------------------------------------------------------------------
(* There is a connection, at both ends.                                    *)
Connected(n, m) == m \in conns[n] /\ n \in conns[m]

(* m is in every set of nodes that has n and that no connection leaves.    *)
Reaches(n, m) ==
    \A S \in SUBSET Nodes :
        n \in S /\ (\A x \in S, y \in Nodes : Connected(x, y) => y \in S) => m \in S

(* Nothing is under way, every connection is one at both ends with an open *)
(* link, and every connected node has sent an update since the last change.*)
Quiet ==
    /\ Pending = {}
    /\ \A n \in Nodes : \A m \in conns[n] : n \in conns[m] /\ {n, m} \in links
    /\ {n \in Nodes : conns[n] # {}} \subseteq settled

(* Once the connections stop changing and every node has sent an update    *)
(* that no older traffic follows, every node knows exactly the connections *)
(* of every node it can reach, however the updates overtook each other.    *)
Convergence ==
    Quiet => \A n, m \in Nodes : Reaches(n, m) => rows[n][m] = conns[m]
=============================================================================
