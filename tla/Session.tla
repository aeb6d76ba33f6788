------------------------------ MODULE Session -------------------------------
(***************************************************************************)
(* runProtocol of pkg/netceptor/netceptor.go at one node: the life of the  *)
(* sessions that backends hand to it, and the two tables they share,       *)
(* s.connections (under connLock) and this node's row of                   *)
(* s.knownConnectionCosts (under knownNodeLock).                           *)
(*                                                                         *)
(* A redialled link gives a second session for the same peer while the     *)
(* first is still being cleaned up, and the tables are keyed by peer, not  *)
(* by session.  Each section under one lock is a step, and so is each      *)
(* select the function may wait in.  What the established session does     *)
(* with data, advertisements and routing updates is in other modules; here *)
(* it either goes on or ends.                                              *)
(***************************************************************************)
EXTENDS Naturals

CONSTANTS
    Sessions,    \* calls of runProtocol
    Peers,       \* names of other nodes
    NoSession,   \* an absent key of s.connections
    NoPeer       \* the empty remoteNodeID

SessionAssumption == NoSession \notin Sessions /\ NoPeer \notin Peers

VARIABLES
    pc,          \* [Sessions -> Stages]: where runProtocol is
    remote,      \* [Sessions -> Peers \cup {NoPeer}]: remoteNodeID
    cancelled,   \* [Sessions -> BOOLEAN]: ci.Context is done
    greeting,    \* [Sessions -> BOOLEAN]: sendInitialConnectMessage runs
    conns,       \* s.connections: [Peers -> Sessions \cup {NoSession}]
    ownRow       \* the peers listed in s.knownConnectionCosts[s.nodeID],
                 \* which are the ones whose row lists this node

vars == <<pc, remote, cancelled, greeting, conns, ownRow>>

Stages == {"new",           \* not called yet
           "init",          \* in the loop, not established
           "check",         \* the peer is acceptable; about to take connLock
           "purge1",        \* found a cancelled entry, lock given up
           "purge2",        \* has deleted it, its cost is next
           "relock",        \* about to take connLock again
           "offer",         \* registered; at the send to initDoneChan
           "rows",          \* about to enter the connection's cost
           "flood",         \* at the send to sendRouteFloodChan
           "update",        \* at the send to updateRoutingTableChan
           "established",   \* in the loop, established
           "remove1",       \* in removeConnection, before connLock
           "remove2",       \* in removeConnection, before knownNodeLock
           "return",        \* in the deferred function
           "ended"}

To(s, stage) == pc' = [pc EXCEPT ![s] = stage]

-----------------------------------------------------------------------------
Init ==
    /\ pc = [s \in Sessions |-> "new"]
    /\ remote = [s \in Sessions |-> NoPeer]
    /\ cancelled = [s \in Sessions |-> FALSE]
    /\ greeting = [s \in Sessions |-> FALSE]
    /\ conns = [p \in Peers |-> NoSession]
    /\ ownRow = {}

(* runProtocol starts the reader, the writer and the greeting.             *)
Start(s) ==
    /\ pc[s] = "new"
    /\ To(s, "init")
    /\ greeting' = [greeting EXCEPT ![s] = TRUE]
    /\ UNCHANGED <<remote, cancelled, conns, ownRow>>

(* A first routing update names an acceptable peer.                        *)
FirstUpdate(s, p) ==
    /\ pc[s] = "init"
    /\ To(s, "check")
    /\ remote' = [remote EXCEPT ![s] = p]
    /\ UNCHANGED <<cancelled, greeting, conns, ownRow>>

(* The first update has our own name or one that is not allowed, or the    *)
(* peer rejects us.                                                        *)
NotAcceptable(s) ==
    /\ pc[s] = "init"
    /\ To(s, "return")
    /\ UNCHANGED <<remote, cancelled, greeting, conns, ownRow>>

(* Under connLock: no entry for the peer.                                  *)
Register(s) ==
    /\ pc[s] = "check"
    /\ conns[remote[s]] = NoSession
    /\ conns' = [conns EXCEPT ![remote[s]] = s]
    /\ To(s, "offer")
    /\ UNCHANGED <<remote, cancelled, greeting, ownRow>>

(* Under connLock: the entry's context is live.                            *)
Duplicate(s) ==
    /\ pc[s] = "check"
    /\ conns[remote[s]] # NoSession
    /\ ~cancelled[conns[remote[s]]]
    /\ To(s, "return")
    /\ UNCHANGED <<remote, cancelled, greeting, conns, ownRow>>

(* Under connLock: the entry's context is cancelled.  The lock is given up *)
(* to call removeConnection and taken again.                               *)
FindCancelled(s) ==
    /\ pc[s] = "check"
    /\ conns[remote[s]] # NoSession
    /\ cancelled[conns[remote[s]]]
    /\ To(s, "purge1")
    /\ UNCHANGED <<remote, cancelled, greeting, conns, ownRow>>

(* removeConnection, its two halves, on the way to stage next.             *)
DeleteEntry(s, stage, next) ==
    /\ pc[s] = stage
    /\ conns' = [conns EXCEPT ![remote[s]] = NoSession]
    /\ To(s, next)
    /\ UNCHANGED <<remote, cancelled, greeting, ownRow>>

DeleteCost(s, stage, next) ==
    /\ pc[s] = stage
    /\ ownRow' = ownRow \ {remote[s]}
    /\ To(s, next)
    /\ UNCHANGED <<remote, cancelled, greeting, conns>>

Purge1(s) == DeleteEntry(s, "purge1", "purge2")
Purge2(s) == DeleteCost(s, "purge2", "relock")

(* Under connLock again: the entry is written whatever is there by now.    *)
Relock(s) ==
    /\ pc[s] = "relock"
    /\ conns' = [conns EXCEPT ![remote[s]] = s]
    /\ To(s, "offer")
    /\ UNCHANGED <<remote, cancelled, greeting, ownRow>>

(* The greeting takes the word that it is done.                            *)
Offer(s) ==
    /\ pc[s] = "offer"
    /\ greeting[s]
    /\ greeting' = [greeting EXCEPT ![s] = FALSE]
    /\ To(s, "rows")
    /\ UNCHANGED <<remote, cancelled, conns, ownRow>>

EnterCost(s) ==
    /\ pc[s] = "rows"
    /\ ownRow' = ownRow \cup {remote[s]}
    /\ To(s, "flood")
    /\ UNCHANGED <<remote, cancelled, greeting, conns>>

AskFlood(s) ==
    /\ pc[s] = "flood"
    /\ To(s, "update")
    /\ UNCHANGED <<remote, cancelled, greeting, conns, ownRow>>

AskUpdate(s) ==
    /\ pc[s] = "update"
    /\ To(s, "established")
    /\ UNCHANGED <<remote, cancelled, greeting, conns, ownRow>>

(* The context is found done in one of the selects: the connection is      *)
(* removed, except that the last select of the establishment just returns. *)
SeeDone(s) ==
    /\ cancelled[s]
    /\ \/ pc[s] \in {"offer", "flood", "established"} /\ To(s, "remove1")
       \/ pc[s] = "update" /\ To(s, "return")
       \/ pc[s] = "init" /\ To(s, "return")
    /\ UNCHANGED <<remote, cancelled, greeting, conns, ownRow>>

(* Faulty variant: the connection is rejected but not removed.             *)
DisagreeKeeps(s) ==
    /\ pc[s] = "established"
    /\ To(s, "return")
    /\ UNCHANGED <<remote, cancelled, greeting, conns, ownRow>>

(* An established peer rejects us, or sends an update that we reject: it   *)
(* has changed its name, does not list us any more, or lists another cost. *)
Disagree(s) ==
    /\ pc[s] = "established"
    /\ To(s, "remove1")
    /\ UNCHANGED <<remote, cancelled, greeting, conns, ownRow>>

Remove1(s) == DeleteEntry(s, "remove1", "remove2")
Remove2(s) == DeleteCost(s, "remove2", "return")

(* The deferred function closes the backend session.                       *)
Return(s) ==
    /\ pc[s] = "return"
    /\ To(s, "ended")
    /\ UNCHANGED <<remote, cancelled, greeting, conns, ownRow>>

(* The reader or the writer meets an error of the backend session, which   *)
(* may just have been closed at this end.                                  *)
LinkFails(s) ==
    /\ pc[s] # "new"
    /\ ~cancelled[s]
    /\ cancelled' = [cancelled EXCEPT ![s] = TRUE]
    /\ UNCHANGED <<pc, remote, greeting, conns, ownRow>>

(* monitorConnectionAging looks at the entries of s.connections only.      *)
IdleTimeout(p) ==
    /\ conns[p] # NoSession
    /\ ~cancelled[conns[p]]
    /\ cancelled' = [cancelled EXCEPT ![conns[p]] = TRUE]
    /\ UNCHANGED <<pc, remote, greeting, conns, ownRow>>

(* Faulty variant: the greeting gives up without cancelling the session.   *)
GreetingQuits(s) ==
    /\ greeting[s]
    /\ greeting' = [greeting EXCEPT ![s] = FALSE]
    /\ UNCHANGED <<pc, remote, cancelled, conns, ownRow>>

(* The greeting has been sent more than ten times, or the context is done. *)
GreetingEnds(s) ==
    /\ greeting[s]
    /\ greeting' = [greeting EXCEPT ![s] = FALSE]
    /\ cancelled' = [cancelled EXCEPT ![s] = TRUE]
    /\ UNCHANGED <<pc, remote, conns, ownRow>>

Protocol(s) ==
    \/ Register(s) \/ Duplicate(s) \/ FindCancelled(s)
    \/ Purge1(s) \/ Purge2(s) \/ Relock(s)
    \/ Offer(s) \/ EnterCost(s) \/ AskFlood(s) \/ AskUpdate(s)
    \/ SeeDone(s) \/ Remove1(s) \/ Remove2(s) \/ Return(s)

Next ==
    \/ \E s \in Sessions :
          \/ Start(s) \/ NotAcceptable(s) \/ Protocol(s) \/ Disagree(s)
          \/ LinkFails(s) \/ GreetingEnds(s)
          \/ \E p \in Peers : FirstUpdate(s, p)
    \/ \E p \in Peers : IdleTimeout(p)

Spec == Init /\ [][Next]_vars

(* runProtocol goes on when it can, and the greeting ends after its tries. *)
(* Nothing else has to happen: a reader that holds a message nobody takes  *)
(* any more does not even notice that its session is closed.               *)
FairSpec ==
    /\ Spec
    /\ \A s \in Sessions : WF_vars(Protocol(s)) /\ WF_vars(GreetingEnds(s))

-----------------------------------------------------------------------------
(* Types of the locals of runProtocol and of the tables.                   *)
TypeOK ==
    /\ pc \in [Sessions -> Stages]
    /\ remote \in [Sessions -> Peers \cup {NoPeer}]
    /\ cancelled \in [Sessions -> BOOLEAN]
    /\ greeting \in [Sessions -> BOOLEAN]
    /\ conns \in [Peers -> Sessions \cup {NoSession}]
    /\ ownRow \subseteq Peers
    /\ \A s \in Sessions : remote[s] = NoPeer => pc[s] \in {"new", "init", "return", "ended"}

(* An entry of s.connections belongs to a session with that peer which is  *)
(* past the check, and one that a session left behind when it returned has *)
(* a cancelled context: it cannot keep the peer from connecting again.     *)
EntryIsReplaceable ==
    \A p \in Peers :
        LET s == conns[p]
        IN  s # NoSession =>
               /\ remote[s] = p
               /\ pc[s] \notin {"new", "init", "check"}
               /\ pc[s] \in {"return", "ended"} => cancelled[s]

(* Every session that a backend hands over is established or over in the   *)
(* end, and over if its context is cancelled: the greeting's tries bound   *)
(* the wait for a silent peer, and nobody waits for ever at the channels   *)
(* and locks of the establishment and of the clean-up.                     *)
Settles ==
    <>[](\A s \in Sessions :
            \/ pc[s] \in {"new", "ended"}
            \/ pc[s] = "established" /\ ~cancelled[s])

(* The replacement for a cancelled connection is established ("Expected    *)
(* new connection to be established after removing canceled connection"):  *)
(* as long as its own context is live it keeps its entry.                  *)
ReplacementKeepsEntry ==
    \A s \in Sessions :
        pc[s] = "established" /\ ~cancelled[s] => conns[remote[s]] = s
=============================================================================
