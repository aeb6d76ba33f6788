---------------------------- MODULE ControlProofs ---------------------------
(***************************************************************************)
(* Proofs about what stands behind the control service: JobContext, for    *)
(* any finite set of callers and any number of workers and calls;          *)
(* UnitRegistry, for any number of clients and units; ControlSession, for  *)
(* any number of requests and chunks of output.                            *)
(*                                                                         *)
(* JobContext: the lock-free reads of mw.Wg are safe because a job stays   *)
(* current as long as one of its workers or its reaper has something left  *)
(* to do.  StartJob needs JcRunning to be false; only the reaper of the    *)
(* current job makes it false, and only when that job's WaitGroup is zero. *)
(*                                                                         *)
(* UnitRegistry: where a process is tells which locks it holds or waits    *)
(* for.  From that account follows who blocks whom, and that processes     *)
(* which all wait for each other are in one of the three jams of Jam.      *)
(***************************************************************************)
EXTENDS MCControl, Sequences, FiniteSetTheorems, TLAPS
InNewJob == {"tryNewJob", "newJob", "unlocked", "newJobWait"}
Pending == {c \in Callers : pc[c] \in InNewJob}

(* Each job was started by a call of its own, and calls are bounded.       *)
EnoughCalls == cur + Cardinality(Pending) <= calls

(* Workers and reapers belong to the current job while they are active,    *)
(* and a reaper waits on the WaitGroup of its own job.                     *)
ActiveIsCurrent ==
    /\ \A j \in Jobs : live[j] > 0 => j = cur /\ jcRunning
    /\ \A j \in Jobs : reaper[j] \in {"started", "waiting"} => j = cur /\ jcRunning
    /\ \A j \in Jobs : reaper[j] = "waiting" => reaperWg[j] = j

(* A job that is not running any more has had its context cancelled.       *)
EndedIsCancelled == ~jcRunning /\ cur # NoJob => cancelled[cur]

IInv ==
    /\ TypeOK
    /\ EnoughCalls
    /\ WorkersMatchWaitGroup
    /\ ActiveIsCurrent
    /\ EndedIsCancelled

-----------------------------------------------------------------------------
(* Pending is a finite set, so its cardinality is a natural number.        *)
LEMMA PendingFinite == IsFiniteSet(Pending) /\ Cardinality(Pending) \in Nat
  BY JobContextAssumption, FS_Subset, FS_CardinalityType DEF Pending

(* A caller that enters NewJob adds one to the pending calls.              *)
LEMMA PendingAdd ==
    ASSUME NEW c \in Callers, NEW entry \in InNewJob,
           pc \in [Callers -> PCs], pc[c] = "idle",
           pc' = [pc EXCEPT ![c] = entry]
    PROVE  Cardinality(Pending') = Cardinality(Pending) + 1
<1>1. c \notin Pending
  BY DEF Pending, InNewJob
<1>2. Pending' = Pending \cup {c}
  BY DEF Pending
<1> QED
  BY <1>1, <1>2, PendingFinite, FS_AddElement

(* A caller that leaves NewJob takes one off the pending calls.            *)
LEMMA PendingRemove ==
    ASSUME NEW c \in Callers,
           pc \in [Callers -> PCs], pc[c] \in InNewJob,
           pc' = [pc EXCEPT ![c] = "idle"]
    PROVE  /\ Cardinality(Pending') = Cardinality(Pending) - 1
           /\ Cardinality(Pending) >= 1
<1>1. c \in Pending
  BY DEF Pending
<1>2. Pending' = Pending \ {c}
  BY DEF Pending, InNewJob
<1>3. Cardinality(Pending') = Cardinality(Pending) - 1
  BY <1>1, <1>2, PendingFinite, FS_RemoveElement
<1>4. Cardinality(Pending) # 0
  BY <1>1, PendingFinite, FS_EmptySet
<1> QED
  BY <1>3, <1>4, PendingFinite

(* Moving about inside NewJob, or outside it, leaves the pending calls.    *)
LEMMA PendingSame ==
    ASSUME NEW c \in Callers, NEW to \in PCs,
           pc \in [Callers -> PCs], pc[c] \in InNewJob <=> to \in InNewJob,
           pc' = [pc EXCEPT ![c] = to]
    PROVE  Pending' = Pending
  BY DEF Pending

-----------------------------------------------------------------------------
(* One more call with one more pending, or one pending call less, keeps    *)
(* the count.                                                              *)
LEMMA CountKept ==
    ASSUME cur \in Nat, calls \in Nat, Cardinality(Pending) \in Nat,
           EnoughCalls, cur' = cur,
           \/ /\ calls' = calls + 1
              /\ Cardinality(Pending') = Cardinality(Pending) + 1
           \/ /\ calls' = calls
              /\ Cardinality(Pending') = Cardinality(Pending) - 1
    PROVE  EnoughCalls'
  BY DEF EnoughCalls

(* At the start there is no job.                                           *)
LEMMA InitIInv == Init => IInv
<1> SUFFICES ASSUME Init PROVE IInv
  OBVIOUS
<1>0. 0 \in 0..MaxWorkers /\ 0 \in 0..MaxCalls
  BY JobContextAssumption
<1>1. TypeOK
  BY <1>0 DEF Init, TypeOK, Jobs, NoJob, PCs
<1>2. Pending = {}
  BY DEF Init, Pending, InNewJob
<1>3. EnoughCalls
  BY <1>2, FS_EmptySet DEF Init, EnoughCalls, NoJob
<1> QED
  BY <1>1, <1>3 DEF Init, IInv, WorkersMatchWaitGroup, ActiveIsCurrent,
     EndedIsCancelled, Jobs, NoJob

(* The reaper that ends a job is that of the current job, which has no     *)
(* workers left.                                                           *)
LEMMA ReaperEndsIInv ==
    ASSUME IInv, NEW j \in Jobs, ReaperEnds(j)
    PROVE  IInv'
<1>1. wg \in [Jobs -> 0..MaxWorkers] /\ live \in [Jobs -> 0..MaxWorkers]
  BY DEF IInv, TypeOK
<1>2. reaper \in [Jobs -> {"none", "started", "waiting", "ended"}]
  BY DEF IInv, TypeOK
<1>3. j = cur /\ wg[j] = 0
  BY DEF IInv, ActiveIsCurrent, ReaperEnds, EndJob
<1>4. \A k \in Jobs : live[k] = 0
  BY <1>1, <1>3 DEF IInv, ActiveIsCurrent, WorkersMatchWaitGroup
<1>5. \A k \in Jobs : reaper'[k] \notin {"started", "waiting"}
  BY <1>2, <1>3 DEF IInv, ActiveIsCurrent, ReaperEnds, EndJob
<1>6. TypeOK'
  BY DEF IInv, TypeOK, ReaperEnds, EndJob
<1>7. EnoughCalls' /\ WorkersMatchWaitGroup'
  BY DEF IInv, ReaperEnds, EndJob, EnoughCalls, Pending, WorkersMatchWaitGroup
<1>8. ActiveIsCurrent'
  BY <1>4, <1>5 DEF ActiveIsCurrent, ReaperEnds, EndJob
<1>9. EndedIsCancelled'
  BY DEF IInv, TypeOK, EndedIsCancelled, ReaperEnds, EndJob
<1> QED
  BY <1>6, <1>7, <1>8, <1>9 DEF IInv

(* The worker that is done belongs to the current job, so both counters go *)
(* down together.                                                          *)
LEMMA WorkerDoneIInv ==
    ASSUME IInv, NEW j \in Jobs, WorkerDone(j)
    PROVE  IInv'
<1>1. wg \in [Jobs -> 0..MaxWorkers] /\ live \in [Jobs -> 0..MaxWorkers]
  BY DEF IInv, TypeOK
<1>2. j = cur /\ jcRunning
  BY DEF IInv, ActiveIsCurrent, WorkerDone
<1>3. wg[j] = live[j] /\ live[j] > 0
  BY DEF IInv, WorkersMatchWaitGroup, WorkerDone
<1>4. live[j] - 1 \in 0..MaxWorkers
  BY <1>1, <1>3, JobContextAssumption
<1>5. /\ live' = [live EXCEPT ![j] = live[j] - 1]
      /\ wg' = [wg EXCEPT ![j] = live[j] - 1]
  BY <1>2, <1>3 DEF WorkerDone
<1>6. /\ live' \in [Jobs -> 0..MaxWorkers]
      /\ wg' \in [Jobs -> 0..MaxWorkers]
  BY <1>1, <1>4, <1>5
<1>7. TypeOK'
  BY <1>6 DEF IInv, TypeOK, WorkerDone
<1>8. WorkersMatchWaitGroup'
  BY <1>1, <1>5 DEF IInv, WorkersMatchWaitGroup
<1>9. ActiveIsCurrent'
  BY <1>1, <1>2, <1>5 DEF IInv, ActiveIsCurrent, WorkerDone
<1>10. EnoughCalls' /\ EndedIsCancelled'
  BY DEF IInv, WorkerDone, EnoughCalls, Pending, EndedIsCancelled
<1> QED
  BY <1>7, <1>8, <1>9, <1>10 DEF IInv

(* Every step of a caller, a worker or a reaper keeps the strengthening.   *)
LEMMA NextIInv == IInv /\ [Next]_vars => IInv'
<1> SUFFICES ASSUME IInv, [Next]_vars PROVE IInv'
  OBVIOUS
<1> USE JobContextAssumption DEF IInv, TypeOK, Jobs, NoJob, PCs
<1>0. cur \in Nat /\ calls \in Nat /\ Cardinality(Pending) \in Nat
  BY PendingFinite
<1>1. ASSUME NEW c \in Callers, Call(c) PROVE IInv'
  <2>1. PICK entry \in {"tryNewJob", "newJob"} : pc' = [pc EXCEPT ![c] = entry]
    BY <1>1 DEF Call
  <2>2. Cardinality(Pending') = Cardinality(Pending) + 1
    BY <1>1, <2>1, PendingAdd DEF Call, InNewJob
  <2>3. calls' = calls + 1 /\ cur' = cur /\ calls' \in 0..MaxCalls
    BY <1>0, <1>1 DEF Call, jobVars
  <2>4. EnoughCalls'
    BY <1>0, <2>2, <2>3, CountKept
  <2>5. TypeOK'
    BY <1>1, <2>1, <2>3 DEF Call, jobVars
  <2> QED
    BY <1>1, <2>4, <2>5 DEF Call, jobVars, WorkersMatchWaitGroup,
       ActiveIsCurrent, EndedIsCancelled
<1>2. ASSUME NEW c \in Callers, ReturnBusy(c) PROVE IInv'
  <2>1. Cardinality(Pending') = Cardinality(Pending) - 1
    BY <1>2, PendingRemove DEF ReturnBusy, InNewJob
  <2>2. calls' = calls /\ cur' = cur
    BY <1>2 DEF ReturnBusy, jobVars
  <2>3. EnoughCalls'
    BY <1>0, <2>1, <2>2, CountKept
  <2> QED
    BY <1>2, <2>3 DEF ReturnBusy, jobVars, WorkersMatchWaitGroup,
       ActiveIsCurrent, EndedIsCancelled
<1>3. ASSUME NEW c \in Callers, CancelRunning(c) PROVE IInv'
  <2>1. Pending' = Pending
    BY <1>3, PendingSame DEF CancelRunning, InNewJob
  <2>2. EnoughCalls'
    BY <1>3, <2>1 DEF EnoughCalls, CancelRunning
  <2> QED
    BY <1>3, <2>2 DEF CancelRunning, WorkersMatchWaitGroup,
       ActiveIsCurrent, EndedIsCancelled
<1>4. ASSUME NEW c \in Callers, EnterWait(c) PROVE IInv'
  <2>1. Pending' = Pending
    BY <1>4, PendingSame DEF EnterWait, InNewJob
  <2>2. EnoughCalls'
    BY <1>4, <2>1 DEF EnoughCalls, EnterWait, jobVars
  <2> QED
    BY <1>4, <2>2 DEF EnterWait, jobVars, WorkersMatchWaitGroup,
       ActiveIsCurrent, EndedIsCancelled
<1>5. ASSUME NEW c \in Callers, LeaveWait(c) PROVE IInv'
  <2>1. Pending' = Pending
    BY <1>5, PendingSame DEF LeaveWait, InNewJob
  <2>2. EnoughCalls'
    BY <1>5, <2>1 DEF EnoughCalls, LeaveWait, jobVars
  <2> QED
    BY <1>5, <2>2 DEF LeaveWait, jobVars, WorkersMatchWaitGroup,
       ActiveIsCurrent, EndedIsCancelled
<1>6. ASSUME NEW c \in Callers, StartJob(c) PROVE IInv'
  <2>1. /\ Cardinality(Pending') = Cardinality(Pending) - 1
        /\ Cardinality(Pending) >= 1
    BY <1>6, PendingRemove DEF StartJob, Install, InNewJob
  <2>2. EnoughCalls'
    BY <1>0, <1>6, <2>1 DEF EnoughCalls, StartJob, Install
  <2>3. cur' \in Jobs /\ cur' # cur /\ cur' # NoJob
    BY <1>0, <1>6, <2>1 DEF EnoughCalls, StartJob, Install
  <2>4. PICK workers \in 1..MaxWorkers :
              /\ wg' = [wg EXCEPT ![cur'] = workers]
              /\ live' = [live EXCEPT ![cur'] = workers]
    BY <1>6 DEF StartJob, Install
  <2>5. workers \in 0..MaxWorkers
    OBVIOUS
  <2>6. TypeOK'
    BY <1>6, <2>3, <2>4, <2>5 DEF StartJob, Install
  <2>7. WorkersMatchWaitGroup'
    BY <2>3, <2>4 DEF WorkersMatchWaitGroup
  <2>8. ActiveIsCurrent'
    BY <1>6, <2>3, <2>4 DEF StartJob, Install, ActiveIsCurrent
  <2>9. EndedIsCancelled'
    BY <1>6 DEF StartJob, Install, EndedIsCancelled
  <2> QED
    BY <2>2, <2>6, <2>7, <2>8, <2>9
<1>7. ASSUME NEW j \in Jobs, ReaperWaits(j) PROVE IInv'
  BY <1>7 DEF ReaperWaits, EnoughCalls, Pending, WorkersMatchWaitGroup,
     ActiveIsCurrent, EndedIsCancelled
<1>8. ASSUME NEW j \in Jobs, ReaperEnds(j) PROVE IInv'
  BY <1>8, ReaperEndsIInv
<1>9. ASSUME NEW j \in Jobs, WorkerDone(j) PROVE IInv'
  BY <1>9, WorkerDoneIInv
<1>10. ASSUME Cancel PROVE IInv'
  BY <1>10 DEF Cancel, EnoughCalls, Pending, WorkersMatchWaitGroup,
     ActiveIsCurrent, EndedIsCancelled
<1>11. ASSUME NEW c \in Callers, Wait(c) PROVE IInv'
  <2>1. Pending' = Pending
    BY <1>11, PendingSame DEF Wait, InNewJob
  <2>2. EnoughCalls'
    BY <1>11, <2>1 DEF EnoughCalls, Wait, jobVars
  <2> QED
    BY <1>11, <2>2 DEF Wait, jobVars, WorkersMatchWaitGroup,
       ActiveIsCurrent, EndedIsCancelled
<1>12. ASSUME NEW c \in Callers, WaitReturns(c) PROVE IInv'
  <2>1. Pending' = Pending
    BY <1>12, PendingSame DEF WaitReturns, InNewJob
  <2>2. EnoughCalls'
    BY <1>12, <2>1 DEF EnoughCalls, WaitReturns, jobVars
  <2> QED
    BY <1>12, <2>2 DEF WaitReturns, jobVars, WorkersMatchWaitGroup,
       ActiveIsCurrent, EndedIsCancelled
<1>13. CASE UNCHANGED vars
  BY <1>13 DEF vars, EnoughCalls, Pending, WorkersMatchWaitGroup,
     ActiveIsCurrent, EndedIsCancelled
<1> QED
  BY <1>1, <1>2, <1>3, <1>4, <1>5, <1>6, <1>7, <1>8, <1>9, <1>10, <1>11,
     <1>12, <1>13 DEF Next, CallerStep, ReaperStep

(* The inductive invariant holds of every behaviour of the object.         *)
THEOREM Invariance == Spec => []IInv
  BY InitIInv, NextIInv, PTL DEF Spec

(* Type correctness; in particular no WaitGroup counter of the object ever *)
(* goes negative, and there is a job number for every job that starts.     *)
THEOREM TypeCorrect == Spec => []TypeOK
<1>1. IInv => TypeOK
  BY DEF IInv
<1> QED
  BY <1>1, Invariance, PTL

(* NewJob's promise, "a single JobContext can only run one job at a time", *)
(* for any number of concurrent callers.                                   *)
THEOREM MutualExclusion == Spec => []OneJobAtATime
<1>1. IInv => OneJobAtATime
  BY DEF IInv, ActiveIsCurrent, OneJobAtATime
<1> QED
  BY <1>1, Invariance, PTL

(* The lock-free WorkerDone always reaches the WaitGroup of its own job.   *)
THEOREM WaitGroupsExact == Spec => []WorkersMatchWaitGroup
<1>1. IInv => WorkersMatchWaitGroup
  BY DEF IInv
<1> QED
  BY <1>1, Invariance, PTL

(* NewJob never replaces a job that still has workers or whose context is  *)
(* not cancelled.                                                          *)
THEOREM PriorJobOver == Spec => PriorJobIsOver
<1>1. IInv /\ [Next]_vars =>
        [cur' # cur /\ cur # NoJob => live[cur] = 0 /\ cancelled[cur]]_vars
  <2> SUFFICES ASSUME IInv, Next, cur' # cur, cur # NoJob
               PROVE  live[cur] = 0 /\ cancelled[cur]
    BY DEF vars
  <2>1. PICK c \in Callers : StartJob(c)
    BY DEF Next, CallerStep, ReaperStep, Call, Wait, ReturnBusy, CancelRunning,
       EnterWait, LeaveWait, WaitReturns, ReaperWaits, ReaperEnds, EndJob, WorkerDone,
       Cancel, jobVars
  <2>2. ~jcRunning
    BY <2>1 DEF StartJob
  <2>3. live[cur] = 0
    BY <2>2 DEF IInv, TypeOK, ActiveIsCurrent, Jobs
  <2> QED
    BY <2>2, <2>3 DEF IInv, EndedIsCancelled
<1> QED
  BY <1>1, Invariance, PTL DEF Spec, PriorJobIsOver

-----------------------------------------------------------------------------
Count(n) == [i \in 1 .. n |-> i]

(* Count(n) is the sequence of the first n chunks.                         *)
LEMMA CountSeq ==
    ASSUME NEW n \in Nat
    PROVE  Count(n) \in Seq(Nat) /\ Len(Count(n)) = n /\ \A i \in 1 .. n : Count(n)[i] = i
BY DEF Count

(* The first k of n chunks are k chunks.                                   *)
LEMMA CountPrefix ==
    ASSUME NEW n \in Nat, NEW k \in 0 .. n
    PROVE  SubSeq(Count(n), 1, k) = Count(k)
BY CountSeq DEF Count

(* The chunk after the first n makes n + 1 chunks.                         *)
LEMMA CountAppend ==
    ASSUME NEW n \in Nat
    PROVE  Append(Count(n), n + 1) = Count(n + 1)
BY CountSeq DEF Count

(* One more chunk is a step Produce of Relay.                              *)
LEMMA CountedProduce ==
    ASSUME NEW n \in Nat
    PROVE  /\ Len(Count(n + 1)) > Len(Count(n))
           /\ SubSeq(Count(n + 1), 1, Len(Count(n))) = Count(n)
BY CountSeq, CountPrefix

(* Passing on the chunk after the first k is a step PassOn of Relay.       *)
LEMMA CountedPassOn ==
    ASSUME NEW n \in Nat, NEW k \in Nat, k < n
    PROVE  \E m \in k + 1 .. Len(Count(n)) : Count(k + 1) = SubSeq(Count(n), 1, m)
<1>1. Len(Count(n)) = n /\ k + 1 \in k + 1 .. n /\ k + 1 \in 0 .. n
  BY CountSeq
<1>2. Count(k + 1) = SubSeq(Count(n), 1, k + 1)
  BY <1>1, CountPrefix
<1> QED BY <1>1, <1>2

-----------------------------------------------------------------------------
(* The place in the file is at most one chunk ahead of what was passed on, *)
(* and then that chunk is on offer; a session that is at a command other   *)
(* than "work results" has no stream.                                      *)
SessPlace ==
    /\ ~ctx => at = "closed"
    /\ at \notin {"results", "closed"} => stream \in {"none", "closed", "complete"}
    /\ ctx /\ stream = "offer" => filePos = Len(passed) + 1
    /\ ctx /\ stream # "offer" => filePos = Len(passed)

(* Chunks are passed on in order, and not before they are produced.        *)
SessCounts ==
    /\ produced \in Nat /\ recorded \in Nat /\ filePos \in Nat /\ Len(passed) \in Nat
    /\ ctx \in BOOLEAN
    /\ passed = Count(Len(passed))
    /\ Len(passed) <= filePos
    /\ filePos <= produced
    /\ produced <= Total

(* The status of a complete unit tells of all of its output.               *)
SessEnd ==
    /\ unit = "complete" => recorded = Total
    /\ stream = "complete" => filePos = Total

SessIInv == SessPlace /\ SessCounts /\ SessEnd

(* At the start nothing is produced, read or passed on.                    *)
LEMMA SessInit == Sess!Init => SessIInv
<1> SUFFICES ASSUME Sess!Init PROVE SessIInv
  OBVIOUS
<1>1. Count(0) = <<>> /\ Len(passed) = 0 /\ passed = <<>> /\ Total \in Nat
  BY ControlSessionAssumption DEF Count, Sess!Init, Sess!ControlSessionAssumption
<1> QED BY <1>1 DEF Sess!Init, SessIInv, SessPlace, SessCounts, SessEnd

(* What a step of the session does to the stream.                          *)
LEMMA SessPassOn ==
    ASSUME SessIInv, Sess!PassOn
    PROVE  /\ produced' = produced /\ filePos' = filePos /\ ctx
           /\ \/ passed' = passed /\ gone
              \/ /\ ~gone /\ Len(passed) < produced /\ filePos = Len(passed) + 1
                 /\ passed' = Count(Len(passed) + 1) /\ Len(passed') = filePos
<1>1. ctx /\ filePos = Len(passed) + 1
  BY DEF SessIInv, SessPlace, Sess!PassOn
<1>2. /\ produced' = produced /\ filePos' = filePos
      /\ passed' = IF gone THEN passed ELSE Append(passed, filePos)
  BY DEF Sess!PassOn, Sess!work
<1>3. CASE gone
  BY <1>1, <1>2, <1>3
<1>4. CASE ~gone
  <2>1. PICK k \in Nat : k = Len(passed)
    BY DEF SessIInv, SessCounts
  <2>2. passed = Count(k) /\ k < produced
    BY <1>1, <2>1 DEF SessIInv, SessCounts
  <2>3. passed' = Append(Count(k), k + 1)
    BY <1>1, <1>2, <1>4, <2>1, <2>2
  <2>4. passed' = Count(k + 1) /\ Len(passed') = k + 1
    <3>1. k + 1 \in Nat /\ passed' = Count(k + 1)
      BY <2>3, CountAppend
    <3> QED BY ONLY <3>1, CountSeq
  <2>5. Len(passed) < produced
    BY ONLY <2>1, <2>2
  <2>6. passed' = Count(Len(passed) + 1) /\ Len(passed') = filePos
    BY ONLY <1>1, <2>1, <2>4
  <2> QED BY ONLY <1>1, <1>2, <1>4, <2>5, <2>6
<1> QED BY <1>3, <1>4

(* Every step of client, session, stream and unit keeps the strengthening: *)
(* the stream ends as complete only at a position that is at least the     *)
(* recorded size, and not past what was produced.                          *)
LEMMA SessNext == SessIInv /\ [Sess!Next]_sessionVars => SessIInv'
<1> SUFFICES ASSUME SessIInv, [Sess!Next]_sessionVars PROVE SessIInv'
  OBVIOUS
<1>0. Total \in Nat
  BY ControlSessionAssumption DEF Sess!ControlSessionAssumption
<1> USE DEF SessIInv, Sess!client, Sess!session, Sess!work, Sess!results
<1>1. CASE Sess!Client
  BY <1>1 DEF Sess!Client, Sess!CloseWrite, Sess!GoAway, Sess!Send, SessPlace, SessCounts, SessEnd
<1>2. CASE Sess!Session
  <2>1. CASE Sess!SetupConnection \/ Sess!Greet \/ Sess!ReadEnd \/ Sess!UnknownCommand
             \/ Sess!Submit
    BY <2>1 DEF Sess!SetupConnection, Sess!Greet, Sess!ReadEnd, Sess!UnknownCommand, Sess!Submit,
       Sess!Return, Sess!Write, SessPlace, SessCounts, SessEnd
  <2>2. CASE Sess!Command
    BY <2>2 DEF Sess!Command, Sess!Return, Sess!Write, SessPlace, SessCounts, SessEnd
  <2>3. CASE Sess!PassOn
    <3>1. /\ stream' = "read" /\ at = "results" /\ unit' = unit /\ recorded' = recorded
          /\ IF gone THEN at' = "closed" /\ ctx' = FALSE ELSE at' = "results" /\ ctx' = ctx
      BY <2>3 DEF Sess!PassOn, Sess!Write, Sess!Return
    <3>2. SessCounts'
      <4>1. CASE gone
        BY <2>3, <3>1, <4>1, SessPassOn DEF SessCounts
      <4>2. CASE ~gone
        <5>1. Len(passed') = filePos /\ passed' = Count(Len(passed'))
          BY <2>3, <4>2, SessPassOn
        <5> QED BY <2>3, <3>1, <4>2, <5>1, SessPassOn DEF SessCounts
      <4> QED BY <4>1, <4>2
    <3>3. SessPlace' /\ SessEnd'
      BY <2>3, <3>1, SessPassOn DEF SessPlace, SessEnd
    <3> QED BY <3>2, <3>3
  <2>4. CASE Sess!ResultsEnd
    BY <2>4 DEF Sess!ResultsEnd, SessPlace, SessCounts, SessEnd
  <2> QED BY <1>2, <2>1, <2>2, <2>3, <2>4 DEF Sess!Session
<1>3. CASE Sess!Stream
  <2>1. CASE Sess!OpenStdout \/ Sess!NoStdout \/ Sess!StreamDone \/ Sess!StatFails
             \/ Sess!StatGivesUp
    BY <2>1 DEF Sess!OpenStdout, Sess!NoStdout, Sess!StreamDone, Sess!StatFails, Sess!StatGivesUp,
       Sess!StreamTo, SessPlace, SessCounts, SessEnd
  <2>2. CASE Sess!Read
    BY <2>2 DEF Sess!Read, SessPlace, SessCounts, SessEnd
  <2>3. CASE Sess!EndOfFile
    BY <1>0, <2>3 DEF Sess!EndOfFile, Sess!StreamTo, SessPlace, SessCounts, SessEnd
  <2> QED BY <1>3, <2>1, <2>2, <2>3 DEF Sess!Stream
<1>4. CASE Sess!Unit
  BY <1>0, <1>4 DEF Sess!Unit, Sess!UnitWrites, Sess!UnitRecords, Sess!UnitEnds, Sess!Release,
     SessPlace, SessCounts, SessEnd
<1>5. CASE UNCHANGED sessionVars
  BY <1>5 DEF sessionVars, SessPlace, SessCounts, SessEnd
<1> QED BY <1>1, <1>2, <1>3, <1>4, <1>5 DEF Sess!Next

(* A step of the unit that writes is a step Produce, one of the session    *)
(* that writes to the client is a step PassOn, and every other step is     *)
(* none.                                                                   *)
LEMMA SessRefines ==
    ASSUME SessIInv, [Sess!Next]_sessionVars
    PROVE  [Sess!ResultsRelay!Next]_<<[i \in 1 .. produced |-> i], passed>>
<1>0. produced \in Nat /\ Len(passed) \in Nat
  BY DEF SessIInv, SessCounts
<1>1. CASE Sess!PassOn /\ ~gone
  <2>1. /\ Len(passed) < produced /\ passed' = Count(Len(passed) + 1)
        /\ UNCHANGED [i \in 1 .. produced |-> i]
    BY <1>1, SessPassOn
  <2>2. \E m \in Len(passed) + 1 .. Len(Count(produced)) : passed' = SubSeq(Count(produced), 1, m)
    BY <1>0, <2>1, CountedPassOn
  <2> QED BY <2>1, <2>2 DEF Sess!ResultsRelay!Next, Sess!ResultsRelay!PassOn, Count
<1>2. CASE Sess!UnitWrites
  <2>1. produced' = produced + 1 /\ passed' = passed
    BY <1>2 DEF Sess!UnitWrites, Sess!results
  <2>2. Sess!ResultsRelay!Produce
    BY <1>0, <2>1, CountedProduce DEF Sess!ResultsRelay!Produce, Count
  <2> QED BY <2>2 DEF Sess!ResultsRelay!Next
<1>3. CASE UNCHANGED <<produced, passed>>
  BY <1>3
<1>4. CASE Sess!PassOn /\ gone
  BY <1>4, SessPassOn
<1> QED
  BY <1>1, <1>2, <1>3, <1>4
  DEF Sess!Next, sessionVars, Sess!Client, Sess!CloseWrite, Sess!GoAway, Sess!Send,
      Sess!Session, Sess!SetupConnection, Sess!Greet, Sess!ReadEnd, Sess!Command,
      Sess!UnknownCommand, Sess!Submit, Sess!ResultsEnd, Sess!Stream, Sess!OpenStdout,
      Sess!NoStdout, Sess!StreamDone, Sess!StatFails, Sess!StatGivesUp, Sess!Read,
      Sess!EndOfFile, Sess!StreamTo, Sess!Unit, Sess!UnitRecords, Sess!UnitEnds, Sess!Release,
      Sess!client, Sess!session, Sess!work, Sess!results

(* A stream closed as complete has passed on all that the unit will ever   *)
(* write, also if the status came first (GetResults), for any amount of    *)
(* output.                                                                 *)
THEOREM StreamsComplete == ControlSpec => []CompleteIsComplete
<1>1. ControlInit => SessIInv
  BY SessInit DEF ControlInit
<1>2. SessIInv /\ [ControlNext]_controlVars => SessIInv'
  BY SessNext DEF ControlNext, controlVars
<1>3. SessIInv => CompleteIsComplete
  BY DEF SessIInv, SessEnd, CompleteIsComplete, Sess!CompleteIsComplete
<1> QED BY <1>1, <1>2, <1>3, PTL DEF ControlSpec

(* A client gets the output in order, without gaps and nothing twice,      *)
(* whatever becomes of unit, session and client: the session implements    *)
(* Relay (GetResults, WriteToConn).                                        *)
THEOREM ResultsRelayed == ControlSpec => ResultsAreRelayed
<1>1. ControlInit => SessIInv
  BY SessInit DEF ControlInit
<1>2. SessIInv /\ [ControlNext]_controlVars => SessIInv'
  BY SessNext DEF ControlNext, controlVars
<1>3. ControlInit => Sess!ResultsRelay!Init
  BY DEF ControlInit, Sess!Init, Sess!ResultsRelay!Init
<1>4. SessIInv /\ [ControlNext]_controlVars =>
        [Sess!ResultsRelay!Next]_<<[i \in 1 .. produced |-> i], passed>>
  <2> SUFFICES ASSUME SessIInv, [ControlNext]_controlVars
               PROVE  [Sess!ResultsRelay!Next]_<<[i \in 1 .. produced |-> i], passed>>
    OBVIOUS
  <2>1. [Sess!Next]_sessionVars
    BY DEF ControlNext, controlVars
  <2> QED BY <2>1, SessRefines
<1> QED BY <1>1, <1>2, <1>3, <1>4, PTL
     DEF ControlSpec, ResultsAreRelayed, Sess!ResultsAreRelayed, Sess!ResultsRelay!Spec

-----------------------------------------------------------------------------
(* UnitRegistry.                                                           *)
Procs == Registry!Processes

RegTypes ==
    /\ dir \in [Units -> {"none", "empty", "saved"}]
    /\ active \in [Units -> {"none", "worker", "unknown"}]
    /\ job \in [Procs -> Registry!Jobs]
    /\ todo \subseteq Units
    /\ mine \in [Clients -> SUBSET Units]
    /\ left \in [Units -> BOOLEAN]
    /\ stale \subseteq Procs

(* Whoever allocates a unit or drops the unknown ones holds the lock.      *)
RegWriter ==
    \A p \in Procs : job[p].at \in {"allocate", "save", "unknown units"} => writer = p

(* A unit that is used, released or entered has an object.                 *)
RegObjects ==
    \A p \in Procs :
        job[p].at \in {"found", "use", "release", "remove", "forget", "insert"} =>
            job[p].object # "none"

(* A unit that was given to a client is saved, is not being allocated to   *)
(* another one, and nobody else has it.                                    *)
RegOwners ==
    /\ \A c \in Clients : \A u \in mine[c] : dir[u] = "saved"
    /\ \A p \in Procs : job[p].at = "save" => \A c \in Clients : job[p].unit \notin mine[c]
    /\ \A c, d \in Clients : c # d => mine[c] \cap mine[d] = {}

(* Whoever is about to delete an active unit has removed its directory, or *)
(* has been forced to leave it, or a new unit has replaced it meanwhile.   *)
RegForget ==
    \A p \in Procs : job[p].at = "forget" =>
        dir[job[p].unit] # "saved" \/ left[job[p].unit] \/ p \in stale

(* The registrar has still to look at the directory of u.                  *)
Rescanned(u) ==
    \/ job[Registrar].at = "unknown units"
    \/ /\ job[Registrar].at \in {"register scan", "scan", "checked", "load", "insert", "scan end"}
       /\ u \in todo
    \/ job[Registrar].at \in {"scan", "checked", "load", "insert"} /\ job[Registrar].unit = u

(* A saved unit that is not active will be found by that scan.             *)
RegSaved ==
    \A u \in Units : dir[u] = "saved" /\ active[u] = "none" /\ ~left[u] => Rescanned(u)

RegIInv == RegTypes /\ RegWriter /\ RegObjects /\ RegOwners /\ RegForget /\ RegSaved

-----------------------------------------------------------------------------
(* A process p goes on to a place, for its unit and object.                *)
Moves(p, where) ==
    /\ job' \in [Procs -> Registry!Jobs]
    /\ \A q \in Procs : q # p => job'[q] = job[q]
    /\ job'[p].at = where
    /\ where # "idle" => job'[p].unit = job[p].unit /\ job'[p].object = job[p].object

(* A process that is idle has a job of the right type.                     *)
LEMMA IdleIs == Registry!Idle \in Registry!Jobs /\ Registry!Idle.at = "idle"
<1>1. (CHOOSE u \in Units : TRUE) \in Units
  BY UnitRegistryAssumption DEF Registry!UnitRegistryAssumption
<1> QED BY <1>1 DEF Registry!Idle, Registry!Jobs, Registry!Places, Registry!Objects

(* The registrar is none of the clients.                                   *)
LEMMA RegistrarIs == Registrar \in Procs /\ Clients \subseteq Procs /\ Registrar \notin Clients
BY UnitRegistryAssumption DEF Registry!UnitRegistryAssumption, Procs, Registry!Processes

(* No process is called "free".                                            *)
LEMMA FreeIs == \A p \in Procs : p # Registry!Free
BY UnitRegistryAssumption
DEF Registry!UnitRegistryAssumption, Procs, Registry!Processes, Registry!Free

(* Goto moves one process.                                                 *)
LEMMA GotoIs ==
    ASSUME RegTypes, NEW p \in Procs, NEW where \in Registry!Places, Registry!Goto(p, where)
    PROVE  Moves(p, where)
<1>0. job[p] \in Registry!Jobs
  BY DEF RegTypes
<1> DEFINE new == IF where = "idle" THEN Registry!Idle ELSE [job[p] EXCEPT !.at = where]
<1>1. /\ new \in Registry!Jobs /\ new.at = where
      /\ where # "idle" => new.unit = job[p].unit /\ new.object = job[p].object
  BY <1>0, IdleIs DEF Registry!Jobs
<1>2. job' = [job EXCEPT ![p] = new]
  BY DEF Registry!Goto
<1> HIDE DEF new
<1> QED BY <1>1, <1>2 DEF RegTypes, Moves

(* At the start every saved unit is active and every process is idle.      *)
LEMMA RegInit == Registry!Init => RegIInv
<1> SUFFICES ASSUME Registry!Init PROVE RegIInv
  OBVIOUS
<1>1. \A p \in Procs : job[p].at = "idle"
  BY IdleIs DEF Registry!Init, Procs
<1>2. RegTypes
  BY IdleIs DEF Registry!Init, RegTypes, Procs
<1>3. RegSaved
  BY DEF Registry!Init, RegSaved
<1> QED BY <1>1, <1>2, <1>3
     DEF Registry!Init, RegIInv, RegWriter, RegObjects, RegOwners, RegForget

(* A process moves on and nothing else of what is known changes.           *)
LEMMA RegQuiet ==
    ASSUME RegIInv, NEW p \in Procs, NEW where \in Registry!Places, Moves(p, where),
           UNCHANGED <<dir, active, todo, mine, left, stale>>,
           UNCHANGED writer \/ (writer = Registry!Free /\ writer' = p)
                            \/ (writer' = Registry!Free /\ writer = p),
           where \in {"allocate", "save", "unknown units"} => writer' = p,
           where \notin {"save", "forget"},
           where \in {"found", "use", "release", "remove", "insert"} => job[p].object # "none",
           p = Registrar =>
               \A u \in Units : dir[u] = "saved" /\ active[u] = "none" /\ ~left[u] => Rescanned(u)'
    PROVE  RegIInv'
<1> USE DEF Moves
<1>1. RegTypes'
  BY DEF RegIInv, RegTypes
<1>2. RegWriter'
  <2> SUFFICES ASSUME NEW q \in Procs, job'[q].at \in {"allocate", "save", "unknown units"}
               PROVE  writer' = q
    BY DEF RegWriter
  <2>1. CASE q = p
    BY <2>1
  <2>2. CASE q # p
    <3>1. writer = q /\ q # Registry!Free
      BY <2>2, FreeIs DEF RegIInv, RegWriter
    <3> QED BY ONLY <2>2, <3>1, UNCHANGED writer \/ (writer = Registry!Free /\ writer' = p)
                            \/ (writer' = Registry!Free /\ writer = p)
  <2> QED BY <2>1, <2>2
<1>3. RegObjects'
  BY DEF RegIInv, RegObjects
<1>4. RegOwners'
  BY DEF RegIInv, RegOwners
<1>5. RegForget'
  BY DEF RegIInv, RegForget
<1>6. RegSaved'
  <2>1. CASE p = Registrar
    BY <2>1 DEF RegSaved
  <2>2. CASE p # Registrar
    <3>1. job'[Registrar] = job[Registrar]
      BY <2>2, RegistrarIs
    <3> QED BY <3>1 DEF RegIInv, RegSaved, Rescanned
  <2> QED BY <2>1, <2>2
<1> QED BY <1>1, <1>2, <1>3, <1>4, <1>5, <1>6 DEF RegIInv


-----------------------------------------------------------------------------
(* An ID that is in use is refused, any other is not given to anybody      *)
(* (generateUnitID).                                                       *)
LEMMA RegAllocate ==
    ASSUME RegIInv, NEW p \in Clients, Registry!AllocateLock(p) \/ Registry!GenerateUnitID(p)
    PROVE  RegIInv'
<1>0. p \in Procs /\ RegTypes /\ p # Registrar /\ p # Registry!Free
  BY RegistrarIs, FreeIs DEF RegIInv
<1>1. CASE Registry!AllocateLock(p)
  <2>1. Moves(p, "allocate") /\ "allocate" \in Registry!Places
    BY <1>0, <1>1, GotoIs DEF Registry!AllocateLock, Registry!Places
  <2>2. /\ UNCHANGED <<dir, active, todo, mine, left, stale>>
        /\ writer = Registry!Free /\ writer' = p
    BY <1>1 DEF Registry!AllocateLock, Registry!CanWrite, Registry!store, Registry!history
  <2> QED BY <1>0, <2>1, <2>2, RegQuiet
<1>2. CASE Registry!GenerateUnitID(p) /\ dir[job[p].unit] # "none"
  <2>1. Moves(p, "idle") /\ "idle" \in Registry!Places
    BY <1>0, <1>2, GotoIs DEF Registry!GenerateUnitID, Registry!Places
  <2>2. /\ UNCHANGED <<dir, active, todo, mine, left, stale>>
        /\ writer = p /\ writer' = Registry!Free
    BY <1>0, <1>2 DEF Registry!GenerateUnitID, Registry!history, RegIInv, RegWriter
  <2> QED BY <1>0, <2>1, <2>2, RegQuiet
<1>3. CASE Registry!GenerateUnitID(p) /\ dir[job[p].unit] = "none"
  <2>1. Moves(p, "save")
    BY <1>0, <1>3, GotoIs DEF Registry!GenerateUnitID, Registry!Places
  <2>2. PICK u \in Units : u = job[p].unit
    BY <1>0 DEF RegTypes, Registry!Jobs
  <2>3. /\ UNCHANGED <<active, todo, mine, left, stale, writer>>
        /\ dir' = [dir EXCEPT ![u] = "empty"] /\ dir[u] = "none" /\ job[p].at = "allocate"
    BY <1>0, <1>3, <2>2 DEF Registry!GenerateUnitID, Registry!history
  <2>4. RegTypes'
    BY <2>1, <2>2, <2>3 DEF RegIInv, RegTypes, Moves
  <2>5. RegWriter' /\ RegObjects'
    BY <1>0, <2>1, <2>3 DEF RegIInv, RegWriter, RegObjects, Moves
  <2>6. RegOwners'
    <3>1. \A c \in Clients : u \notin mine[c]
      BY <2>3 DEF RegIInv, RegOwners
    <3>2. \A c \in Clients : \A v \in mine'[c] : dir'[v] = "saved"
      BY <2>3, <3>1 DEF RegIInv, RegOwners, RegTypes
    <3> QED BY <2>1, <2>2, <2>3, <3>1, <3>2 DEF RegIInv, RegOwners, Moves
  <2>7. RegForget'
    <3>1. \A v \in Units : dir'[v] = "saved" => dir[v] = "saved"
      BY <2>3 DEF RegIInv, RegTypes
    <3> QED BY <1>0, <2>1, <2>3, <3>1 DEF RegIInv, RegForget, Moves, RegTypes, Registry!Jobs
  <2>8. RegSaved'
    <3>1. \A v \in Units : dir'[v] = "saved" => dir[v] = "saved"
      BY <2>3 DEF RegIInv, RegTypes
    <3>2. job'[Registrar] = job[Registrar]
      BY <1>0, <2>1, RegistrarIs DEF Moves
    <3> QED BY <2>3, <3>1, <3>2 DEF RegIInv, RegSaved, Rescanned
  <2> QED BY <2>4, <2>5, <2>6, <2>7, <2>8 DEF RegIInv
<1> QED BY <1>1, <1>2, <1>3

(* A new unit belongs to its submitter alone; who still releases an        *)
(* earlier one of that ID is late (AllocateUnit).                          *)
LEMMA RegSave ==
    ASSUME RegIInv, NEW p \in Clients, Registry!Save(p)
    PROVE  RegIInv'
<1>0. p \in Procs /\ RegTypes /\ p # Registrar /\ p # Registry!Free
  BY RegistrarIs, FreeIs DEF RegIInv
<1>1. Moves(p, "idle") /\ "idle" \in Registry!Places
  BY <1>0, GotoIs DEF Registry!Save, Registry!Places
<1>2. /\ UNCHANGED <<todo, left>> /\ writer = p /\ writer' = Registry!Free /\ job[p].at = "save"
  BY <1>0 DEF Registry!Save, RegIInv, RegWriter
<1>3. CASE UNCHANGED <<dir, active, mine, stale>>
  BY <1>0, <1>1, <1>2, <1>3, RegQuiet
<1>4. CASE ~UNCHANGED <<dir, active, mine, stale>>
  <2>2. PICK u \in Units : u = job[p].unit
    BY <1>0 DEF RegTypes, Registry!Jobs
  <2>3. /\ dir' = [dir EXCEPT ![u] = "saved"]
        /\ active' = [active EXCEPT ![u] = "worker"]
        /\ stale' = stale \cup {q \in Procs : job[q].unit = u /\ job[q].object # "none"}
        /\ mine' = [mine EXCEPT ![p] = @ \cup {u}] \/ mine' = mine
    BY <1>4, <2>2 DEF Registry!Save, Procs
  <2>4. RegTypes'
    BY <1>1, <1>2, <2>2, <2>3 DEF RegIInv, RegTypes, Moves
  <2>5. RegWriter'
    BY <1>0, <1>1, <1>2 DEF RegIInv, RegWriter, Moves
  <2>6. RegObjects'
    BY <1>0, <1>1 DEF RegIInv, RegObjects, Moves
  <2>7. RegOwners'
    <3>1. \A c \in Clients : u \notin mine[c]
      BY <1>0, <1>2, <2>2 DEF RegIInv, RegOwners
    <3>2. \A q \in Procs : job'[q].at # "save"
      BY <1>0, <1>1, <1>2 DEF RegIInv, RegWriter, Moves
    <3>3. \A c \in Clients : mine'[c] = mine[c] \/ (c = p /\ mine'[c] = mine[c] \cup {u})
      BY <2>3 DEF RegIInv, RegTypes
    <3>4. \A c \in Clients : \A v \in mine'[c] : dir'[v] = "saved"
      BY <2>3, <3>3 DEF RegIInv, RegOwners, RegTypes
    <3>5. \A c, d \in Clients : c # d => mine'[c] \cap mine'[d] = {}
      BY <3>1, <3>3 DEF RegIInv, RegOwners
    <3> QED BY <3>2, <3>4, <3>5 DEF RegOwners
  <2>8. RegForget'
    <3> SUFFICES ASSUME NEW q \in Procs, job'[q].at = "forget"
                 PROVE  dir'[job'[q].unit] # "saved" \/ left'[job'[q].unit] \/ q \in stale'
      BY DEF RegForget
    <3>1. job'[q] = job[q] /\ job[q].unit \in Units
      BY <1>0, <1>1 DEF Moves, RegTypes, Registry!Jobs
    <3>2. CASE job[q].unit = u
      BY <2>3, <3>1, <3>2 DEF RegIInv, RegObjects
    <3>3. CASE job[q].unit # u
      BY <1>2, <2>3, <3>1, <3>3 DEF RegIInv, RegForget, RegTypes
    <3> QED BY <3>2, <3>3
  <2>9. RegSaved'
    <3>2. job'[Registrar] = job[Registrar]
      BY <1>0, <1>1, RegistrarIs DEF Moves
    <3>3. \A v \in Units : v # u => dir'[v] = dir[v] /\ active'[v] = active[v]
      BY <2>3 DEF RegIInv, RegTypes
    <3>4. active'[u] # "none"
      BY <2>3 DEF RegIInv, RegTypes
    <3> QED BY <1>2, <3>2, <3>3, <3>4 DEF RegIInv, RegSaved, Rescanned
  <2> QED BY <2>4, <2>5, <2>6, <2>7, <2>8, <2>9 DEF RegIInv
<1> QED BY <1>3, <1>4

(* A lookup that finds the unit keeps the strengthening (findUnit).        *)
LEMMA RegLookup ==
    ASSUME RegIInv, NEW p \in Clients,
           Registry!Found(p) \/ Registry!Use(p) \/ Registry!ReleaseLock(p)
    PROVE  RegIInv'
<1>0. p \in Procs /\ RegTypes /\ p # Registrar
  BY RegistrarIs DEF RegIInv
<1>1. PICK where \in {"use", "release", "idle", "remove"} : Moves(p, where)
  BY <1>0, GotoIs DEF Registry!Found, Registry!Use, Registry!ReleaseLock, Registry!Places
<1>2. UNCHANGED <<dir, active, todo, mine, left, stale, writer>>
  BY DEF Registry!Found, Registry!Use, Registry!ReleaseLock, Registry!store, Registry!lock,
     Registry!history
<1>3. job[p].object # "none"
  BY <1>0 DEF Registry!Found, Registry!Use, Registry!ReleaseLock, RegIInv, RegObjects
<1>4. where \in Registry!Places
  BY DEF Registry!Places
<1> QED BY <1>0, <1>1, <1>2, <1>3, <1>4, RegQuiet

(* So does a new command.                                                  *)
LEMMA RegCommand ==
    ASSUME RegIInv, NEW p \in Clients, NEW u \in Units,
           Registry!Submit(p, u) \/ \E c \in Registry!Commands : Registry!Find(p, u, c)
    PROVE  RegIInv'
<1>0. p \in Procs /\ RegTypes /\ p # Registrar
  BY RegistrarIs DEF RegIInv
<1>1. CASE Registry!Submit(p, u)
  <2>1. PICK new : new = [at |-> "submit", cmd |-> "submit", unit |-> u, object |-> "none"]
    OBVIOUS
  <2>2. new \in Registry!Jobs /\ new.at = "submit"
    BY <2>1 DEF Registry!Jobs, Registry!Places, Registry!Objects
  <2>3. job' = [job EXCEPT ![p] = new] /\ UNCHANGED <<dir, active, todo, mine, left, stale, writer>>
    BY <1>1, <2>1 DEF Registry!Submit, Registry!store, Registry!history
  <2> HIDE DEF Registry!Jobs
  <2>4. /\ job' \in [Procs -> Registry!Jobs] /\ job'[p].at = "submit"
        /\ \A q \in Procs : q # p => job'[q] = job[q]
    BY <1>0, <2>2, <2>3 DEF RegTypes
  <2>5. job'[Registrar] = job[Registrar]
    BY <1>0, <2>4, RegistrarIs
  <2>6. RegTypes' /\ RegWriter' /\ RegObjects'
    BY <2>3, <2>4 DEF RegIInv, RegTypes, RegWriter, RegObjects
  <2>7. RegOwners' /\ RegForget'
    BY <2>3, <2>4 DEF RegIInv, RegOwners, RegForget
  <2>8. RegSaved'
    BY <2>3, <2>5 DEF RegIInv, RegSaved, Rescanned
  <2> QED BY <2>6, <2>7, <2>8 DEF RegIInv
<1>2. ASSUME NEW c \in Registry!Commands, Registry!Find(p, u, c) PROVE RegIInv'
  <2>1. PICK new : new = [at |-> IF active[u] # "none" THEN "found" ELSE "scan",
                          cmd |-> c, unit |-> u, object |-> active[u]]
    OBVIOUS
  <2>2. /\ new \in Registry!Jobs /\ new.at \in {"found", "scan"}
        /\ new.at = "found" => new.object # "none"
    BY <1>0, <2>1 DEF Registry!Jobs, Registry!Places, Registry!Objects, RegTypes
  <2>3. /\ job' = [job EXCEPT ![p] = new] /\ UNCHANGED <<dir, active, todo, mine, left, writer>>
        /\ stale' = stale \ {p}
    BY <1>2, <2>1 DEF Registry!Find, Registry!store
  <2> HIDE DEF Registry!Jobs
  <2>4. /\ job' \in [Procs -> Registry!Jobs] /\ job'[p] = new
        /\ \A q \in Procs : q # p => job'[q] = job[q]
    BY <1>0, <2>2, <2>3 DEF RegTypes
  <2>5. job'[Registrar] = job[Registrar]
    BY <1>0, <2>4, RegistrarIs
  <2>6. RegTypes' /\ RegWriter' /\ RegObjects'
    BY <2>2, <2>3, <2>4 DEF RegIInv, RegTypes, RegWriter, RegObjects
  <2>7. RegOwners' /\ RegForget'
    BY <2>2, <2>3, <2>4 DEF RegIInv, RegOwners, RegForget
  <2>8. RegSaved'
    BY <2>3, <2>5 DEF RegIInv, RegSaved, Rescanned
  <2> QED BY <2>6, <2>7, <2>8 DEF RegIInv
<1> QED BY <1>1, <1>2

(* A unit that the registrar scans is loaded, unless it is active or has   *)
(* no status file.                                                         *)
LEMMA RegScan ==
    ASSUME RegIInv, NEW p \in Procs, Registry!Scan(p)
    PROVE  RegIInv'
<1>0. RegTypes /\ job[p].unit \in Units /\ job[p] \in Registry!Jobs
  BY DEF RegIInv, RegTypes, Registry!Jobs
<1>1. CASE Registry!ScanNoDir(p) \/ Registry!ScanEnd(p)
  <2>1. PICK where \in {"register scan", "idle"} :
            Moves(p, where) /\ (p = Registrar => where = "register scan")
    BY <1>0, <1>1, GotoIs
    DEF Registry!ScanNoDir, Registry!ScanEnd, Registry!ScanEnds, Registry!Places
  <2>2. UNCHANGED <<dir, active, todo, mine, left, stale, writer>>
    BY <1>1 DEF Registry!ScanNoDir, Registry!ScanEnd, Registry!store, Registry!history
  <2>3. where \in Registry!Places
    BY DEF Registry!Places
  <2>4. /\ job[p].at \in {"scan", "scan end"}
        /\ job[p].at = "scan" => dir[job[p].unit] = "none"
    BY <1>1 DEF Registry!ScanNoDir, Registry!ScanEnd
  <2>5. ASSUME p = Registrar, NEW u \in Units, dir[u] = "saved", active[u] = "none", ~left[u]
        PROVE  Rescanned(u)'
    BY <2>1, <2>2, <2>4, <2>5 DEF RegIInv, RegSaved, Rescanned, Moves
  <2> QED BY <1>0, <2>1, <2>2, <2>3, <2>5, RegQuiet
<1>2. CASE Registry!ScanCheck(p) \/ Registry!ScanChecked(p)
  <2>1. PICK where \in {"checked", "load", "scan end"} :
            /\ Moves(p, where)
            /\ where = "scan end" => active[job[p].unit] # "none"
    BY <1>0, <1>2, GotoIs DEF Registry!ScanCheck, Registry!ScanChecked, Registry!Places
  <2>2. UNCHANGED <<dir, active, todo, mine, left, stale, writer>>
    BY <1>2 DEF Registry!ScanCheck, Registry!ScanChecked, Registry!store, Registry!history
  <2>3. where \in Registry!Places
    BY DEF Registry!Places
  <2>4. job[p].at \in {"scan", "checked"}
    BY <1>2 DEF Registry!ScanCheck, Registry!ScanChecked
  <2>5. ASSUME p = Registrar, NEW u \in Units, dir[u] = "saved", active[u] = "none", ~left[u]
        PROVE  Rescanned(u)'
    BY <2>1, <2>2, <2>4, <2>5 DEF RegIInv, RegSaved, Rescanned, Moves
  <2> QED BY <1>0, <2>1, <2>2, <2>3, <2>5, RegQuiet
<1>3. CASE Registry!ScanLoad(p) /\ dir[job[p].unit] # "saved"
  <2>1. Moves(p, "scan end") /\ "scan end" \in Registry!Places
    BY <1>0, <1>3, GotoIs DEF Registry!ScanLoad, Registry!Places
  <2>2. UNCHANGED <<dir, active, todo, mine, left, stale, writer>> /\ job[p].at = "load"
    BY <1>3 DEF Registry!ScanLoad, Registry!store, Registry!history
  <2>5. ASSUME p = Registrar, NEW u \in Units, dir[u] = "saved", active[u] = "none", ~left[u]
        PROVE  Rescanned(u)'
    BY <1>3, <2>1, <2>2, <2>5 DEF RegIInv, RegSaved, Rescanned, Moves
  <2> QED BY <1>0, <2>1, <2>2, <2>5, RegQuiet
<1>4. CASE Registry!ScanLoad(p) /\ dir[job[p].unit] = "saved"
  <2>1. PICK o \in {"worker", "unknown"} :
            job' = [job EXCEPT ![p].at = "insert", ![p].object = o]
    BY <1>4 DEF Registry!ScanLoad
  <2>2. UNCHANGED <<dir, active, todo, mine, left, stale, writer>> /\ job[p].at = "load"
    BY <1>4 DEF Registry!ScanLoad, Registry!store, Registry!history
  <2>a. PICK old : old = job[p]
    OBVIOUS
  <2>b. PICK new : new = [old EXCEPT !.at = "insert", !.object = o]
    OBVIOUS
  <2>c. old \in [at : Registry!Places, cmd : Registry!Commands \cup {"submit", "none"},
                 unit : Units, object : Registry!Objects]
    BY <1>0, <2>a DEF Registry!Jobs
  <2>d. new.at = "insert" /\ new.object = o /\ new.unit = old.unit
    BY ONLY <2>b, <2>c
  <2>e. "insert" \in Registry!Places /\ o \in Registry!Objects
    BY DEF Registry!Places, Registry!Objects
  <2>f. new \in Registry!Jobs
    BY ONLY <2>b, <2>c, <2>e DEF Registry!Jobs
  <2>3. /\ new \in Registry!Jobs /\ new = [job[p] EXCEPT !.at = "insert", !.object = o]
        /\ new.at = "insert" /\ new.object = o /\ new.unit = job[p].unit
    BY ONLY <2>a, <2>b, <2>d, <2>f
  <2>4. job' = [job EXCEPT ![p] = new]
    BY <2>1, <2>3, <1>0 DEF RegTypes, Registry!Jobs
  <2>5. /\ job' \in [Procs -> Registry!Jobs] /\ job'[p] = new
        /\ \A q \in Procs : q # p => job'[q] = job[q]
    BY <1>0, <2>4, <2>f DEF RegTypes
  <2>6. RegTypes' /\ RegWriter' /\ RegObjects'
    BY <2>2, <2>3, <2>5 DEF RegIInv, RegTypes, RegWriter, RegObjects
  <2>7. RegOwners' /\ RegForget'
    BY <2>2, <2>3, <2>5 DEF RegIInv, RegOwners, RegForget
  <2>8. RegSaved'
    <3>1. CASE p = Registrar
      BY <2>2, <2>3, <2>5, <3>1 DEF RegIInv, RegSaved, Rescanned
    <3>2. CASE p # Registrar
      <4>1. job'[Registrar] = job[Registrar]
        BY <2>5, <3>2, RegistrarIs
      <4> QED BY <2>2, <4>1 DEF RegIInv, RegSaved, Rescanned
    <3> QED BY <3>1, <3>2
  <2> QED BY <2>6, <2>7, <2>8 DEF RegIInv
<1>5. CASE Registry!ScanInsert(p)
  <2>1. Moves(p, "scan end")
    BY <1>0, <1>5, GotoIs DEF Registry!ScanInsert, Registry!Places
  <2>2. PICK u \in Units : u = job[p].unit
    BY <1>0
  <2>3. /\ UNCHANGED <<dir, todo, mine, left, stale, writer>> /\ job[p].at = "insert"
        /\ active' = [active EXCEPT ![u] = job[p].object]
    BY <1>5, <2>2 DEF Registry!ScanInsert, Registry!store, Registry!history
  <2>4. job[p].object \in {"worker", "unknown"}
    BY <1>0, <2>3 DEF RegIInv, RegObjects, Registry!Jobs, Registry!Objects
  <2>5. /\ active' \in [Units -> {"none", "worker", "unknown"}]
        /\ active'[u] # "none" /\ \A v \in Units : v # u => active'[v] = active[v]
    BY <1>0, <2>3, <2>4 DEF RegTypes
  <2>6. RegTypes' /\ RegWriter' /\ RegObjects'
    <3>1. RegTypes'
      <4>1. job' \in [Procs -> Registry!Jobs]
        BY <2>1 DEF Moves
      <4> QED BY <2>3, <2>5, <4>1 DEF RegIInv, RegTypes
    <3>2. RegWriter'
      BY <2>1, <2>3 DEF RegIInv, RegWriter, Moves
    <3>3. RegObjects'
      BY <2>1, <2>3 DEF RegIInv, RegObjects, Moves
    <3> QED BY <3>1, <3>2, <3>3
  <2>7. RegOwners' /\ RegForget'
    BY <2>1, <2>3 DEF RegIInv, RegOwners, RegForget, Moves
  <2>8. RegSaved'
    <3>1. CASE p = Registrar
      BY <2>1, <2>2, <2>3, <2>5, <3>1 DEF RegIInv, RegSaved, Rescanned, Moves
    <3>2. CASE p # Registrar
      <4>1. job'[Registrar] = job[Registrar]
        BY <2>1, <3>2, RegistrarIs DEF Moves
      <4> QED BY <2>3, <2>5, <4>1 DEF RegIInv, RegSaved, Rescanned
    <3> QED BY <3>1, <3>2
  <2> QED BY <2>6, <2>7, <2>8 DEF RegIInv
<1> QED BY <1>1, <1>2, <1>3, <1>4, <1>5 DEF Registry!Scan

(* Release deletes a unit from activeUnits only after its directory, or    *)
(* when it is forced to, or late.                                          *)
LEMMA RegRelease ==
    ASSUME RegIInv, NEW p \in Clients,
           Registry!Remove(p) \/ Registry!RemoveFails(p) \/ Registry!Forget(p)
    PROVE  RegIInv'
<1>0. p \in Procs /\ RegTypes /\ p # Registrar /\ job[p].unit \in Units
  BY RegistrarIs DEF RegIInv, RegTypes, Registry!Jobs
<1>1. PICK u \in Units : u = job[p].unit
  BY <1>0
<1>2. CASE Registry!Remove(p)
  <2>1. Moves(p, "forget")
    BY <1>0, <1>2, GotoIs DEF Registry!Remove, Registry!Places
  <2>2. /\ UNCHANGED <<active, writer, todo, stale>> /\ job[p].at = "remove"
        /\ dir' = [dir EXCEPT ![u] = "none"] /\ left' = [left EXCEPT ![u] = FALSE]
        /\ mine' = [c \in Clients |-> mine[c] \ {u}]
    BY <1>1, <1>2 DEF Registry!Remove
  <2>3. /\ dir' \in [Units -> {"none", "empty", "saved"}] /\ left' \in [Units -> BOOLEAN]
        /\ mine' \in [Clients -> SUBSET Units]
        /\ dir'[u] = "none"
        /\ \A v \in Units : v # u => dir'[v] = dir[v] /\ left'[v] = left[v]
        /\ \A c \in Clients : mine'[c] = mine[c] \ {u}
    BY <1>0, <2>2 DEF RegTypes
  <2>a. RegTypes'
    BY <1>0, <2>1, <2>2, <2>3 DEF RegTypes, Moves
  <2>b. RegWriter'
    BY <2>1, <2>2 DEF RegIInv, RegWriter, Moves
  <2>c. RegObjects'
    BY <2>1, <2>2 DEF RegIInv, RegObjects, Moves
  <2>4. RegTypes' /\ RegWriter' /\ RegObjects'
    BY <2>a, <2>b, <2>c
  <2>5. RegOwners'
    <3>1. \A c \in Clients : \A v \in mine'[c] : dir'[v] = "saved"
      BY <2>3 DEF RegIInv, RegOwners, RegTypes
    <3>2. \A q \in Procs : job'[q].at = "save" => \A c \in Clients : job'[q].unit \notin mine'[c]
      BY <2>1, <2>3 DEF RegIInv, RegOwners, Moves
    <3>3. \A c, d \in Clients : c # d => mine'[c] \cap mine'[d] = {}
      BY <2>3 DEF RegIInv, RegOwners
    <3> QED BY <3>1, <3>2, <3>3 DEF RegOwners
  <2>6. RegForget'
    <3> SUFFICES ASSUME NEW q \in Procs, job'[q].at = "forget"
                 PROVE  dir'[job'[q].unit] # "saved" \/ left'[job'[q].unit] \/ q \in stale'
      BY DEF RegForget
    <3>1. CASE job'[q].unit = u
      BY <2>3, <3>1
    <3>2. CASE job'[q].unit # u
      <4>1. job'[q] = job[q] /\ job[q].unit \in Units
        BY <1>0, <1>1, <2>1, <3>2 DEF Moves, RegTypes, Registry!Jobs
      <4> QED BY <2>2, <2>3, <3>2, <4>1 DEF RegIInv, RegForget
    <3> QED BY <3>1, <3>2
  <2>7. RegSaved'
    <3>1. job'[Registrar] = job[Registrar]
      BY <1>0, <2>1, RegistrarIs DEF Moves
    <3> SUFFICES ASSUME NEW v \in Units, dir'[v] = "saved", active'[v] = "none", ~left'[v]
                 PROVE  Rescanned(v)'
      BY DEF RegSaved
    <3>3. v # u
      BY <2>3
    <3>4. dir[v] = "saved" /\ active[v] = "none" /\ ~left[v]
      BY <2>2, <2>3, <3>3
    <3>5. Rescanned(v)
      BY <3>4 DEF RegIInv, RegSaved
    <3> QED BY <2>2, <3>1, <3>5 DEF Rescanned
  <2> QED BY <2>4, <2>5, <2>6, <2>7 DEF RegIInv
<1>3. CASE Registry!RemoveFails(p) /\ job[p].cmd # "force-release"
  <2>1. Moves(p, "idle") /\ "idle" \in Registry!Places
    BY <1>0, <1>3, GotoIs DEF Registry!RemoveFails, Registry!Places
  <2>2. UNCHANGED <<dir, active, todo, mine, left, stale, writer>>
    BY <1>3 DEF Registry!RemoveFails, Registry!store
  <2> QED BY <1>0, <2>1, <2>2, RegQuiet
<1>4. CASE Registry!RemoveFails(p) /\ job[p].cmd = "force-release"
  <2>1. Moves(p, "forget")
    BY <1>0, <1>4, GotoIs DEF Registry!RemoveFails, Registry!Places
  <2>2. /\ UNCHANGED <<dir, active, writer, todo, stale, mine>> /\ job[p].at = "remove"
        /\ left' = [left EXCEPT ![u] = TRUE]
    BY <1>1, <1>4 DEF Registry!RemoveFails, Registry!store
  <2>3. /\ left' \in [Units -> BOOLEAN] /\ left'[u]
        /\ \A v \in Units : left[v] => left'[v]
    BY <1>0, <2>2 DEF RegTypes
  <2>a. RegTypes'
    BY <1>0, <2>1, <2>2, <2>3 DEF RegTypes, Moves
  <2>b. RegWriter'
    BY <2>1, <2>2 DEF RegIInv, RegWriter, Moves
  <2>c. RegObjects'
    BY <2>1, <2>2 DEF RegIInv, RegObjects, Moves
  <2>4. RegTypes' /\ RegWriter' /\ RegObjects'
    BY <2>a, <2>b, <2>c
  <2>5. RegOwners'
    BY <2>1, <2>2 DEF RegIInv, RegOwners, Moves
  <2>6. RegForget'
    <3> SUFFICES ASSUME NEW q \in Procs, job'[q].at = "forget"
                 PROVE  dir'[job'[q].unit] # "saved" \/ left'[job'[q].unit] \/ q \in stale'
      BY DEF RegForget
    <3>1. CASE q = p
      BY <1>1, <2>1, <2>3, <3>1 DEF Moves
    <3>2. CASE q # p
      <4>1. job'[q] = job[q] /\ job[q].unit \in Units
        BY <1>0, <2>1, <3>2 DEF Moves, RegTypes, Registry!Jobs
      <4> QED BY <2>2, <2>3, <4>1 DEF RegIInv, RegForget
    <3> QED BY <3>1, <3>2
  <2>7. RegSaved'
    <3>1. job'[Registrar] = job[Registrar]
      BY <1>0, <2>1, RegistrarIs DEF Moves
    <3> QED BY <2>2, <2>3, <3>1 DEF RegIInv, RegSaved, Rescanned
  <2> QED BY <2>4, <2>5, <2>6, <2>7 DEF RegIInv
<1>5. CASE Registry!Forget(p)
  <2>1. Moves(p, "idle")
    BY <1>0, <1>5, GotoIs DEF Registry!Forget, Registry!Places
  <2>2. /\ UNCHANGED <<dir, writer, todo, stale, mine>> /\ job[p].at = "forget"
        /\ active' = [active EXCEPT ![u] = "none"]
        /\ left' = [left EXCEPT ![u] = left[u] \/ (p \in stale /\ dir[u] = "saved")]
    BY <1>1, <1>5 DEF Registry!Forget
  <2>3. /\ left' \in [Units -> BOOLEAN]
        /\ active' \in [Units -> {"none", "worker", "unknown"}]
        /\ p \in stale /\ dir[u] = "saved" => left'[u]
        /\ \A v \in Units : left[v] => left'[v]
        /\ \A v \in Units : v # u => active'[v] = active[v] /\ left'[v] = left[v]
    BY <1>0, <2>2 DEF RegTypes
  <2>a. RegTypes'
    BY <1>0, <2>1, <2>2, <2>3 DEF RegTypes, Moves
  <2>b. RegWriter'
    BY <2>1, <2>2 DEF RegIInv, RegWriter, Moves
  <2>c. RegObjects'
    BY <2>1, <2>2 DEF RegIInv, RegObjects, Moves
  <2>4. RegTypes' /\ RegWriter' /\ RegObjects'
    BY <2>a, <2>b, <2>c
  <2>5. RegOwners'
    BY <2>1, <2>2 DEF RegIInv, RegOwners, Moves
  <2>6. RegForget'
    <3> SUFFICES ASSUME NEW q \in Procs, job'[q].at = "forget"
                 PROVE  dir'[job'[q].unit] # "saved" \/ left'[job'[q].unit] \/ q \in stale'
      BY DEF RegForget
    <3>1. job'[q] = job[q] /\ job[q].unit \in Units
      BY <1>0, <2>1 DEF Moves, RegTypes, Registry!Jobs
    <3> QED BY <2>2, <2>3, <3>1 DEF RegIInv, RegForget
  <2>7. RegSaved'
    <3>1. job'[Registrar] = job[Registrar]
      BY <1>0, <2>1, RegistrarIs DEF Moves
    <3>2. dir[u] = "saved" => left'[u]
      BY <1>0, <1>1, <2>2, <2>3 DEF RegIInv, RegForget
    <3> SUFFICES ASSUME NEW v \in Units, dir'[v] = "saved", active'[v] = "none", ~left'[v]
                 PROVE  Rescanned(v)'
      BY DEF RegSaved
    <3>3. v # u
      BY <2>2, <3>2
    <3>4. dir[v] = "saved" /\ active[v] = "none" /\ ~left[v]
      BY <2>2, <2>3, <3>3
    <3>5. Rescanned(v)
      BY <3>4 DEF RegIInv, RegSaved
    <3> QED BY <2>2, <3>1, <3>5 DEF Rescanned
  <2> QED BY <2>4, <2>5, <2>6, <2>7 DEF RegIInv
<1> QED BY <1>2, <1>3, <1>4, <1>5

(* RegisterWorker: the units it drops are rescanned.                       *)
LEMMA RegRegister ==
    ASSUME RegIInv,
           Registry!Register \/ Registry!RegisterLock \/ Registry!RegisterUnlock
              \/ Registry!RegisterScan \/ \E u \in Units : Registry!DropUnknown(u)
    PROVE  RegIInv'
<1>0. Registrar \in Procs /\ RegTypes /\ Registrar # Registry!Free
  BY RegistrarIs, FreeIs DEF RegIInv
<1>1. CASE Registry!Register
  <2>1. Moves(Registrar, "register") /\ "register" \in Registry!Places
    BY <1>0, <1>1, GotoIs DEF Registry!Register, Registry!Places
  <2>2. UNCHANGED <<dir, active, todo, mine, left, stale, writer>> /\ job[Registrar].at = "idle"
    BY <1>1 DEF Registry!Register, Registry!history
  <2>3. ASSUME NEW u \in Units, dir[u] = "saved", active[u] = "none", ~left[u]
        PROVE  Rescanned(u)'
    BY <2>2, <2>3 DEF RegIInv, RegSaved, Rescanned
  <2> QED BY <1>0, <2>1, <2>2, <2>3, RegQuiet
<1>2. CASE Registry!RegisterLock
  <2>1. Moves(Registrar, "unknown units")
    BY <1>0, <1>2, GotoIs DEF Registry!RegisterLock, Registry!Places
  <2>2. /\ UNCHANGED <<dir, active, mine, left, stale>> /\ writer = Registry!Free
        /\ writer' = Registrar /\ todo' \subseteq Units
    BY <1>2 DEF Registry!RegisterLock, Registry!CanWrite, Registry!store, Registry!history
  <2>3. RegTypes' /\ RegWriter' /\ RegObjects'
    BY <1>0, <2>1, <2>2, FreeIs DEF RegIInv, RegTypes, RegWriter, RegObjects, Moves
  <2>4. RegOwners' /\ RegForget' /\ RegSaved'
    BY <2>1, <2>2 DEF RegIInv, RegOwners, RegForget, RegSaved, Rescanned, Moves
  <2> QED BY <2>3, <2>4 DEF RegIInv
<1>3. CASE Registry!RegisterUnlock
  <2>1. Moves(Registrar, "register scan")
    BY <1>0, <1>3, GotoIs DEF Registry!RegisterUnlock, Registry!Places
  <2>2. /\ UNCHANGED <<dir, active, mine, left, stale>> /\ writer = Registrar
        /\ writer' = Registry!Free /\ todo' = {u \in Units : dir[u] # "none"}
    BY <1>0, <1>3
    DEF Registry!RegisterUnlock, Registry!store, Registry!history, RegIInv, RegWriter
  <2>3. RegTypes' /\ RegWriter' /\ RegObjects'
    BY <1>0, <2>1, <2>2 DEF RegIInv, RegTypes, RegWriter, RegObjects, Moves
  <2>4. RegOwners' /\ RegForget' /\ RegSaved'
    BY <2>1, <2>2 DEF RegIInv, RegOwners, RegForget, RegSaved, Rescanned, Moves
  <2> QED BY <2>3, <2>4 DEF RegIInv
<1>4. CASE Registry!RegisterScan /\ todo = {}
  <2>1. Moves(Registrar, "idle") /\ "idle" \in Registry!Places
    BY <1>0, <1>4, GotoIs DEF Registry!RegisterScan, Registry!Places
  <2>2. /\ UNCHANGED <<dir, active, todo, mine, left, stale, writer>>
        /\ job[Registrar].at = "register scan"
    BY <1>4 DEF Registry!RegisterScan, Registry!store, Registry!lock, Registry!history
  <2>3. ASSUME NEW u \in Units, dir[u] = "saved", active[u] = "none", ~left[u]
        PROVE  Rescanned(u)'
    BY <1>4, <2>2, <2>3 DEF RegIInv, RegSaved, Rescanned
  <2> QED BY <1>0, <2>1, <2>2, <2>3, RegQuiet
<1>5. CASE Registry!RegisterScan /\ todo # {}
  <2>1. PICK u \in todo : /\ todo' = todo \ {u}
                          /\ job' = [job EXCEPT ![Registrar].at = "scan", ![Registrar].unit = u]
    BY <1>5 DEF Registry!RegisterScan
  <2>2. /\ UNCHANGED <<dir, active, mine, left, stale, writer>>
        /\ job[Registrar].at = "register scan" /\ u \in Units
    BY <1>0, <1>5
    DEF Registry!RegisterScan, Registry!store, Registry!lock, Registry!history, RegTypes
  <2>a. PICK old : old = job[Registrar]
    OBVIOUS
  <2>b. PICK new : new = [old EXCEPT !.at = "scan", !.unit = u]
    OBVIOUS
  <2>c. old \in [at : Registry!Places, cmd : Registry!Commands \cup {"submit", "none"},
                 unit : Units, object : Registry!Objects]
    BY <1>0, <2>a DEF Registry!Jobs, RegTypes
  <2>d. new.at = "scan" /\ new.unit = u
    BY ONLY <2>b, <2>c
  <2>e. "scan" \in Registry!Places
    BY DEF Registry!Places
  <2>f. new \in Registry!Jobs
    BY ONLY <2>b, <2>c, <2>e, <2>2 DEF Registry!Jobs
  <2>3. job' = [job EXCEPT ![Registrar] = new]
    BY <1>0, <2>1, <2>a, <2>b DEF RegTypes, Registry!Jobs
  <2>4. /\ job' \in [Procs -> Registry!Jobs] /\ job'[Registrar] = new
        /\ \A q \in Procs : q # Registrar => job'[q] = job[q]
    BY <1>0, <2>f, <2>3 DEF RegTypes
  <2>5. RegTypes' /\ RegWriter' /\ RegObjects'
    BY <2>1, <2>2, <2>d, <2>4 DEF RegIInv, RegTypes, RegWriter, RegObjects
  <2>6. RegOwners' /\ RegForget'
    BY <2>2, <2>d, <2>4 DEF RegIInv, RegOwners, RegForget
  <2>7. RegSaved'
    BY <2>1, <2>2, <2>d, <2>4 DEF RegIInv, RegSaved, Rescanned
  <2> QED BY <2>5, <2>6, <2>7 DEF RegIInv
<1>6. ASSUME NEW u \in Units, Registry!DropUnknown(u) PROVE RegIInv'
  <2>1. /\ UNCHANGED <<dir, job, writer, mine, left, stale>> /\ job[Registrar].at = "unknown units"
        /\ todo' = todo \ {u} /\ active' = [active EXCEPT ![u] = "none"]
    BY <1>6 DEF Registry!DropUnknown, Registry!lock, Registry!history
  <2>2. RegTypes' /\ RegSaved'
    BY <2>1 DEF RegIInv, RegTypes, RegSaved, Rescanned
  <2> QED BY <2>1, <2>2 DEF RegIInv, RegWriter, RegObjects, RegOwners, RegForget
<1> QED BY <1>1, <1>2, <1>3, <1>4, <1>5, <1>6

(* Every step of the clients and the registrar keeps the strengthening.    *)
LEMMA RegNext == RegIInv /\ [Registry!Next]_registryVars => RegIInv'
<1> SUFFICES ASSUME RegIInv, [Registry!Next]_registryVars PROVE RegIInv'
  OBVIOUS
<1>1. ASSUME NEW p \in Clients, Registry!Command(p) PROVE RegIInv'
  BY <1>1, RegCommand DEF Registry!Command
<1>2. ASSUME NEW p \in Clients, Registry!Proceed(p) PROVE RegIInv'
  <2>1. p \in Procs
    BY RegistrarIs
  <2> QED BY <1>2, <2>1, RegAllocate, RegSave, RegLookup, RegScan, RegRelease DEF Registry!Proceed
<1>3. CASE Registry!Register \/ Registry!Registering
  <2>1. Registrar \in Procs
    BY RegistrarIs
  <2> QED BY <1>3, <2>1, RegRegister, RegScan DEF Registry!Registering
<1>4. CASE UNCHANGED registryVars
  BY <1>4 DEF registryVars, RegIInv, RegTypes, RegWriter, RegObjects, RegOwners, RegForget,
     RegSaved, Rescanned
<1> QED BY <1>1, <1>2, <1>3, <1>4 DEF Registry!Next

(* A unit ID is given to one submitter at a time, and a unit with a status *)
(* file is in activeUnits, but for late work types and releases that left  *)
(* files (AllocateUnit, scanForUnit, Release), for any number of clients   *)
(* and units.                                                              *)
THEOREM RegistrySound == ControlSpec => []RegistryIsSound
<1>1. ControlInit => RegIInv
  BY RegInit DEF ControlInit
<1>2. RegIInv /\ [ControlNext]_controlVars => RegIInv'
  BY RegNext DEF ControlNext, controlVars
<1>3. RegIInv => RegistryIsSound
  BY DEF RegIInv, RegOwners, RegSaved, Rescanned, RegistryIsSound, Registry!OneUnitPerID,
     Registry!SavedIsActive
<1> QED BY <1>1, <1>2, <1>3, PTL DEF ControlSpec

-----------------------------------------------------------------------------
(* Who has what, told from where each process is: places at which a        *)
(* process waits to write, and at which it holds the lock for that.        *)
ToWrite == {"submit", "insert", "forget", "register"}
Writing == {"allocate", "save", "unknown units"}
Releasing == {"remove", "forget"}

(* The read locks that p holds there: findUnit scans with one.             *)
Held(p, where) ==
    IF p = Registrar THEN IF where = "checked" THEN 1 ELSE 0
    ELSE IF where = "checked" THEN 2
    ELSE IF where \in {"found", "scan", "load", "insert", "scan end"} THEN 1 ELSE 0

(* Only clients submit and release units, only the registrar registers.    *)
PlaceOf(p, where) ==
    IF p = Registrar
    THEN where \notin {"submit", "allocate", "save", "found", "use", "release", "remove", "forget"}
    ELSE where \notin {"register", "unknown units", "register scan"}

LockPlaces == \A p \in Procs : PlaceOf(p, job[p].at)

LockReaders ==
    readers \in [Procs -> Nat] /\ \A p \in Procs : readers[p] = Held(p, job[p].at)

LockWaiting == waiting \subseteq Procs /\ \A p \in Procs : p \in waiting <=> job[p].at \in ToWrite

LockWriter ==
    writer # Registry!Free => writer \in Procs /\ job[writer].at \in Writing

LockStatus ==
    /\ statusLock \in [Units \X {"worker", "unknown"} -> Procs \cup {Registry!Free}]
    /\ \A u \in Units, o \in {"worker", "unknown"} : \A p \in Procs :
          statusLock[<<u, o>>] = p =>
              job[p].at \in Releasing /\ job[p].unit = u /\ job[p].object = o

LockInv == LockPlaces /\ LockReaders /\ LockWaiting /\ LockWriter /\ LockStatus

-----------------------------------------------------------------------------
(* The unit and the object of a process.                                   *)
LEMMA JobIs ==
    ASSUME RegIInv, NEW p \in Procs
    PROVE  /\ job[p].unit \in Units
           /\ job[p].at \in {"use", "release", "remove", "forget"}
                 => job[p].object \in {"worker", "unknown"}
<1>1. job[p] \in Registry!Jobs
  BY DEF RegIInv, RegTypes
<1>2. job[p].unit \in Units /\ job[p].object \in {"none", "worker", "unknown"}
  BY <1>1 DEF Registry!Jobs, Registry!Objects
<1>3. job[p].at \in {"use", "release", "remove", "forget"} => job[p].object # "none"
  BY DEF RegIInv, RegObjects
<1> QED BY <1>2, <1>3

(* One process moves on: what must be said of its locks.                   *)
LEMMA LockStep ==
    ASSUME RegIInv, LockInv, NEW p \in Procs,
           \A q \in Procs : q # p => job'[q] = job[q] /\ readers'[q] = readers[q],
           readers' \in [Procs -> Nat],
           PlaceOf(p, job'[p].at),
           readers'[p] = Held(p, job'[p].at),
           waiting' = IF job'[p].at \in ToWrite THEN waiting \cup {p} ELSE waiting \ {p},
           writer' = Registry!Free \/ (writer' = p /\ job'[p].at \in Writing)
                                   \/ (writer' = writer /\ job[p].at \notin Writing),
           LockStatus'
    PROVE  LockInv'
<1>1. LockPlaces'
  <2> SUFFICES ASSUME NEW q \in Procs PROVE PlaceOf(q, job'[q].at)
    BY DEF LockPlaces, PlaceOf
  <2> QED BY DEF LockInv, LockPlaces
<1>2. LockReaders'
  <2> SUFFICES ASSUME NEW q \in Procs PROVE readers'[q] = Held(q, job'[q].at)
    BY DEF LockReaders, Held
  <2> QED BY DEF LockInv, LockReaders
<1>3. LockWaiting'
  BY DEF LockInv, LockWaiting
<1>4. LockWriter'
  <2> SUFFICES ASSUME writer' # Registry!Free
               PROVE  writer' \in Procs /\ job'[writer'].at \in Writing
    BY DEF LockWriter, Registry!Free
  <2>1. CASE writer' = p /\ job'[p].at \in Writing
    BY <2>1
  <2>2. CASE writer' = writer /\ job[p].at \notin Writing
    <3>1. writer \in Procs /\ job[writer].at \in Writing
      BY <2>2 DEF LockInv, LockWriter
    <3>2. writer # p
      BY <2>2, <3>1
    <3> QED BY <2>2, <3>1, <3>2
  <2> QED BY <2>1, <2>2
<1> QED BY <1>1, <1>2, <1>3, <1>4 DEF LockInv

(* The status locks stay, and p is not releasing, or goes on to forget.    *)
LEMMA StatusKept ==
    ASSUME RegIInv, LockInv, NEW p \in Procs, statusLock' = statusLock,
           \A q \in Procs : q # p => job'[q] = job[q],
           \/ job[p].at \notin Releasing
           \/ /\ job'[p].at \in Releasing
              /\ job'[p].unit = job[p].unit /\ job'[p].object = job[p].object
    PROVE  LockStatus'
<1> SUFFICES ASSUME NEW u \in Units, NEW o \in {"worker", "unknown"}, NEW q \in Procs,
                    statusLock[<<u, o>>] = q
             PROVE  job'[q].at \in Releasing /\ job'[q].unit = u /\ job'[q].object = o
  BY DEF LockInv, LockStatus, Registry!Free
<1>1. job[q].at \in Releasing /\ job[q].unit = u /\ job[q].object = o
  BY DEF LockInv, LockStatus
<1> QED BY <1>1

(* Release takes the status lock of its unit.                              *)
LEMMA StatusTaken ==
    ASSUME RegIInv, LockInv, NEW p \in Procs, NEW v \in Units, NEW x \in {"worker", "unknown"},
           statusLock' = [statusLock EXCEPT ![<<v, x>>] = p],
           \A q \in Procs : q # p => job'[q] = job[q],
           job[p].at \notin Releasing,
           job'[p].at \in Releasing, job'[p].unit = v, job'[p].object = x
    PROVE  LockStatus'
<1>1. statusLock \in [Units \X {"worker", "unknown"} -> Procs \cup {Registry!Free}]
  BY DEF LockInv, LockStatus
<1>2. statusLock' \in [Units \X {"worker", "unknown"} -> Procs \cup {Registry!Free}]
  BY <1>1
<1>3. ASSUME NEW u \in Units, NEW o \in {"worker", "unknown"}, NEW q \in Procs,
             statusLock'[<<u, o>>] = q
      PROVE  job'[q].at \in Releasing /\ job'[q].unit = u /\ job'[q].object = o
  <2>1. CASE u = v /\ o = x
    <3>1. q = p
      BY <1>1, <1>3, <2>1
    <3> QED BY <2>1, <3>1
  <2>2. CASE u # v \/ o # x
    <3>1. statusLock[<<u, o>>] = q
      BY <1>1, <1>3, <2>2
    <3>2. job[q].at \in Releasing /\ job[q].unit = u /\ job[q].object = o
      BY <3>1 DEF LockInv, LockStatus
    <3> QED BY <3>2
  <2> QED BY <2>1, <2>2
<1> QED BY <1>2, <1>3 DEF LockStatus, Registry!Free

(* And gives it back, wherever it goes then.                               *)
LEMMA StatusGiven ==
    ASSUME RegIInv, LockInv, NEW p \in Procs, NEW v \in Units, NEW x \in {"worker", "unknown"},
           statusLock' = [statusLock EXCEPT ![<<v, x>>] = Registry!Free],
           \A q \in Procs : q # p => job'[q] = job[q],
           job[p].unit = v, job[p].object = x
    PROVE  LockStatus'
<1>1. statusLock \in [Units \X {"worker", "unknown"} -> Procs \cup {Registry!Free}]
  BY DEF LockInv, LockStatus
<1>2. statusLock' \in [Units \X {"worker", "unknown"} -> Procs \cup {Registry!Free}]
  BY <1>1
<1>3. ASSUME NEW u \in Units, NEW o \in {"worker", "unknown"}, NEW q \in Procs,
             statusLock'[<<u, o>>] = q
      PROVE  job'[q].at \in Releasing /\ job'[q].unit = u /\ job'[q].object = o
  <2>1. CASE u = v /\ o = x
    <3>1. q = Registry!Free
      BY <1>1, <1>3, <2>1
    <3> QED BY <3>1, FreeIs
  <2>2. CASE u # v \/ o # x
    <3>1. statusLock[<<u, o>>] = q
      BY <1>1, <1>3, <2>2
    <3>2. job[q].at \in Releasing /\ job[q].unit = u /\ job[q].object = o
      BY <3>1 DEF LockInv, LockStatus
    <3>3. q # p
      BY <2>2, <3>2
    <3> QED BY <3>2, <3>3
  <2> QED BY <2>1, <2>2
<1> QED BY <1>2, <1>3 DEF LockStatus, Registry!Free

(* What p holds, told from where it is.                                    *)
LEMMA LocksOf ==
    ASSUME RegIInv, LockInv, NEW p \in Procs
    PROVE  /\ readers \in [Procs -> Nat] /\ readers[p] = Held(p, job[p].at)
           /\ p \in waiting <=> job[p].at \in ToWrite
           /\ waiting \subseteq Procs
BY DEF LockInv, LockReaders, LockWaiting

(* p moves on and keeps its read locks.                                    *)
LEMMA LockQuiet ==
    ASSUME RegIInv, LockInv, NEW p \in Procs, NEW where,
           job'[p].at = where, \A q \in Procs : q # p => job'[q] = job[q],
           PlaceOf(p, where), readers' = readers, Held(p, where) = Held(p, job[p].at),
           waiting' = IF where \in ToWrite THEN waiting \cup {p} ELSE waiting \ {p},
           writer' = Registry!Free \/ (writer' = p /\ where \in Writing)
                                   \/ (writer' = writer /\ job[p].at \notin Writing),
           LockStatus'
    PROVE  LockInv'
<1>1. readers' \in [Procs -> Nat] /\ readers'[p] = Held(p, job'[p].at)
  BY LocksOf
<1>2. PlaceOf(p, job'[p].at)
  OBVIOUS
<1>3. waiting' = IF job'[p].at \in ToWrite THEN waiting \cup {p} ELSE waiting \ {p}
  OBVIOUS
<1>4. writer' = Registry!Free \/ (writer' = p /\ job'[p].at \in Writing)
                              \/ (writer' = writer /\ job[p].at \notin Writing)
  OBVIOUS
<1> QED BY <1>1, <1>2, <1>3, <1>4, LockStep

(* p moves on with one read lock more or less, waits for nothing and holds *)
(* no other lock.                                                          *)
LEMMA LockRead ==
    ASSUME RegIInv, LockInv, NEW p \in Procs, NEW where,
           job'[p].at = where, \A q \in Procs : q # p => job'[q] = job[q],
           PlaceOf(p, where), UNCHANGED <<writer, waiting, statusLock>>,
           job[p].at \notin ToWrite \cup Writing \cup Releasing, where \notin ToWrite,
           \/ /\ readers' = [readers EXCEPT ![p] = readers[p] + 1]
              /\ Held(p, where) = Held(p, job[p].at) + 1
           \/ /\ readers' = [readers EXCEPT ![p] = readers[p] - 1]
              /\ Held(p, where) = Held(p, job[p].at) - 1
    PROVE  LockInv'
<1>1. readers \in [Procs -> Nat] /\ readers[p] = Held(p, job[p].at) /\ p \notin waiting
  BY LocksOf
<1>2. readers' = [readers EXCEPT ![p] = Held(p, where)]
  BY <1>1
<1>3. Held(p, where) \in Nat
  BY DEF Held
<1>4. readers' \in [Procs -> Nat] /\ readers'[p] = Held(p, job'[p].at)
  BY <1>1, <1>2, <1>3
<1>5. \A q \in Procs : q # p => job'[q] = job[q] /\ readers'[q] = readers[q]
  BY <1>1, <1>2
<1>6. PlaceOf(p, job'[p].at)
  OBVIOUS
<1>7. waiting' = IF job'[p].at \in ToWrite THEN waiting \cup {p} ELSE waiting \ {p}
  BY <1>1
<1>8. LockStatus'
  BY <1>5, StatusKept
<1> QED BY <1>4, <1>5, <1>6, <1>7, <1>8, LockStep

(* Of two read locks one is left, of one none.                             *)
LEMMA OneLess ==
    \A h, k : (h = 0 /\ k = 1) \/ (h = 1 /\ k = 2) => h = k - 1
<1>1. \A h, k : h = 0 /\ k = 1 => h = k - 1
  OBVIOUS
<1>2. \A h, k : h = 1 /\ k = 2 => h = k - 1
  OBVIOUS
<1> QED BY <1>1, <1>2

(* The case of a read lock given back.                                     *)
LEMMA LockGiven ==
    ASSUME RegIInv, LockInv, NEW p \in Procs, NEW where,
           job'[p].at = where, \A q \in Procs : q # p => job'[q] = job[q],
           PlaceOf(p, where), UNCHANGED <<writer, waiting, statusLock>>,
           job[p].at \notin ToWrite \cup Writing \cup Releasing, where \notin ToWrite,
           readers' = [readers EXCEPT ![p] = readers[p] - 1],
           Held(p, where) = Held(p, job[p].at) - 1
    PROVE  LockInv'
BY LockRead

-----------------------------------------------------------------------------
(* AllocateUnit takes the lock for writing and gives it back.              *)
LEMMA LockAllocate ==
    ASSUME RegIInv, LockInv, NEW p \in Clients,
           Registry!AllocateLock(p) \/ Registry!GenerateUnitID(p) \/ Registry!Save(p)
    PROVE  LockInv'
<1>0. p \in Procs /\ RegTypes /\ p # Registrar
  BY RegistrarIs DEF RegIInv
<1>1. CASE Registry!AllocateLock(p)
  <2>1. Moves(p, "allocate")
    BY <1>0, <1>1, GotoIs DEF Registry!AllocateLock, Registry!Places
  <2>2. /\ job[p].at = "submit" /\ writer' = p /\ waiting' = waiting \ {p}
        /\ readers' = readers /\ statusLock' = statusLock
    BY <1>1 DEF Registry!AllocateLock
  <2>3. LockStatus'
    BY <1>0, <2>1, <2>2, StatusKept DEF Moves, Releasing
  <2> QED BY <1>0, <2>1, <2>2, <2>3, LockQuiet DEF Moves, PlaceOf, Held, ToWrite, Writing
<1>2. CASE Registry!GenerateUnitID(p)
  <2>1. /\ job[p].at = "allocate" /\ waiting' = waiting
        /\ readers' = readers /\ statusLock' = statusLock
        /\ \/ writer' = Registry!Free /\ Registry!Goto(p, "idle")
           \/ writer' = writer /\ Registry!Goto(p, "save")
    BY <1>2 DEF Registry!GenerateUnitID
  <2>2. p \notin waiting /\ writer = p
    BY <1>0, <2>1, LocksOf DEF ToWrite, RegIInv, RegWriter
  <2>3. CASE writer' = Registry!Free /\ Registry!Goto(p, "idle")
    <3>1. Moves(p, "idle")
      BY <1>0, <2>3, GotoIs DEF Registry!Places
    <3>2. LockStatus'
      BY <1>0, <2>1, <3>1, StatusKept DEF Moves, Releasing
    <3> QED BY <1>0, <2>1, <2>2, <2>3, <3>1, <3>2, LockQuiet
         DEF Moves, PlaceOf, Held, ToWrite, Writing
  <2>4. CASE writer' = writer /\ Registry!Goto(p, "save")
    <3>1. Moves(p, "save")
      BY <1>0, <2>4, GotoIs DEF Registry!Places
    <3>2. LockStatus'
      BY <1>0, <2>1, <3>1, StatusKept DEF Moves, Releasing
    <3> QED BY <1>0, <2>1, <2>2, <2>4, <3>1, <3>2, LockQuiet
         DEF Moves, PlaceOf, Held, ToWrite, Writing
  <2> QED BY <2>1, <2>3, <2>4
<1>3. CASE Registry!Save(p)
  <2>1. Moves(p, "idle")
    BY <1>0, <1>3, GotoIs DEF Registry!Save, Registry!Places
  <2>2. /\ job[p].at = "save" /\ writer' = Registry!Free /\ waiting' = waiting
        /\ readers' = readers /\ statusLock' = statusLock
    BY <1>3 DEF Registry!Save
  <2>3. p \notin waiting
    BY <1>0, <2>2, LocksOf DEF ToWrite
  <2>4. LockStatus'
    BY <1>0, <2>1, <2>2, StatusKept DEF Moves, Releasing
  <2> QED BY <1>0, <2>1, <2>2, <2>3, <2>4, LockQuiet DEF Moves, PlaceOf, Held, ToWrite, Writing
<1> QED BY <1>1, <1>2, <1>3

(* A command begins: it waits to write, or reads.                          *)
LEMMA LockCommand ==
    ASSUME RegIInv, RegIInv', LockInv, NEW p \in Clients, Registry!Command(p)
    PROVE  LockInv'
<1>0. p \in Procs /\ RegTypes /\ p # Registrar /\ job \in [Procs -> Registry!Jobs]
  BY RegistrarIs DEF RegIInv, RegTypes
<1>1. ASSUME NEW u \in Units, Registry!Submit(p, u) PROVE LockInv'
  <2>1. /\ job[p].at = "idle" /\ UNCHANGED <<readers, writer, statusLock>>
        /\ job' = [job EXCEPT ![p] = [at |-> "submit", cmd |-> "submit", unit |-> u,
                                      object |-> "none"]]
        /\ waiting' = waiting \cup {p}
    BY <1>1 DEF Registry!Submit
  <2>2. job'[p].at = "submit" /\ \A q \in Procs : q # p => job'[q] = job[q]
    BY <1>0, <2>1
  <2>3. LockStatus'
    BY <1>0, <2>1, <2>2, StatusKept DEF Releasing
  <2> QED BY <1>0, <2>1, <2>2, <2>3, LockQuiet DEF PlaceOf, Held, ToWrite, Writing
<1>2. ASSUME NEW u \in Units, NEW c, Registry!Find(p, u, c) PROVE LockInv'
  <2>1. PICK where : where = IF active[u] # "none" THEN "found" ELSE "scan"
    OBVIOUS
  <2>2. /\ job[p].at = "idle" /\ UNCHANGED <<writer, waiting, statusLock>>
        /\ job' = [job EXCEPT ![p] = [at |-> where, cmd |-> c, unit |-> u, object |-> active[u]]]
        /\ readers' = [readers EXCEPT ![p] = readers[p] + 1]
    BY <1>2, <2>1 DEF Registry!Find, Registry!RLock
  <2>3. job'[p].at = where /\ \A q \in Procs : q # p => job'[q] = job[q]
    BY <1>0, <2>2
  <2>4. where \in {"found", "scan"}
    BY <2>1
  <2>5. /\ PlaceOf(p, where) /\ where \notin ToWrite
        /\ job[p].at \notin ToWrite \cup Writing \cup Releasing
    BY <1>0, <2>2, <2>4 DEF PlaceOf, ToWrite, Writing, Releasing
  <2>6. Held(p, where) = 1 /\ Held(p, job[p].at) = 0
    BY <1>0, <2>2, <2>4 DEF Held
  <2>7. Held(p, where) = Held(p, job[p].at) + 1
    BY <2>6
  <2> QED BY <1>0, <2>2, <2>3, <2>5, <2>7, LockRead
<1> QED BY <1>1, <1>2 DEF Registry!Command

(* A unit that was found is looked at without a lock on the table.         *)
LEMMA LockLookup ==
    ASSUME RegIInv, LockInv, NEW p \in Clients, Registry!Found(p) \/ Registry!Use(p)
    PROVE  LockInv'
<1>0. p \in Procs /\ RegTypes /\ p # Registrar
  BY RegistrarIs DEF RegIInv
<1>1. CASE Registry!Found(p)
  <2>1. Moves(p, "use")
    BY <1>0, <1>1, GotoIs DEF Registry!Found, Registry!Places
  <2>2. /\ job[p].at = "found" /\ UNCHANGED <<writer, waiting, statusLock>>
        /\ readers' = [readers EXCEPT ![p] = readers[p] - 1]
    BY <1>1 DEF Registry!Found, Registry!RUnlock
  <2>3. /\ PlaceOf(p, "use") /\ "use" \notin ToWrite
        /\ job[p].at \notin ToWrite \cup Writing \cup Releasing
        /\ Held(p, "use") = Held(p, job[p].at) - 1
    BY <1>0, <2>2 DEF PlaceOf, Held, ToWrite, Writing, Releasing
  <2> QED BY <1>0, <2>1, <2>2, <2>3, LockRead DEF Moves
<1>2. CASE Registry!Use(p)
  <2>1. /\ job[p].at = "use" /\ UNCHANGED <<readers, writer, waiting, statusLock>>
        /\ \E where \in {"release", "idle"} : Registry!Goto(p, where)
    BY <1>2 DEF Registry!Use, Registry!lock
  <2>2. PICK where \in {"release", "idle"} : Registry!Goto(p, where)
    BY <2>1
  <2>3. Moves(p, where)
    BY <1>0, <2>2, GotoIs DEF Registry!Places
  <2>4. p \notin waiting
    BY <1>0, <2>1, LocksOf DEF ToWrite
  <2>5. LockStatus'
    BY <1>0, <2>1, <2>3, StatusKept DEF Moves, Releasing
  <2> QED BY <1>0, <2>1, <2>2, <2>3, <2>4, <2>5, LockQuiet
       DEF Moves, PlaceOf, Held, ToWrite, Writing
<1> QED BY <1>1, <1>2

(* scanForUnit ends: findUnit gives its read lock back.                    *)
LEMMA LockScanEnds ==
    ASSUME RegIInv, LockInv, NEW p \in Procs, job[p].at \in {"scan", "scan end"},
           Registry!ScanEnds(p), UNCHANGED <<writer, waiting, statusLock>>
    PROVE  LockInv'
<1>0. RegTypes /\ p \notin waiting
  BY LocksOf DEF RegIInv, ToWrite
<1>1. CASE p = Registrar
  <2>1. Moves(p, "register scan") /\ readers' = readers
    BY <1>0, <1>1, GotoIs DEF Registry!ScanEnds, Registry!Places
  <2>2. LockStatus'
    BY <2>1, StatusKept DEF Moves, Releasing
  <2> QED BY <1>0, <1>1, <2>1, <2>2, LockQuiet DEF Moves, PlaceOf, Held, ToWrite, Writing
<1>2. CASE p # Registrar
  <2>1. Moves(p, "idle") /\ readers' = [readers EXCEPT ![p] = readers[p] - 1]
    BY <1>0, <1>2, GotoIs DEF Registry!ScanEnds, Registry!RUnlock, Registry!Places
  <2>2. /\ PlaceOf(p, "idle") /\ "idle" \notin ToWrite
        /\ job[p].at \notin ToWrite \cup Writing \cup Releasing
    BY <1>2 DEF PlaceOf, ToWrite, Writing, Releasing
  <2>3. Held(p, "idle") = 0 /\ Held(p, job[p].at) = 1
    BY <1>2 DEF Held
  <2>4. Held(p, "idle") = Held(p, job[p].at) - 1
    BY ONLY <2>3
  <2>5. job'[p].at = "idle" /\ \A q \in Procs : q # p => job'[q] = job[q]
    BY <2>1 DEF Moves
  <2> QED BY <2>1, <2>2, <2>4, <2>5, LockGiven
<1> QED BY <1>1, <1>2

(* scanForUnit takes the lock for reading and gives it back, then waits    *)
(* for it to write.                                                        *)
LEMMA LockScan ==
    ASSUME RegIInv, LockInv, NEW p \in Procs, Registry!Scan(p)
    PROVE  LockInv'
<1>0. RegTypes
  BY DEF RegIInv
<1>1. CASE Registry!ScanNoDir(p) \/ Registry!ScanEnd(p)
  <2>1. /\ job[p].at \in {"scan", "scan end"} /\ Registry!ScanEnds(p)
        /\ UNCHANGED <<writer, waiting, statusLock>>
    BY <1>1 DEF Registry!ScanNoDir, Registry!ScanEnd
  <2> QED BY <2>1, LockScanEnds
<1>2. CASE Registry!ScanCheck(p)
  <2>1. Moves(p, "checked")
    BY <1>0, <1>2, GotoIs DEF Registry!ScanCheck, Registry!Places
  <2>2. /\ job[p].at = "scan" /\ UNCHANGED <<writer, waiting, statusLock>>
        /\ readers' = [readers EXCEPT ![p] = readers[p] + 1]
    BY <1>2 DEF Registry!ScanCheck, Registry!RLock
  <2>3. /\ PlaceOf(p, "checked") /\ "checked" \notin ToWrite
        /\ job[p].at \notin ToWrite \cup Writing \cup Releasing
    BY <2>2 DEF PlaceOf, ToWrite, Writing, Releasing
  <2>4. Held(p, "checked") = Held(p, job[p].at) + 1
    BY <2>2 DEF Held
  <2> QED BY <2>1, <2>2, <2>3, <2>4, LockRead DEF Moves
<1>3. CASE Registry!ScanChecked(p)
  <2>1. PICK where \in {"load", "scan end"} : Registry!Goto(p, where)
    BY <1>3 DEF Registry!ScanChecked
  <2>2. Moves(p, where)
    BY <1>0, <2>1, GotoIs DEF Registry!Places
  <2>3. /\ job[p].at = "checked" /\ UNCHANGED <<writer, waiting, statusLock>>
        /\ readers' = [readers EXCEPT ![p] = readers[p] - 1]
    BY <1>3 DEF Registry!ScanChecked, Registry!RUnlock
  <2>4. /\ PlaceOf(p, where) /\ where \notin ToWrite
        /\ job[p].at \notin ToWrite \cup Writing \cup Releasing
    BY <2>1, <2>3 DEF PlaceOf, ToWrite, Writing, Releasing
  <2>5. Held(p, where) = IF p = Registrar THEN 0 ELSE 1
    BY <2>1 DEF Held
  <2>6. Held(p, job[p].at) = IF p = Registrar THEN 1 ELSE 2
    BY <2>3 DEF Held
  <2>7. Held(p, where) = Held(p, job[p].at) - 1
    <3>1. \/ Held(p, where) = 0 /\ Held(p, job[p].at) = 1
          \/ Held(p, where) = 1 /\ Held(p, job[p].at) = 2
      BY <2>5, <2>6
    <3> QED BY ONLY <3>1, OneLess
  <2>8. job'[p].at = where /\ \A q \in Procs : q # p => job'[q] = job[q]
    BY <2>2 DEF Moves
  <2> QED BY <2>3, <2>4, <2>7, <2>8, LockGiven
<1>4. CASE Registry!ScanLoad(p)
  <2>1. job[p].at = "load" /\ UNCHANGED <<readers, writer, statusLock>> /\ p \notin waiting
    BY <1>4, LocksOf DEF Registry!ScanLoad, ToWrite
  <2>2. CASE dir[job[p].unit] = "saved"
    <3>1. PICK x : /\ waiting' = waiting \cup {p}
                   /\ job' = [job EXCEPT ![p].at = "insert", ![p].object = x]
      BY <1>4, <2>2 DEF Registry!ScanLoad
    <3>2. job'[p].at = "insert" /\ \A q \in Procs : q # p => job'[q] = job[q]
      <4>1. job \in [Procs -> Registry!Jobs] /\ job[p] \in Registry!Jobs
        BY <1>0 DEF RegTypes
      <4>2. PICK new : new = [job[p] EXCEPT !.at = "insert", !.object = x]
        OBVIOUS
      <4>3. new.at = "insert"
        BY <4>1, <4>2 DEF Registry!Jobs
      <4>4. job' = [job EXCEPT ![p] = new]
        BY <3>1, <4>1, <4>2 DEF Registry!Jobs
      <4> QED BY <4>1, <4>3, <4>4
    <3>3. LockStatus'
      BY <2>1, <3>2, StatusKept DEF Releasing
    <3> QED BY <2>1, <3>1, <3>2, <3>3, LockQuiet DEF PlaceOf, Held, ToWrite, Writing
  <2>3. CASE dir[job[p].unit] # "saved"
    <3>1. Moves(p, "scan end") /\ waiting' = waiting
      BY <1>0, <1>4, <2>3, GotoIs DEF Registry!ScanLoad, Registry!Places
    <3>2. LockStatus'
      BY <2>1, <3>1, StatusKept DEF Moves, Releasing
    <3> QED BY <2>1, <3>1, <3>2, LockQuiet DEF Moves, PlaceOf, Held, ToWrite, Writing
  <2> QED BY <2>2, <2>3
<1>5. CASE Registry!ScanInsert(p)
  <2>1. Moves(p, "scan end")
    BY <1>0, <1>5, GotoIs DEF Registry!ScanInsert, Registry!Places
  <2>2. /\ job[p].at = "insert" /\ UNCHANGED <<readers, writer, statusLock>>
        /\ waiting' = waiting \ {p}
    BY <1>5 DEF Registry!ScanInsert
  <2>3. LockStatus'
    BY <2>1, <2>2, StatusKept DEF Moves, Releasing
  <2> QED BY <2>1, <2>2, <2>3, LockQuiet DEF Moves, PlaceOf, Held, ToWrite, Writing
<1> QED BY <1>1, <1>2, <1>3, <1>4, <1>5 DEF Registry!Scan

(* Release takes the status lock, and with it the lock to write.           *)
LEMMA LockRelease ==
    ASSUME RegIInv, LockInv, NEW p \in Clients,
           Registry!ReleaseLock(p) \/ Registry!Remove(p) \/ Registry!RemoveFails(p)
              \/ Registry!Forget(p)
    PROVE  LockInv'
<1>0. p \in Procs /\ RegTypes /\ p # Registrar
  BY RegistrarIs DEF RegIInv
<1>1. PICK v, x : v = job[p].unit /\ x = job[p].object
  OBVIOUS
<1>2. /\ v \in Units
      /\ job[p].at \in {"release", "remove", "forget"} => x \in {"worker", "unknown"}
  BY <1>0, <1>1, JobIs
<1>3. CASE Registry!ReleaseLock(p)
  <2>1. Moves(p, "remove")
    BY <1>0, <1>3, GotoIs DEF Registry!ReleaseLock, Registry!Places
  <2>2. /\ job[p].at = "release" /\ UNCHANGED <<readers, writer, waiting>>
        /\ statusLock' = [statusLock EXCEPT ![<<v, x>>] = p]
    BY <1>1, <1>3 DEF Registry!ReleaseLock, Registry!lock
  <2>3. p \notin waiting
    BY <1>0, <2>2, LocksOf DEF ToWrite
  <2>4. LockStatus'
    BY <1>0, <1>1, <1>2, <2>1, <2>2, StatusTaken DEF Moves, Releasing
  <2> QED BY <1>0, <2>1, <2>2, <2>3, <2>4, LockQuiet DEF Moves, PlaceOf, Held, ToWrite, Writing
<1>4. CASE /\ job[p].at = "remove" /\ Registry!Goto(p, "forget") /\ waiting' = waiting \cup {p}
           /\ UNCHANGED <<readers, writer, statusLock>>
  <2>1. Moves(p, "forget")
    BY <1>0, <1>4, GotoIs DEF Registry!Places
  <2>2. LockStatus'
    BY <1>0, <1>4, <2>1, StatusKept DEF Moves, Releasing
  <2> QED BY <1>0, <1>4, <2>1, <2>2, LockQuiet DEF Moves, PlaceOf, Held, ToWrite, Writing
<1>5. CASE /\ job[p].at \in {"remove", "forget"} /\ Registry!Goto(p, "idle")
           /\ statusLock' = [statusLock EXCEPT ![<<v, x>>] = Registry!Free]
           /\ waiting' = waiting \ {p} /\ UNCHANGED <<readers, writer>>
  <2>1. Moves(p, "idle")
    BY <1>0, <1>5, GotoIs DEF Registry!Places
  <2>2. LockStatus'
    BY <1>0, <1>1, <1>2, <1>5, <2>1, StatusGiven DEF Moves
  <2>3. Held(p, "idle") = Held(p, job[p].at)
    BY <1>0, <1>5 DEF Held
  <2> QED BY <1>0, <1>5, <2>1, <2>2, <2>3, LockQuiet DEF Moves, PlaceOf, ToWrite, Writing
<1>6. CASE Registry!Remove(p)
  BY <1>4, <1>6 DEF Registry!Remove
<1>7. CASE Registry!Forget(p)
  BY <1>1, <1>5, <1>7 DEF Registry!Forget
<1>8. CASE Registry!RemoveFails(p)
  <2>1. job[p].at = "remove" /\ UNCHANGED <<readers, writer>>
    BY <1>8 DEF Registry!RemoveFails
  <2>2. p \notin waiting
    BY <1>0, <2>1, LocksOf DEF ToWrite
  <2>3. CASE job[p].cmd = "force-release"
    BY <1>4, <1>8, <2>1, <2>3 DEF Registry!RemoveFails
  <2>4. CASE job[p].cmd # "force-release"
    <3>1. /\ Registry!Goto(p, "idle") /\ waiting' = waiting
          /\ statusLock' = [statusLock EXCEPT ![<<v, x>>] = Registry!Free]
      BY <1>1, <1>8, <2>4 DEF Registry!RemoveFails
    <3>2. waiting' = waiting \ {p}
      BY <2>2, <3>1
    <3> QED BY <1>5, <2>1, <3>1, <3>2
  <2> QED BY <2>3, <2>4
<1> QED BY <1>3, <1>6, <1>7, <1>8

(* A step that changes no lock and moves nobody.                           *)
LEMMA LockSame ==
    ASSUME RegIInv, LockInv, UNCHANGED <<job, readers, writer, waiting, statusLock>>
    PROVE  LockInv'
<1>1. LockPlaces'
  <2> SUFFICES ASSUME NEW q \in Procs PROVE PlaceOf(q, job'[q].at)
    BY DEF LockPlaces, PlaceOf
  <2> QED BY DEF LockInv, LockPlaces
<1>2. LockReaders'
  <2>1. readers' \in [Procs -> Nat]
    BY DEF LockInv, LockReaders
  <2> SUFFICES ASSUME NEW q \in Procs PROVE readers'[q] = Held(q, job'[q].at)
    BY <2>1 DEF LockReaders, Held
  <2> QED BY DEF LockInv, LockReaders
<1>3. LockWaiting'
  BY DEF LockInv, LockWaiting
<1>4. LockWriter'
  BY DEF LockInv, LockWriter, Registry!Free
<1>5. LockStatus'
  BY DEF LockInv, LockStatus, Registry!Free
<1> QED BY <1>1, <1>2, <1>3, <1>4, <1>5 DEF LockInv

(* RegisterWorker.                                                         *)
LEMMA LockRegister ==
    ASSUME RegIInv, LockInv,
           Registry!Register \/ Registry!RegisterLock \/ Registry!RegisterUnlock
              \/ Registry!RegisterScan \/ \E u \in Units : Registry!DropUnknown(u)
    PROVE  LockInv'
<1>0. Registrar \in Procs /\ RegTypes
  BY RegistrarIs DEF RegIInv
<1>1. CASE Registry!Register
  <2>1. Moves(Registrar, "register")
    BY <1>0, <1>1, GotoIs DEF Registry!Register, Registry!Places
  <2>2. /\ job[Registrar].at = "idle" /\ UNCHANGED <<readers, writer, statusLock>>
        /\ waiting' = waiting \cup {Registrar}
    BY <1>1 DEF Registry!Register
  <2>3. LockStatus'
    BY <1>0, <2>1, <2>2, StatusKept DEF Moves, Releasing
  <2> QED BY <1>0, <2>1, <2>2, <2>3, LockQuiet DEF Moves, PlaceOf, Held, ToWrite, Writing
<1>2. CASE Registry!RegisterLock
  <2>1. Moves(Registrar, "unknown units")
    BY <1>0, <1>2, GotoIs DEF Registry!RegisterLock, Registry!Places
  <2>2. /\ job[Registrar].at = "register" /\ UNCHANGED <<readers, statusLock>>
        /\ writer' = Registrar /\ waiting' = waiting \ {Registrar}
    BY <1>2 DEF Registry!RegisterLock
  <2>3. LockStatus'
    BY <1>0, <2>1, <2>2, StatusKept DEF Moves, Releasing
  <2> QED BY <1>0, <2>1, <2>2, <2>3, LockQuiet DEF Moves, PlaceOf, Held, ToWrite, Writing
<1>3. CASE Registry!RegisterUnlock
  <2>1. Moves(Registrar, "register scan")
    BY <1>0, <1>3, GotoIs DEF Registry!RegisterUnlock, Registry!Places
  <2>2. /\ job[Registrar].at = "unknown units" /\ UNCHANGED <<readers, waiting, statusLock>>
        /\ writer' = Registry!Free
    BY <1>3 DEF Registry!RegisterUnlock
  <2>3. Registrar \notin waiting
    BY <1>0, <2>2, LocksOf DEF ToWrite
  <2>4. LockStatus'
    BY <1>0, <2>1, <2>2, StatusKept DEF Moves, Releasing
  <2> QED BY <1>0, <2>1, <2>2, <2>3, <2>4, LockQuiet DEF Moves, PlaceOf, Held, ToWrite, Writing
<1>4. CASE Registry!RegisterScan
  <2>1. /\ job[Registrar].at = "register scan"
        /\ UNCHANGED <<readers, writer, waiting, statusLock>>
    BY <1>4 DEF Registry!RegisterScan, Registry!lock
  <2>2. PICK where \in {"idle", "scan"} :
          job'[Registrar].at = where /\ \A q \in Procs : q # Registrar => job'[q] = job[q]
    <3>1. CASE todo = {}
      <4>1. Moves(Registrar, "idle")
        BY <1>0, <1>4, <3>1, GotoIs DEF Registry!RegisterScan, Registry!Places
      <4> QED BY <4>1 DEF Moves
    <3>2. CASE todo # {}
      <4>1. PICK u : job' = [job EXCEPT ![Registrar].at = "scan", ![Registrar].unit = u]
        BY <1>4, <3>2 DEF Registry!RegisterScan
      <4>2. job \in [Procs -> Registry!Jobs] /\ job[Registrar] \in Registry!Jobs
        BY <1>0 DEF RegTypes
      <4>3. PICK new : new = [job[Registrar] EXCEPT !.at = "scan", !.unit = u]
        OBVIOUS
      <4>4. new.at = "scan"
        BY <4>2, <4>3 DEF Registry!Jobs
      <4>5. job' = [job EXCEPT ![Registrar] = new]
        BY <4>1, <4>2, <4>3 DEF Registry!Jobs
      <4>6. job'[Registrar].at = "scan" /\ \A q \in Procs : q # Registrar => job'[q] = job[q]
        BY <1>0, <4>2, <4>4, <4>5
      <4> QED BY <4>6
    <3> QED BY <3>1, <3>2
  <2>3. Registrar \notin waiting
    BY <1>0, <2>1, LocksOf DEF ToWrite
  <2>4. LockStatus'
    BY <1>0, <2>1, <2>2, StatusKept DEF Releasing
  <2> QED BY <1>0, <2>1, <2>2, <2>3, <2>4, LockQuiet DEF PlaceOf, Held, ToWrite, Writing
<1>5. ASSUME NEW u \in Units, Registry!DropUnknown(u) PROVE LockInv'
  <2>1. UNCHANGED <<job, readers, writer, waiting, statusLock>>
    BY <1>5 DEF Registry!DropUnknown, Registry!lock
  <2> QED BY <2>1, LockSame
<1> QED BY <1>1, <1>2, <1>3, <1>4, <1>5

(* Every step of the clients and the registrar keeps the account.          *)
LEMMA LockNext == RegIInv /\ RegIInv' /\ LockInv /\ [Registry!Next]_registryVars => LockInv'
<1> SUFFICES ASSUME RegIInv, RegIInv', LockInv, [Registry!Next]_registryVars PROVE LockInv'
  OBVIOUS
<1>1. ASSUME NEW p \in Clients, Registry!Proceed(p) PROVE LockInv'
  <2>1. p \in Procs
    BY RegistrarIs
  <2> QED BY <1>1, <2>1, LockAllocate, LockLookup, LockScan, LockRelease DEF Registry!Proceed
<1>2. CASE Registry!Register \/ Registry!Registering
  <2>1. Registrar \in Procs
    BY RegistrarIs
  <2> QED BY <1>2, <2>1, LockRegister, LockScan DEF Registry!Registering
<1>3. CASE UNCHANGED registryVars
  <2>1. UNCHANGED <<job, readers, writer, waiting, statusLock>>
    BY <1>3 DEF registryVars
  <2> QED BY <2>1, LockSame
<1> QED BY <1>1, <1>2, <1>3, LockCommand DEF Registry!Next

(* At the start nobody has or wants a lock.                                *)
LEMMA LockInit == Registry!Init => LockInv
<1> SUFFICES ASSUME Registry!Init PROVE LockInv
  OBVIOUS
<1>1. \A p \in Procs : job[p].at = "idle" /\ readers[p] = 0
  BY IdleIs DEF Registry!Init, Procs
<1>2. LockPlaces
  BY <1>1 DEF LockPlaces, PlaceOf
<1>3. LockReaders
  <2>1. readers \in [Procs -> Nat]
    BY DEF Registry!Init, Procs
  <2> QED BY <1>1, <2>1 DEF LockReaders, Held
<1>4. LockWaiting
  BY <1>1 DEF Registry!Init, LockWaiting, ToWrite
<1>5. LockWriter
  BY DEF Registry!Init, LockWriter
<1>6. LockStatus
  <2>1. statusLock = [o \in Units \X {"worker", "unknown"} |-> Registry!Free]
    BY DEF Registry!Init
  <2>2. \A u \in Units, o \in {"worker", "unknown"} : statusLock[<<u, o>>] = Registry!Free
    BY <2>1
  <2> QED BY <2>1, <2>2, FreeIs DEF LockStatus
<1> QED BY <1>2, <1>3, <1>4, <1>5, <1>6 DEF LockInv

(* A process at one of these places waits for nothing.                     *)
Unhindered == {"save", "found", "checked", "load", "scan end", "remove", "register scan"}

(* Whoever holds a status lock that somebody wants is a client that        *)
(* releases the unit.                                                      *)
LEMMA StatusHolder ==
    ASSUME RegIInv, LockInv, NEW u \in Units, NEW o \in {"worker", "unknown"},
           statusLock[<<u, o>>] # Registry!Free
    PROVE  \E r \in Clients : job[r].at \in Releasing /\ job[r].object = o
<1>1. statusLock[<<u, o>>] \in Procs
  BY DEF LockInv, LockStatus
<1>2. PICK r \in Procs : statusLock[<<u, o>>] = r
  BY <1>1
<1>3. job[r].at \in Releasing /\ job[r].object = o
  BY <1>2 DEF LockInv, LockStatus
<1>4. r # Registrar
  BY <1>3 DEF LockInv, LockPlaces, PlaceOf, Releasing
<1>5. r \in Clients
  BY <1>4 DEF Procs, Registry!Processes
<1> QED BY <1>3, <1>5

(* If there is no jam and nobody can go on, nobody is busy: the one that   *)
(* holds the lock to write would be in a jam, then one that holds it to    *)
(* read, so it can be had, and with it the status locks.                   *)
LEMMA NobodyLeft ==
    ASSUME RegIInv, LockInv, ~Registry!Jam, \A p \in Procs : ~Registry!Ready(p)
    PROVE  \A p \in Procs : job[p].at = "idle"
<1>1. \A p \in Procs : job[p].at \notin Unhindered
  BY DEF Registry!Ready, Unhindered
<1>2. \A p \in Procs : p # Registrar => p \in Clients
  BY DEF Procs, Registry!Processes
<1>3. ASSUME NEW p \in Procs, job[p].at = "allocate" PROVE FALSE
  <2>1. dir[job[p].unit] = "none" /\ active[job[p].unit] # "none"
    BY <1>3 DEF Registry!Ready
  <2>2. p \in Clients
    BY <1>2, <1>3 DEF LockInv, LockPlaces, PlaceOf
  <2> QED BY <1>3, <2>1, <2>2 DEF Registry!Jam
<1>4. writer = Registry!Free
  <2> SUFFICES ASSUME writer # Registry!Free PROVE FALSE
    OBVIOUS
  <2>1. writer \in Procs /\ job[writer].at = "unknown units"
    BY <1>1, <1>3 DEF LockInv, LockWriter, Writing, Unhindered
  <2>2. job[Registrar].at = "unknown units"
    BY <2>1 DEF LockInv, LockPlaces, PlaceOf
  <2>3. todo # {} /\ \A u \in todo : statusLock[<<u, "unknown">>] # Registry!Free
    BY <2>2, RegistrarIs DEF Registry!Ready
  <2>4. PICK u \in Units : statusLock[<<u, "unknown">>] # Registry!Free
    BY <2>3 DEF RegIInv, RegTypes
  <2>5. PICK r \in Clients : job[r].at \in Releasing /\ job[r].object = "unknown"
    BY <2>4, StatusHolder
  <2> QED BY <2>2, <2>5 DEF Registry!Jam, Releasing
<1>5. ASSUME NEW p \in Procs, readers[p] # 0 PROVE FALSE
  <2>1. readers[p] = Held(p, job[p].at) /\ readers[p] \in Nat
    BY LocksOf
  <2>2. readers[p] > 0
    BY <1>5, <2>1
  <2>3. p # Registrar /\ job[p].at \in {"scan", "insert"}
    BY <1>1, <1>5, <2>1 DEF Held, Unhindered
  <2>4. p \in Clients
    BY <1>2, <2>3
  <2>5. job[p].at = "scan" => waiting # {}
    BY <1>4 DEF Registry!Ready, Registry!CanRead
  <2> QED BY <2>2, <2>3, <2>4, <2>5 DEF Registry!Jam
<1>6. Registry!CanWrite
  BY <1>4, <1>5 DEF Registry!CanWrite, Procs
<1>7. \A p \in Procs : job[p].at \notin ToWrite
  BY <1>6 DEF Registry!Ready, ToWrite
<1>8. Registry!CanRead
  BY <1>4, <1>7 DEF LockInv, LockWaiting, Registry!CanRead
<1>9. \A p \in Procs : job[p].at # "scan"
  BY <1>8 DEF Registry!Ready
<1>10. ASSUME NEW p \in Procs, job[p].at \in {"use", "release"} PROVE FALSE
  <2>1. statusLock[<<job[p].unit, job[p].object>>] # Registry!Free
    BY <1>10 DEF Registry!Ready
  <2>2. job[p].unit \in Units /\ job[p].object \in {"worker", "unknown"}
    BY <1>10, JobIs
  <2>3. PICK r \in Clients : job[r].at \in Releasing
    BY <2>1, <2>2, StatusHolder
  <2>4. r \in Procs
    BY RegistrarIs
  <2> QED BY <1>1, <1>7, <2>3, <2>4 DEF Releasing, Unhindered, ToWrite
<1>11. \A p \in Procs : job[p].at # "unknown units"
  BY <1>4, FreeIs DEF RegIInv, RegWriter
<1> SUFFICES ASSUME NEW p \in Procs PROVE job[p].at = "idle"
  OBVIOUS
<1>12. job[p].at \in Registry!Places
  BY DEF RegIInv, RegTypes, Registry!Jobs
<1> QED BY <1>1, <1>3, <1>7, <1>9, <1>10, <1>11, <1>12 DEF Registry!Places, Unhindered, ToWrite

(* Processes that use the register and all wait for each other are in one  *)
(* of the three jams: findUnit scanning with the lock held, AllocateUnit   *)
(* asked for an active ID without a directory, RegisterWorker and Release  *)
(* taking two locks in opposite order; nothing else blocks them for ever.  *)
THEOREM NothingElseBlocks == ControlSpec => []OnlyJamsBlock
<1>1. ControlInit => RegIInv /\ LockInv
  BY RegInit, LockInit DEF ControlInit
<1>2. RegIInv /\ LockInv /\ [ControlNext]_controlVars => (RegIInv /\ LockInv)'
  <2> SUFFICES ASSUME RegIInv, LockInv, [ControlNext]_controlVars PROVE (RegIInv /\ LockInv)'
    OBVIOUS
  <2>1. [Registry!Next]_registryVars
    BY DEF ControlNext, controlVars
  <2>2. RegIInv'
    BY <2>1, RegNext
  <2> QED BY <2>1, <2>2, LockNext
<1>3. RegIInv /\ LockInv => OnlyJamsBlock
  <2> SUFFICES ASSUME RegIInv, LockInv, ~Registry!Jam, \A p \in Procs : ~Registry!Ready(p)
               PROVE  \A p \in Procs : job[p].at = "idle"
    BY DEF OnlyJamsBlock, Registry!OnlyJamsBlock, Procs
  <2> QED BY NobodyLeft
<1> QED BY <1>1, <1>2, <1>3, PTL DEF ControlSpec
=============================================================================
