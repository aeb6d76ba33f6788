----------------------------- MODULE JobContext -----------------------------
(***************************************************************************)
(* The JobContext of pkg/utils/job_context.go: a context and a WaitGroup   *)
(* in one object, on which one job at a time may run.  A remote work unit  *)
(* keeps one (topJC) and starts every start, restart, cancel and release   *)
(* as a job on it, from whatever control connection asked for it.          *)
(*                                                                         *)
(* A job is named by the number of NewJob calls that had succeeded when it *)
(* started, so mw.Ctx, mw.JcCancel and mw.Wg, which NewJob replaces        *)
(* together under RunningLock, are all "those of job cur".  The sections   *)
(* under RunningLock are single steps.  What the code does outside the     *)
(* lock (reading mw.Wg in Wait, in WorkerDone and in the goroutine that    *)
(* ends the job, reading mw.JcCancel in Cancel) are steps of their own and *)
(* use whatever job is current when they are taken.                        *)
(***************************************************************************)
EXTENDS Integers, FiniteSets

CONSTANTS
    Callers,      \* goroutines that call NewJob, or Cancel and Wait
    MaxWorkers,   \* bound on the "workers" argument of NewJob
    MaxCalls      \* bound on the number of calls made to NewJob

ASSUME JobContextAssumption ==
    /\ IsFiniteSet(Callers)
    /\ MaxWorkers \in Nat \ {0}
    /\ MaxCalls \in Nat

NoJob == 0
Jobs == 0..MaxCalls        \* NoJob is the object before its first NewJob

VARIABLES
    jcRunning,   \* mw.JcRunning
    cur,         \* the job whose Ctx, JcCancel and Wg the object holds
    cancelled,   \* [Jobs -> BOOLEAN]: the context of the job is cancelled
    wg,          \* [Jobs -> Int]: the counter of the job's WaitGroup
    live,        \* [Jobs -> Nat]: workers of the job still to call WorkerDone
    reaper,      \* [Jobs -> ...]: the goroutine that NewJob leaves behind
    reaperWg,    \* [Jobs -> Jobs]: the WaitGroup that goroutine waits on
    pc,          \* [Callers -> ...]: where each caller is
    waitsFor,    \* [Callers -> Jobs]: the WaitGroup the caller waits on
    calls        \* the number of NewJob calls made so far

vars == <<jcRunning, cur, cancelled, wg, live, reaper, reaperWg, pc,
          waitsFor, calls>>

jobVars == <<jcRunning, cur, cancelled, wg, live, reaper, reaperWg>>

PCs == {"idle",        \* outside the object
        "tryNewJob",   \* in NewJob with returnIfRunning, about to lock
        "newJob",      \* in NewJob without returnIfRunning, about to lock
        "unlocked",    \* found a job running, cancelled it and unlocked
        "newJobWait",  \* in the mw.Wait() of NewJob
        "wait"}        \* in a Wait of its own

-----------------------------------------------------------------------------
Init ==
    /\ jcRunning = FALSE
    /\ cur = NoJob
    /\ cancelled = [j \in Jobs |-> FALSE]
    /\ wg = [j \in Jobs |-> 0]
    /\ live = [j \in Jobs |-> 0]
    /\ reaper = [j \in Jobs |-> "none"]
    /\ reaperWg = [j \in Jobs |-> NoJob]
    /\ pc = [c \in Callers |-> "idle"]
    /\ waitsFor = [c \in Callers |-> NoJob]
    /\ calls = 0

(* A caller enters NewJob, with returnIfRunning true or false.             *)
Call(c) ==
    /\ pc[c] = "idle"
    /\ calls < MaxCalls
    /\ calls' = calls + 1
    /\ \E entry \in {"tryNewJob", "newJob"} : pc' = [pc EXCEPT ![c] = entry]
    /\ UNCHANGED <<jobVars, waitsFor>>

(* The loop test under RunningLock finds a job and returnIfRunning is      *)
(* true: NewJob returns false.                                             *)
ReturnBusy(c) ==
    /\ pc[c] = "tryNewJob"
    /\ jcRunning
    /\ pc' = [pc EXCEPT ![c] = "idle"]
    /\ UNCHANGED <<jobVars, waitsFor, calls>>

(* The loop test finds a job and returnIfRunning is false: NewJob cancels  *)
(* it and unlocks.                                                         *)
CancelRunning(c) ==
    /\ pc[c] = "newJob"
    /\ jcRunning
    /\ cancelled' = [cancelled EXCEPT ![cur] = TRUE]
    /\ pc' = [pc EXCEPT ![c] = "unlocked"]
    /\ UNCHANGED <<jcRunning, cur, wg, live, reaper, reaperWg, waitsFor, calls>>

(* mw.Wait() picks up the WaitGroup of the current job, without the lock.  *)
EnterWait(c) ==
    /\ pc[c] = "unlocked"
    /\ waitsFor' = [waitsFor EXCEPT ![c] = cur]
    /\ pc' = [pc EXCEPT ![c] = "newJobWait"]
    /\ UNCHANGED <<jobVars, calls>>

(* The WaitGroup is at zero: the caller goes back for the lock.            *)
LeaveWait(c) ==
    /\ pc[c] = "newJobWait"
    /\ wg[waitsFor[c]] = 0
    /\ pc' = [pc EXCEPT ![c] = "newJob"]
    /\ UNCHANGED <<jobVars, waitsFor, calls>>

(* NewJob installs a new context and WaitGroup, leaves the reaper          *)
(* goroutine behind and returns true.  The caller launches the number of   *)
(* workers it announced.                                                   *)
Install(c) ==
    /\ pc[c] \in {"tryNewJob", "newJob"}
    /\ jcRunning' = TRUE
    /\ cur' = cur + 1
    /\ \E workers \in 1..MaxWorkers :
          /\ wg' = [wg EXCEPT ![cur'] = workers]
          /\ live' = [live EXCEPT ![cur'] = workers]
    /\ reaper' = [reaper EXCEPT ![cur'] = "started"]
    /\ pc' = [pc EXCEPT ![c] = "idle"]
    /\ UNCHANGED <<cancelled, reaperWg, waitsFor, calls>>

(* Faulty variant: an "if" in the place of the loop, no second look.       *)
StartJobUnchecked(c) == Install(c)

(* The loop test finds no job running.                                     *)
StartJob(c) == ~jcRunning /\ Install(c)

(* The reaper goroutine evaluates mw.Wg and begins to wait on it.          *)
ReaperWaits(j) ==
    /\ reaper[j] = "started"
    /\ reaper' = [reaper EXCEPT ![j] = "waiting"]
    /\ reaperWg' = [reaperWg EXCEPT ![j] = cur]
    /\ UNCHANGED <<jcRunning, cur, cancelled, wg, live, pc, waitsFor, calls>>

(* The reaper, under the lock, ends the job and cancels the context the    *)
(* object holds.                                                           *)
EndJob(j) ==
    /\ reaper[j] = "waiting"
    /\ jcRunning' = FALSE
    /\ cancelled' = [cancelled EXCEPT ![cur] = TRUE]
    /\ reaper' = [reaper EXCEPT ![j] = "ended"]
    /\ UNCHANGED <<cur, wg, live, reaperWg, pc, waitsFor, calls>>

(* Faulty variant: the reaper forgets to reset JcRunning.                  *)
ReaperForgets(j) ==
    /\ reaper[j] = "waiting"
    /\ wg[reaperWg[j]] = 0
    /\ reaper' = [reaper EXCEPT ![j] = "ended"]
    /\ UNCHANGED <<jcRunning, cur, cancelled, wg, live, reaperWg, pc, waitsFor,
                   calls>>

(* mw.Wg.Wait() returns: all workers of the job are done.                  *)
ReaperEnds(j) == wg[reaperWg[j]] = 0 /\ EndJob(j)

(* A worker of job j finishes and calls WorkerDone, which takes one off    *)
(* the WaitGroup the object holds at that moment.                          *)
WorkerDone(j) ==
    /\ live[j] > 0
    /\ live' = [live EXCEPT ![j] = @ - 1]
    /\ wg' = [wg EXCEPT ![cur] = @ - 1]
    /\ UNCHANGED <<jcRunning, cur, cancelled, reaper, reaperWg, pc, waitsFor,
                   calls>>

(* Cancel(), called by a worker, by an expiration timer or by a caller on  *)
(* its way to Wait().  Before the first NewJob it does nothing.            *)
Cancel ==
    /\ cur # NoJob
    /\ cancelled' = [cancelled EXCEPT ![cur] = TRUE]
    /\ UNCHANGED <<jcRunning, cur, wg, live, reaper, reaperWg, pc, waitsFor,
                   calls>>

(* Wait(), called from outside.  Before the first NewJob it just returns.  *)
Wait(c) ==
    /\ pc[c] = "idle"
    /\ cur # NoJob
    /\ waitsFor' = [waitsFor EXCEPT ![c] = cur]
    /\ pc' = [pc EXCEPT ![c] = "wait"]
    /\ UNCHANGED <<jobVars, calls>>

WaitReturns(c) ==
    /\ pc[c] = "wait"
    /\ wg[waitsFor[c]] = 0
    /\ pc' = [pc EXCEPT ![c] = "idle"]
    /\ UNCHANGED <<jobVars, waitsFor, calls>>

CallerStep(c) ==
    \/ ReturnBusy(c) \/ CancelRunning(c) \/ EnterWait(c) \/ LeaveWait(c)
    \/ StartJob(c) \/ WaitReturns(c)

ReaperStep(j) == ReaperWaits(j) \/ ReaperEnds(j)

Next ==
    \/ \E c \in Callers : Call(c) \/ Wait(c) \/ CallerStep(c)
    \/ \E j \in Jobs : ReaperStep(j) \/ WorkerDone(j)
    \/ Cancel

Spec == Init /\ [][Next]_vars

(* Goroutines that can go on do, and a worker whose context is cancelled   *)
(* stops: the contract in the type's comment.  Nothing makes a worker that *)
(* is not cancelled stop, and nobody has to call anything.                 *)
FairSpec ==
    /\ Spec
    /\ \A c \in Callers : WF_vars(CallerStep(c))
    /\ \A j \in Jobs : WF_vars(ReaperStep(j))
    /\ \A j \in Jobs : WF_vars(cancelled[j] /\ WorkerDone(j))

-----------------------------------------------------------------------------
(* Types of the fields and locals of job_context.go.                       *)
TypeOK ==
    /\ jcRunning \in BOOLEAN
    /\ cur \in Jobs
    /\ cancelled \in [Jobs -> BOOLEAN]
    /\ wg \in [Jobs -> 0..MaxWorkers]
    /\ live \in [Jobs -> 0..MaxWorkers]
    /\ reaper \in [Jobs -> {"none", "started", "waiting", "ended"}]
    /\ reaperWg \in [Jobs -> Jobs]
    /\ pc \in [Callers -> PCs]
    /\ waitsFor \in [Callers -> Jobs]
    /\ calls \in 0..MaxCalls

(* "A single JobContext can only run one job at a time": whatever callers  *)
(* race through NewJob, no two jobs ever have workers that are not done.   *)
OneJobAtATime ==
    \A j, k \in Jobs : live[j] > 0 /\ live[k] > 0 => j = k

(* WorkerDone takes its unit off the WaitGroup of its own job, although it *)
(* reads mw.Wg without the lock: every WaitGroup counts exactly the        *)
(* workers of its job, so none goes negative (a panic) or stays above zero *)
(* when its job is over (a Wait that never returns).                       *)
WorkersMatchWaitGroup ==
    \A j \in Jobs : wg[j] = live[j]

(* NewJob replaces a job only when all its workers are done and its        *)
(* context is cancelled, so no goroutine of a past job runs on under a     *)
(* live context ("cancelled and waited on prior to starting the new job"). *)
PriorJobIsOver ==
    [][cur' # cur /\ cur # NoJob => live[cur] = 0 /\ cancelled[cur]]_vars

(* Cancelling a job ends it: its workers stop and JcRunning becomes false  *)
(* or the job has been replaced, whoever is waiting and whatever other     *)
(* calls are under way.                                                    *)
CancelledJobEnds ==
    <>[](\A j \in Jobs : cancelled[j] => live[j] = 0 /\ (~jcRunning \/ cur # j))

(* "If a prior job is running, it is cancelled": a NewJob called without   *)
(* returnIfRunning comes to its return, because it cancels whatever job it *)
(* has to wait for.                                                        *)
NewJobReturns ==
    \A c \in Callers : pc[c] = "newJob" ~> pc[c] = "idle"
=============================================================================
