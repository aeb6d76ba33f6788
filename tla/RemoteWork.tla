----------------------------- MODULE RemoteWork -----------------------------
(***************************************************************************)
(* One unit of remote work: pkg/workceptor/remote_work.go, with the unit   *)
(* it stands for on another node.                                          *)
(*                                                                         *)
(* The unit has a job context with one worker: it submits the work, or     *)
(* passes on a cancellation or release, and then monitors the remote unit  *)
(* with two goroutines, one for the status and one for the output.  That   *)
(* jobs do not overlap, and that NewJob waits for the job before it, is    *)
(* shown in JobContext and used here.  Around the job are the control      *)
(* session that submitted or adopted the unit, the expiration timer and    *)
(* the callers of Cancel and Release.  The connection to the other node    *)
(* may fail at any point, and the node may crash and be started again.     *)
(*                                                                         *)
(* The remote unit is external: it is what the control service of the      *)
(* other node does with the commands sent to it.  Identifiers, signatures, *)
(* details and work types are left out, and so are updates of the status   *)
(* torn by a crash, which CommandWork looks at.                            *)
(***************************************************************************)
EXTENDS Naturals

CONSTANTS
    Callers,      \* control sessions that cancel and release
    MaxCrashes,   \* bound on the number of crashes
    MaxOutput     \* bound on the output of the work

ASSUME RemoteWorkAssumption ==
    /\ MaxCrashes \in Nat /\ MaxOutput \in Nat
    /\ Callers \intersect {"none", "session"} = {}    \* values of sync

States == {"Pending", "Running", "Succeeded", "Failed", "Canceled"}
Status == [state : States, size : 0..MaxOutput,
           started : BOOLEAN,        \* RemoteStarted
           adopted : BOOLEAN,
           cancelled : BOOLEAN,      \* LocalCancelled
           released : BOOLEAN]       \* LocalReleased

VARIABLES
    st,        \* the status, on disk and in memory
    dir,       \* the unit directory exists
    active,    \* the unit is in activeUnits
    stdout,    \* the size of the local output file
    session,   \* the control session that submits or adopts the unit, or
               \* scanForUnit that restarts it
    job,       \* the job of topJC: "none", "start", "monitor", "cancel",
               \* "release"
    at,        \* where its worker is
    live,      \* the job's context is not cancelled
    sync,      \* whose call still waits for the worker's first attempt
    smon,      \* monitorRemoteStatus runs
    omon,      \* where monitorRemoteStdout is
    sub,       \* the context of subJC, as far as the monitors cancel it
    expiry,    \* setExpiration
    call,      \* the calls of cancelOrRelease
    remote,    \* the remote unit
    output,    \* how much output it has
    crashes,
    starts,    \* how often the work was started on the other node
    success,   \* the work has succeeded there
    early,     \* a release found that the work had not started
    forced,    \* a release was forced
    gaveUp     \* a monitor of this job has met an error it does not try again

unit == <<st, dir, active, stdout>>
worker == <<job, at, live, sync>>
monitors == <<smon, omon, sub>>
far == <<remote, output, starts, success>>
history == <<crashes, early, forced, gaveUp>>
vars == <<unit, session, worker, monitors, expiry, call, far, history>>

IsComplete(state) == state \in {"Succeeded", "Failed"}

(* UpdateFullStatus and UpdateBasicStatus.                                 *)
Update(new) == st' = IF dir THEN new ELSE st
SetState(state, size) == [st EXCEPT !.state = state, !.size = size]

-----------------------------------------------------------------------------
Idle == [pc |-> "idle", op |-> "cancel", local |-> FALSE]

NewStatus == [state |-> "Pending", size |-> 0, started |-> FALSE, adopted |-> FALSE,
              cancelled |-> FALSE, released |-> FALSE]

(* A new unit waits for its input, or another node's unit is to be adopted *)
(* that somebody else has submitted.                                       *)
Init ==
    /\ st = NewStatus
    /\ dir = TRUE /\ active = TRUE /\ stdout = 0
    /\ \/ session = "input" /\ remote = "none" /\ starts = 0
       \/ session = "adopt" /\ remote = "input" /\ starts = 0
       \/ session = "adopt" /\ remote = "running" /\ starts = 1
    /\ job = "none" /\ at = "none" /\ live = FALSE /\ sync = "none"
    /\ smon = FALSE /\ omon = "off" /\ sub = FALSE
    /\ expiry = "off"
    /\ call = [c \in Callers |-> Idle]
    /\ output = 0 /\ crashes = 0 /\ success = FALSE
    /\ early = FALSE /\ forced = FALSE /\ gaveUp = FALSE

-----------------------------------------------------------------------------
(* The job context, as far as JobContext does not speak of it.             *)

(* NewJob, and the worker's first attempt on the goroutine of the caller.  *)
NewJob(kind, who) ==
    /\ job = "none"
    /\ job' = kind /\ at' = "dial" /\ live' = TRUE /\ sync' = who

(* The callers in Wait go on when the job is over.                         *)
Woken(calls) == [c \in Callers |->
    IF calls[c].pc = "waiting" THEN [calls[c] EXCEPT !.pc = "over"] ELSE calls[c]]

(* The call that waited for the first attempt returns: with an error, for  *)
(* which a session writes a status, or without.                            *)
Returns(failed) ==
    /\ session' = IF sync # "session" THEN session
                  ELSE IF failed THEN (IF session = "restarting" THEN "refail" ELSE "fail")
                  ELSE "done"
    /\ active' = (active \/ (sync = "session" /\ session = "restarting" /\ ~failed))
    /\ sync' = "none"

(* The callers after the return.                                           *)
Returned == [c \in Callers |-> IF sync = c THEN Idle ELSE call[c]]

(* WorkerDone, by the only worker of the job.                              *)
WorkerDone(failed) ==
    /\ job' = "none" /\ at' = "none" /\ live' = live
    /\ Returns(failed)
    /\ call' = Woken(Returned)

(* The worker goes on, and the call has returned.                          *)
GoesOn(where) ==
    /\ at' = where
    /\ Returns(FALSE)
    /\ call' = Returned
    /\ UNCHANGED <<job, live>>

Moves(where) == at' = where /\ UNCHANGED <<job, live, sync, session, call, active>>

-----------------------------------------------------------------------------
(* The control session.                                                    *)

InputFails ==
    /\ session = "input"
    /\ Update(SetState("Failed", 0))
    /\ session' = "done"
    /\ UNCHANGED <<dir, active, stdout, worker, monitors, expiry, call, far, history>>

InputRead ==
    /\ session = "input"
    /\ Update(SetState("Pending", 0))
    /\ session' = "start"
    /\ UNCHANGED <<dir, active, stdout, worker, monitors, expiry, call, far, history>>

(* Start, with or without a time to live.                                  *)
Start ==
    /\ session = "start"
    /\ ~st.started
    /\ NewJob("start", "session")
    /\ expiry' \in {"off", "armed"}
    /\ session' = "starting"
    /\ UNCHANGED <<unit, monitors, call, far, history>>

(* The "adopt" command, up to Restart.                                     *)
Adopt ==
    /\ session = "adopt"
    /\ Update([SetState("Pending", 0) EXCEPT !.started = TRUE, !.adopted = TRUE])
    /\ session' = "adopted"
    /\ UNCHANGED <<dir, active, stdout, worker, monitors, expiry, call, far, history>>

(* startOrRestart(FALSE): resume a release, a cancellation, or monitoring. *)
ResumeKind ==
    IF st.released THEN "release" ELSE IF st.cancelled THEN "cancel" ELSE "monitor"

Monitoring == smon' = TRUE /\ omon' = "check" /\ sub' = TRUE

(* Restart from session state s; afterwards the session is in state then.  *)
Resume(from, then) ==
    /\ session = from
    /\ st.started
    /\ job = "none"
    /\ IF ResumeKind = "monitor"
         THEN /\ job' = "monitor" /\ at' = "monitor" /\ live' = TRUE /\ sync' = "none"
              /\ session' = "done"
              /\ active' = (active \/ from = "down")
              /\ Monitoring
         ELSE /\ NewJob(ResumeKind, "session")
              /\ session' = then
              /\ UNCHANGED <<active, monitors>>
    /\ UNCHANGED <<st, dir, stdout, expiry, call, far, history>>

(* Faulty variant: a unit that had not started is started.                 *)
RestartAgain ==
    \/ dir /\ Resume("down", "restarting")
    \/ /\ session = "down" /\ dir /\ ~st.started
       /\ NewJob("start", "session")
       /\ session' = "restarting"
       /\ UNCHANGED <<unit, monitors, expiry, call, far, history>>

(* scanForUnit after a crash.  Restart refuses a unit that had not started.*)
Restart ==
    \/ dir /\ Resume("down", "restarting")
    \/ /\ session = "down" /\ dir /\ ~st.started
       /\ session' = "refail"
       /\ UNCHANGED <<unit, worker, monitors, expiry, call, far, history>>

ResumeAdopted ==
    \/ Resume("adopted", "starting")
    \/ /\ session = "adopted"
       /\ ~st.started \/ job # "none"      \* released, or being released
       /\ session' = "fail"
       /\ UNCHANGED <<unit, worker, monitors, expiry, call, far, history>>

(* Start or Restart has failed.                                            *)
SessionFails ==
    \/ /\ session = "fail"
       /\ Update(SetState("Failed", 0))
       /\ active' = active
       /\ session' = "done"
       /\ UNCHANGED <<dir, stdout, worker, monitors, expiry, call, far, history>>
    \/ /\ session = "refail"
       /\ Update(SetState("Failed", stdout))
       /\ active' = TRUE
       /\ session' = "done"
       /\ UNCHANGED <<dir, stdout, worker, monitors, expiry, call, far, history>>

-----------------------------------------------------------------------------
(* The worker of the job: connecting.                                      *)

(* ConnectToRemote, in the first attempt or in the loop of GetConnection.  *)
Connect ==
    /\ at \in {"dial", "redial"}
    /\ live
    /\ Moves(IF job = "start" THEN "submit" ELSE "signal")
    /\ UNCHANGED <<st, dir, stdout, monitors, expiry, far, history>>

(* The first attempt fails: ErrPending, and the loop goes on alone.        *)
DialFails ==
    /\ at = "dial"
    /\ GoesOn("redial")
    /\ UNCHANGED <<st, dir, stdout, monitors, expiry, far, history>>

(* The loop ends because the context is cancelled.                         *)
RedialStops ==
    /\ at = "redial"
    /\ ~live
    /\ WorkerDone(FALSE)
    /\ UNCHANGED <<st, dir, stdout, monitors, expiry, far, history>>

(* Or by a TLS error before the work has started.                          *)
RedialFatal ==
    /\ at = "redial"
    /\ dir
    /\ ~st.started
    /\ Update([st EXCEPT !.state = "Failed"])
    /\ WorkerDone(FALSE)
    /\ UNCHANGED <<dir, stdout, monitors, expiry, far, history>>

-----------------------------------------------------------------------------
(* The worker of the job: StartRemoteUnit.                                 *)

Exchange == {"submit", "reply", "stdin", "confirm", "signal", "answer"}

(* A read or write fails, the context is cancelled during a read, or the   *)
(* other node answers with an error.                                       *)
ExchangeFails ==
    /\ at \in Exchange
    /\ WorkerDone(TRUE)
    /\ UNCHANGED <<st, dir, stdout, monitors, expiry, far, history>>

(* The other node creates a unit, if the identifier is free there.         *)
SubmitArrives ==
    /\ at = "submit"
    /\ remote \in {"none", "gone"}
    /\ remote' = "input"
    /\ output' = 0
    /\ Moves("reply")
    /\ UNCHANGED <<st, dir, stdout, monitors, expiry, starts, success, history>>

(* Its answer: the remote unit's identifier is saved.                      *)
SubmitAnswered ==
    /\ at = "reply"
    /\ Moves("stdin")
    /\ UNCHANGED <<st, dir, stdout, monitors, expiry, far, history>>

(* All of stdin is sent.                                                   *)
StdinSent ==
    /\ at = "stdin"
    /\ dir
    /\ remote' = IF remote = "input" THEN "ready" ELSE remote
    /\ Moves("confirm")
    /\ UNCHANGED <<st, dir, stdout, monitors, expiry, output, starts, success, history>>

(* The answer says that the work was started: go on and monitor it.        *)
Confirmed ==
    /\ at = "confirm"
    /\ starts > 0
    /\ Update([st EXCEPT !.started = TRUE])
    /\ GoesOn("monitor")
    /\ Monitoring
    /\ UNCHANGED <<dir, stdout, expiry, far, history>>

-----------------------------------------------------------------------------
(* The worker of the job: cancelOrReleaseRemoteUnit.                       *)

(* What the other node does with a cancellation or release.                *)
Obeys(release) ==
    remote' = IF release THEN "gone" ELSE IF remote = "running" THEN "Canceled" ELSE remote

SignalArrives ==
    /\ at = "signal"
    /\ remote \notin {"none", "gone"}
    /\ Obeys(job = "release")
    /\ Moves("answer")
    /\ UNCHANGED <<st, dir, stdout, monitors, expiry, output, starts, success, history>>

(* Faulty variant: the unit is removed here whatever the answer is.        *)
SignalAnsweredAnyhow ==
    \/ /\ at = "answer"
       /\ job = "cancel"
       /\ GoesOn("monitor")
       /\ Monitoring
       /\ UNCHANGED <<st, dir, stdout, expiry, far, history>>
    \/ /\ at \in {"signal", "answer"}
       /\ job = "release"
       /\ GoesOn("remove")
       /\ UNCHANGED <<st, dir, stdout, monitors, expiry, far, history>>

(* The answer arrives: monitor a cancelled unit, remove a released one.    *)
SignalAnswered ==
    \/ /\ at = "answer"
       /\ job = "cancel"
       /\ GoesOn("monitor")
       /\ Monitoring
       /\ UNCHANGED <<st, dir, stdout, expiry, far, history>>
    \/ /\ at = "answer"
       /\ job = "release"
       /\ GoesOn("remove")
       /\ UNCHANGED <<st, dir, stdout, monitors, expiry, far, history>>

(* BaseWorkUnit.Release(FALSE), which may fail.                            *)
RemoveUnit ==
    /\ at = "remove"
    /\ \/ dir' = FALSE /\ active' = FALSE
       \/ UNCHANGED <<dir, active>>
    /\ job' = "none" /\ at' = "none"
    /\ call' = Woken(call)
    /\ UNCHANGED <<st, stdout, live, sync, session, monitors, expiry, far, history>>

-----------------------------------------------------------------------------
(* monitorRemoteUnit.                                                      *)

MonitorCtx == live /\ sub

(* What "work status" says of the remote unit.                             *)
Polled ==
    CASE remote \in {"input", "ready"} -> {<<"Pending", 0>>}
      [] remote = "running" -> {"Running"} \X (0..output)
      [] OTHER -> {<<remote, output>>}

StatusExits == smon' = FALSE /\ sub' = FALSE /\ UNCHANGED omon

(* A status is received and saved.                                         *)
Poll ==
    /\ smon
    /\ remote # "gone"
    /\ \E p \in Polled :
          /\ ~(st.adopted /\ p[1] = "Pending")
          /\ Update(SetState(p[1], p[2]))
    /\ UNCHANGED <<dir, active, stdout, session, worker, monitors, expiry, call, far,
                   history>>

(* Faulty variant: a unit that is gone is taken to have ended well.        *)
PollFinalHopeful ==
    /\ smon
    /\ remote = "gone" \/ (st.adopted /\ remote \in {"input", "ready"})
    /\ Update([st EXCEPT !.state = IF remote = "gone" THEN "Succeeded" ELSE "Failed"])
    /\ StatusExits
    /\ UNCHANGED <<dir, active, stdout, session, worker, expiry, call, far, history>>

(* "Adopted remote work unit was never started", or "Remote work unit is   *)
(* gone".                                                                  *)
PollFinal ==
    /\ smon
    /\ remote = "gone" \/ (st.adopted /\ remote \in {"input", "ready"})
    /\ Update([st EXCEPT !.state = "Failed"])
    /\ StatusExits
    /\ UNCHANGED <<dir, active, stdout, session, worker, expiry, call, far, history>>

(* The context is cancelled, or the status cannot be saved any more.       *)
StatusStops ==
    /\ smon
    /\ ~MonitorCtx \/ ~dir
    /\ StatusExits
    /\ UNCHANGED <<unit, session, worker, expiry, call, far, history>>

(* The answer is an error other than that the unit is unknown, or no       *)
(* status: the monitor ends and the unit keeps the state it has.           *)
StatusGivesUp ==
    /\ smon /\ MonitorCtx
    /\ StatusExits
    /\ gaveUp' = TRUE
    /\ UNCHANGED <<unit, session, worker, expiry, call, far, crashes, early, forced>>

(* Faulty variant: the monitor does not compare the sizes.                 *)
OutputIgnored == TRUE

(* All output that the status speaks of is here.                           *)
OutputHere == stdout >= st.size

OutputExits == omon' = "off" /\ sub' = FALSE /\ UNCHANGED smon

OutputDone ==
    /\ omon = "check"
    /\ dir
    /\ IsComplete(st.state) /\ OutputHere
    /\ OutputExits
    /\ UNCHANGED <<unit, session, worker, expiry, call, far, history>>

(* "work results" from the end of the local file.                          *)
StreamBegins ==
    /\ omon = "check"
    /\ dir
    /\ ~OutputHere
    /\ remote # "gone"
    /\ omon' = "stream"
    /\ UNCHANGED <<unit, session, worker, smon, sub, expiry, call, far, history>>

StreamCopies ==
    /\ omon = "stream"
    /\ remote # "gone"
    /\ stdout < output
    /\ stdout' = stdout + 1
    /\ UNCHANGED <<st, dir, active, session, worker, monitors, expiry, call, far, history>>

(* The other node has sent everything, or the connection breaks.           *)
StreamEnds ==
    /\ omon = "stream"
    /\ omon' = "check"
    /\ UNCHANGED <<unit, session, worker, smon, sub, expiry, call, far, history>>

(* Faulty variant: a stream is not interrupted.                            *)
OutputStopsLater ==
    /\ omon = "check"
    /\ ~MonitorCtx \/ ~dir
    /\ OutputExits
    /\ UNCHANGED <<unit, session, worker, expiry, call, far, history>>

(* The context is cancelled, or the status file is gone.                   *)
OutputStops ==
    /\ omon \in {"check", "stream"}
    /\ ~MonitorCtx \/ (omon = "check" /\ ~dir)
    /\ OutputExits
    /\ UNCHANGED <<unit, session, worker, expiry, call, far, history>>

(* The file cannot be opened, or the command not be signed.                *)
OutputGivesUp ==
    /\ omon = "check" /\ MonitorCtx
    /\ OutputExits
    /\ gaveUp' = TRUE
    /\ UNCHANGED <<unit, session, worker, expiry, call, far, crashes, early, forced>>

(* subJC.Wait: both monitors have ended.                                   *)
MonitorEnds ==
    /\ at = "monitor"
    /\ ~smon /\ omon = "off"
    /\ job' = "none" /\ at' = "none"
    /\ call' = Woken(call)
    /\ gaveUp' = FALSE
    /\ UNCHANGED <<unit, live, sync, session, monitors, expiry, far, crashes, early, forced>>

-----------------------------------------------------------------------------
(* setExpiration: the time has come, and the status is looked at.          *)
Expires ==
    /\ expiry = "armed"
    /\ expiry' = IF st.started THEN "off" ELSE "expired"
    /\ UNCHANGED <<unit, session, worker, monitors, call, far, history>>

(* Or the job is over or cancelled.                                        *)
Disarms ==
    /\ expiry = "armed"
    /\ ~live \/ job # "start"
    /\ expiry' = "off"
    /\ UNCHANGED <<unit, session, worker, monitors, call, far, history>>

ExpiryWrites ==
    /\ expiry = "expired"
    /\ Update([st EXCEPT !.state = "Failed"])
    /\ expiry' = "written"
    /\ UNCHANGED <<dir, active, stdout, session, worker, monitors, call, far, history>>

ExpiryCancels ==
    /\ expiry = "written"
    /\ live' = FALSE
    /\ expiry' = "off"
    /\ UNCHANGED <<unit, session, job, at, sync, monitors, call, far, history>>

-----------------------------------------------------------------------------
(* cancelOrRelease(release, force).                                        *)

Goes(c, where) == call' = [call EXCEPT ![c].pc = where]

(* The call marks the status and looks whether the work has started.       *)
Call(c, op) ==
    /\ active
    /\ call[c].pc = "idle"
    /\ Update([st EXCEPT !.cancelled = TRUE, !.released = @ \/ op # "cancel"])
    /\ LET started == dir /\ st.started
       IN /\ call' = [call EXCEPT ![c] = [op |-> op, local |-> ~started, pc |->
                        IF ~started THEN "stop" ELSE IF op = "force" THEN "force" ELSE "newjob"]]
          /\ early' = (early \/ (op # "cancel" /\ ~started))
    /\ forced' = (forced \/ op = "force")
    /\ UNCHANGED <<dir, active, stdout, session, worker, monitors, expiry, far, crashes,
                   gaveUp>>

(* topJC.Cancel, or NewJob's cancellation of the job before.               *)
StopJob(c) ==
    /\ call[c].pc = "stop" \/ (call[c].pc = "newjob" /\ job # "none")
    /\ live' = FALSE
    /\ Goes(c, "wait")
    /\ UNCHANGED <<unit, session, job, at, sync, monitors, expiry, far, history>>

(* topJC.Wait, for the job that is there when it looks.                    *)
Wait(c) ==
    /\ call[c].pc = "wait"
    /\ Goes(c, IF job = "none" THEN "over" ELSE "waiting")
    /\ UNCHANGED <<unit, session, worker, monitors, expiry, far, history>>

(* NewJob tries again.                                                     *)
Retry(c) ==
    /\ call[c].pc = "over"
    /\ ~call[c].local
    /\ Goes(c, "newjob")
    /\ UNCHANGED <<unit, session, worker, monitors, expiry, far, history>>

Signal(c) ==
    /\ call[c].pc = "newjob"
    /\ NewJob(call[c].op, c)
    /\ Goes(c, "sync")
    /\ UNCHANGED <<unit, session, monitors, expiry, far, history>>

(* Nothing was started: release or fail the unit here.                     *)
FinishLocally(c) ==
    /\ call[c].pc = "over"
    /\ call[c].local
    /\ IF call[c].op = "cancel"
         THEN Update(SetState("Failed", 0)) /\ UNCHANGED <<dir, active>>
         ELSE dir' \in {FALSE, dir} /\ active' = FALSE /\ st' = st
    /\ call' = [call EXCEPT ![c] = Idle]
    /\ UNCHANGED <<stdout, session, worker, monitors, expiry, far, history>>

(* A forced release: one attempt at the other node, then removal here.     *)
ForceRemote(c) ==
    /\ call[c].pc = "force"
    /\ \/ remote \notin {"none", "gone"} /\ Obeys(TRUE)
       \/ UNCHANGED remote
    /\ Goes(c, "remove")
    /\ UNCHANGED <<unit, session, worker, monitors, expiry, output, starts, success, history>>

ForceRemove(c) ==
    /\ call[c].pc = "remove"
    /\ dir' \in {FALSE, dir} /\ active' = FALSE
    /\ call' = [call EXCEPT ![c] = Idle]
    /\ UNCHANGED <<st, stdout, session, worker, monitors, expiry, far, history>>

-----------------------------------------------------------------------------
(* The other node.                                                         *)

(* The connection ended before all input was there.                        *)
RemoteInputLost ==
    /\ remote = "input"
    /\ at \notin {"reply", "stdin"}
    /\ remote' = "Failed"
    /\ UNCHANGED <<unit, session, worker, monitors, expiry, call, output, starts, success,
                   history>>

RemoteStarts ==
    /\ remote = "ready"
    /\ \/ remote' = "running" /\ starts' = starts + 1
       \/ remote' = "Failed" /\ starts' = starts
    /\ UNCHANGED <<unit, session, worker, monitors, expiry, call, output, success, history>>

RemoteRuns ==
    /\ remote = "running"
    /\ \/ output < MaxOutput /\ output' = output + 1 /\ UNCHANGED <<remote, success>>
       \/ remote' = "Succeeded" /\ success' = TRUE /\ UNCHANGED output
       \/ remote' = "Failed" /\ UNCHANGED <<output, success>>
    /\ UNCHANGED <<unit, session, worker, monitors, expiry, call, starts, history>>

(* Somebody else releases the unit there.                                  *)
RemoteReleased ==
    /\ remote \notin {"none", "gone"}
    /\ remote' = "gone"
    /\ UNCHANGED <<unit, session, worker, monitors, expiry, call, output, starts, success,
                   history>>

-----------------------------------------------------------------------------
Crash ==
    /\ session # "down"
    /\ crashes < MaxCrashes
    /\ crashes' = crashes + 1
    /\ session' = "down"
    /\ active' = FALSE
    /\ job' = "none" /\ at' = "none" /\ live' = FALSE /\ sync' = "none"
    /\ smon' = FALSE /\ omon' = "off" /\ sub' = FALSE
    /\ expiry' = "off"
    /\ call' = [c \in Callers |-> Idle]
    /\ gaveUp' = FALSE
    /\ UNCHANGED <<st, dir, stdout, far, early, forced>>

-----------------------------------------------------------------------------
Session ==
    InputFails \/ InputRead \/ Start \/ Adopt \/ ResumeAdopted \/ Restart \/ SessionFails

Worker ==
    \/ Connect \/ DialFails \/ RedialStops \/ RedialFatal \/ ExchangeFails
    \/ SubmitArrives \/ SubmitAnswered \/ StdinSent \/ Confirmed
    \/ SignalArrives \/ SignalAnswered \/ RemoveUnit

StatusMonitor == Poll \/ PollFinal \/ StatusStops \/ StatusGivesUp

OutputMonitor ==
    OutputDone \/ StreamBegins \/ StreamCopies \/ StreamEnds \/ OutputStops \/ OutputGivesUp

Expiration == Expires \/ Disarms \/ ExpiryWrites \/ ExpiryCancels

Caller(c) ==
    \/ \E op \in {"cancel", "release", "force"} : Call(c, op)
    \/ StopJob(c) \/ Wait(c) \/ Retry(c) \/ Signal(c) \/ FinishLocally(c)
    \/ ForceRemote(c) \/ ForceRemove(c)

Remote == RemoteInputLost \/ RemoteStarts \/ RemoteRuns \/ RemoteReleased

Next ==
    \/ Session \/ Worker \/ StatusMonitor \/ OutputMonitor \/ MonitorEnds
    \/ Expiration \/ (\E c \in Callers : Caller(c)) \/ Remote \/ Crash

Spec == Init /\ [][Next]_vars

(* The worker of a cancelled job, the monitors and an expiration that has  *)
(* fired go on.  The other node can be reached again and again, and sends  *)
(* the rest of the output of a unit that is over.  Nobody has to call, and *)
(* nothing else need be answered.                                          *)
FairSpec ==
    /\ Spec
    /\ WF_vars(~live /\ Worker)
    /\ WF_vars(Poll) /\ WF_vars(PollFinal) /\ WF_vars(StatusStops)
    /\ WF_vars(OutputDone) /\ WF_vars(StreamBegins) /\ SF_vars(StreamCopies)
    /\ WF_vars(OutputStops) /\ WF_vars(MonitorEnds)
    /\ WF_vars(ExpiryWrites) /\ WF_vars(ExpiryCancels)
    /\ WF_vars(stdout = output /\ IsComplete(remote) /\ StreamEnds)

-----------------------------------------------------------------------------
Flags ==
    /\ dir \in BOOLEAN /\ active \in BOOLEAN
    /\ live \in BOOLEAN /\ smon \in BOOLEAN /\ sub \in BOOLEAN
    /\ success \in BOOLEAN /\ early \in BOOLEAN /\ forced \in BOOLEAN
    /\ gaveUp \in BOOLEAN

Calls ==
    [pc : {"idle", "stop", "newjob", "wait", "waiting", "over", "sync", "force", "remove"},
     op : {"cancel", "release", "force"}, local : BOOLEAN]

(* Types, and that monitors run only for a job that monitors.              *)
TypeOK ==
    /\ st \in Status
    /\ stdout \in 0..MaxOutput /\ output \in 0..MaxOutput
    /\ session \in {"input", "start", "starting", "adopt", "adopted", "fail", "done",
                    "down", "restarting", "refail"}
    /\ job \in {"none", "start", "monitor", "cancel", "release"}
    /\ at \in Exchange \union {"none", "dial", "redial", "monitor", "remove"}
    /\ sync \in {"none", "session"} \union Callers
    /\ omon \in {"off", "check", "stream"}
    /\ expiry \in {"off", "armed", "expired", "written"}
    /\ call \in [Callers -> Calls]
    /\ remote \in {"none", "input", "ready", "running", "Succeeded", "Failed",
                   "Canceled", "gone"}
    /\ crashes \in 0..MaxCrashes /\ starts \in Nat
    /\ Flags
    /\ at = "none" <=> job = "none"
    /\ smon \/ omon # "off" => at = "monitor"

(* Retries, restarts and adoption never start the work a second time, also *)
(* if the other node has forgotten the unit meanwhile.                     *)
AtMostOnce == starts <= 1

(* A unit that is Succeeded here has succeeded there: no failure, no       *)
(* cancellation, expiration or restart makes a success of it.              *)
SucceededIsTrue == st.state = "Succeeded" => success

(* Unless the release is forced, or was decided before the start of the    *)
(* work was confirmed, the files here go only when the remote unit is      *)
(* gone, through crashes, lost answers and concurrent calls.               *)
NoOrphan == ~dir /\ ~early /\ ~forced => remote = "gone"

(* When the output monitor ends by itself on a unit that succeeded, and    *)
(* not for a file or a signature it cannot get, it has all of the output.  *)
OutputComplete ==
    [][omon = "check" /\ omon' = "off" /\ MonitorCtx /\ dir /\ st.state = "Succeeded"
         /\ session' # "down" /\ ~gaveUp'
       => stdout = output]_vars

(* "Workers can check for termination": a cancelled job ends, wherever its *)
(* worker and its monitors are.  JobContext takes this for granted.        *)
CancelledJobEnds == job # "none" /\ ~live ~> job = "none"

(* The result of a unit that is monitored and not known to be over         *)
(* arrives, with all of the output, unless somebody cancels or releases    *)
(* the unit at either end, it expires, the node crashes, or a monitor      *)
(* gives up over an error: then the unit keeps the state it has, and       *)
(* nothing asks for a new one until the node is started again.             *)
ResultArrives ==
    at = "monitor" /\ sub /\ ~IsComplete(st.state) /\ remote = "Succeeded"
    ~> \/ st.state = "Succeeded" /\ stdout = output
       \/ ~live \/ st.cancelled \/ remote = "gone" \/ gaveUp

(* The job of a unit ends, if it is cancelled, or brings the result.       *)
JobsFinish == CancelledJobEnds /\ ResultArrives

(* "The local files will remain on disk until the remote node can be       *)
(* contacted": a unit that was submitted here and is known to have started *)
(* there is not removed here while it is there, unless by force.           *)
FilesRemain == ~dir /\ ~forced /\ st.started /\ ~st.adopted => remote = "gone"
=============================================================================
