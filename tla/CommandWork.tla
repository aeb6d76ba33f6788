---------------------------- MODULE CommandWork -----------------------------
(***************************************************************************)
(* One unit of command work: pkg/workceptor/command.go on the base of      *)
(* workunitbase.go.                                                        *)
(*                                                                         *)
(* The node (the server) starts a command runner, a detached process that  *)
(* outlives it and runs the command.  Both write the unit's status file,   *)
(* each update under a lock file and as read, change, truncate, write;     *)
(* each of them keeps its own copy in memory.  The threads of the server   *)
(* are the submission, the reaper that waits for the runner, the monitor   *)
(* that rereads the file, and a caller of Cancel or Release.  The server   *)
(* may crash and come back, alone or with the whole host, also between the *)
(* truncation and the write.                                               *)
(*                                                                         *)
(* Of a status the state, the pid and the work type are kept.  A pid names *)
(* only the runner: reuse of process numbers is left out, as are failures  *)
(* of the file system other than the directory being gone.                 *)
(***************************************************************************)
EXTENDS Naturals

CONSTANT MaxCrashes   \* bound on the number of crashes

States == {"Pending", "Running", "Succeeded", "Failed", "Canceled"}
Pids == {"zero",     \* the Pid of an empty CommandExtraData
         "runner",
         "null"}     \* ExtraData is nil
Status == [state : States, pid : Pids, known : BOOLEAN]   \* known: WorkType

VARIABLES
    disk,      \* the status file: "status", "empty" or, with the unit
               \* directory, "gone"
    file,      \* what was last written to it
    mem,       \* bwu.status in the server
    rmem,      \* status in the runner
    submit,    \* where the server is with this unit
    child,     \* the runner is a child of this server process
    reaper,    \* the goroutine behind cmdWaiter in the server
    monitor,   \* MonitorLocalStatus
    dirty,     \* the file has changed since the monitor last looked
    ctx,       \* the unit's context is live
    caller,    \* where Cancel or Release is
    release,   \* it is Release
    runner,    \* where commandRunner is
    sig,       \* an interrupt is pending at the runner
    command,   \* the command itself
    crashes,   \* the number of crashes so far
    torn,      \* a crash has left an empty file behind
    recorded,  \* the server has entered the runner's pid
    stuck      \* Cancel has written its result after the runner's exit

server == <<mem, submit, child, reaper, monitor, ctx, caller, release>>
processes == <<rmem, runner, sig, command>>
history == <<crashes, torn, recorded, stuck>>
vars == <<disk, file, dirty, server, processes, history>>

IsComplete(state) == state \in {"Succeeded", "Failed"}

-----------------------------------------------------------------------------
(* Faulty variant: the file is not read before it is changed.              *)
MergedNot(copy) == copy

(* What an update starts from: the file, or the own copy if it is empty.   *)
Merged(copy) == IF disk = "status" THEN file ELSE copy

(* UpdateFullStatus with the result new, which becomes the writer's copy.  *)
(* It fails if the unit directory is gone.                                 *)
Write(new) ==
    /\ disk # "gone"
    /\ disk' = "status"
    /\ file' = new
    /\ dirty' = TRUE

WriteFails == disk = "gone" /\ UNCHANGED <<disk, file, dirty>>

(* The server's UpdateBasicStatus and UpdateFullStatus.                    *)
Update(new) ==
    \/ Write(new) /\ mem' = new
    \/ WriteFails /\ mem' = mem

SetState(copy, state) == [Merged(copy) EXCEPT !.state = state]
SetPid(copy, pid) == [Merged(copy) EXCEPT !.pid = pid]

(* The runner's UpdateBasicStatus.                                         *)
RunnerUpdate(state) ==
    \/ Write(SetState(rmem, state)) /\ rmem' = SetState(rmem, state)
    \/ WriteFails /\ rmem' = rmem

-----------------------------------------------------------------------------
(* AllocateUnit has created the directory and saved the status.            *)
New == [state |-> "Pending", pid |-> "zero", known |-> TRUE]

Init ==
    /\ disk = "status"
    /\ file = New
    /\ mem = New
    /\ rmem = [New EXCEPT !.known = FALSE]
    /\ submit = "input"
    /\ child = FALSE
    /\ reaper = "none"
    /\ monitor = "off"
    /\ dirty = FALSE
    /\ ctx = TRUE
    /\ caller = "idle"
    /\ release = FALSE
    /\ runner = "none"
    /\ sig = FALSE
    /\ command = "none"
    /\ crashes = 0
    /\ torn = FALSE
    /\ recorded = FALSE
    /\ stuck = FALSE

(* The input data cannot be read.                                          *)
InputFails ==
    /\ submit = "input"
    /\ Update(SetState(mem, "Failed"))
    /\ submit' = "done"
    /\ UNCHANGED <<child, reaper, monitor, ctx, caller, release, processes, history>>

(* All input is there: the last updates before the runner is started.      *)
Launch ==
    /\ submit = "input"
    /\ Update(SetState(mem, "Pending"))
    /\ submit' = "launch"
    /\ UNCHANGED <<child, reaper, monitor, ctx, caller, release, processes, history>>

StartRunner ==
    /\ submit = "launch"
    /\ submit' = "record"
    /\ child' = TRUE
    /\ runner' = "begin"
    /\ UNCHANGED <<disk, file, dirty, mem, reaper, monitor, ctx, caller, release,
                   rmem, sig, command, history>>

(* "Failed to start command runner".                                       *)
StartFails ==
    /\ submit = "launch"
    /\ Update(SetState(mem, "Failed"))
    /\ submit' = "done"
    /\ UNCHANGED <<child, reaper, monitor, ctx, caller, release, processes, history>>

(* The rest of runCommand.                                                 *)
RecordPid ==
    /\ submit = "record"
    /\ Update(SetPid(mem, "runner"))
    /\ recorded' = (disk # "gone")
    /\ submit' = "done"
    /\ reaper' = "waiting"
    /\ monitor' = "stat"
    /\ UNCHANGED <<child, ctx, caller, release, processes, crashes, torn, stuck>>

(* The runner has exited: its ExtraData is dropped.                        *)
Reap ==
    /\ reaper = "waiting"
    /\ runner = "exited"
    /\ Update(SetPid(mem, "null"))
    /\ reaper' = "done"
    /\ UNCHANGED <<submit, child, monitor, ctx, caller, release, processes, history>>

-----------------------------------------------------------------------------
(* MonitorLocalStatus: the first look at the file's modification time.     *)
MonitorStat ==
    /\ monitor = "stat"
    /\ monitor' = "on"
    /\ dirty' = (disk = "gone")
    /\ UNCHANGED <<disk, file, mem, submit, child, reaper, ctx, caller, release,
                   processes, history>>

(* Its turn every second: load what has changed, stop when that is final.  *)
MonitorTick ==
    /\ monitor = "on"
    /\ mem' = IF ctx /\ dirty /\ disk = "status" THEN file ELSE mem
    /\ dirty' = (dirty /\ (disk = "gone" \/ ~ctx))
    /\ monitor' = IF ctx /\ ~IsComplete(mem'.state) THEN "on" ELSE "off"
    /\ UNCHANGED <<disk, file, submit, child, reaper, ctx, caller, release,
                   processes, history>>

-----------------------------------------------------------------------------
(* An exited runner that was waited for.                                   *)
Finished == runner = "exited" /\ reaper # "waiting"

(* Cancel, or Release as far as Cancel: the context is cancelled, and the  *)
(* runner interrupted if its pid is known.                                 *)
Interrupt(isRelease) ==
    /\ submit \in {"input", "launch", "record", "done"}
    /\ caller = "idle"
    /\ disk # "gone"
    /\ mem.known
    /\ mem.pid = "runner"
    /\ ~Finished
    /\ ctx' = FALSE
    /\ release' = isRelease
    /\ sig' = TRUE
    /\ caller' = "wait"
    /\ UNCHANGED <<disk, file, dirty, mem, submit, child, reaper, monitor,
                   rmem, runner, command, history>>

(* Cancel returns without an interrupt: there is no pid, the runner has    *)
(* finished, or the unit is one of unknown type.                           *)
NothingToCancel(isRelease) ==
    /\ submit \in {"input", "launch", "record", "done"}
    /\ caller = "idle"
    /\ disk # "gone"
    /\ ~mem.known \/ mem.pid # "runner" \/ runner = "exited"
    /\ ctx' = (ctx /\ ~mem.known)
    /\ release' = isRelease
    /\ caller' = IF isRelease THEN "remove" ELSE "idle"
    /\ UNCHANGED <<disk, file, dirty, mem, submit, child, reaper, monitor,
                   processes, history>>

(* Faulty variant: Cancel does not wait.                                   *)
AwaitExitNot ==
    /\ caller = "wait"
    /\ caller' = "write"
    /\ UNCHANGED <<disk, file, dirty, mem, submit, child, reaper, monitor, ctx,
                   release, processes, history>>

(* proc.Wait: a process that is not a child cannot be waited for.          *)
AwaitExit ==
    /\ caller = "wait"
    /\ child => runner = "exited"
    /\ caller' = "write"
    /\ UNCHANGED <<disk, file, dirty, mem, submit, child, reaper, monitor, ctx,
                   release, processes, history>>

WriteCanceled ==
    /\ caller = "write"
    /\ Update(SetState(mem, "Canceled"))
    /\ stuck' = (stuck \/ child)
    /\ caller' = IF release THEN "remove" ELSE "idle"
    /\ UNCHANGED <<submit, child, reaper, monitor, ctx, release, processes, crashes,
                   torn, recorded>>

(* BaseWorkUnit.Release: the directory is removed, after at most three     *)
(* tries, or the call fails.                                               *)
Remove ==
    /\ caller = "remove"
    /\ caller' = "idle"
    /\ disk' \in {"gone", disk}
    /\ UNCHANGED <<file, dirty, mem, submit, child, reaper, monitor, ctx, release,
                   processes, history>>

-----------------------------------------------------------------------------
(* commandRunner: its first update.  The interrupt is not handled yet.     *)
RunnerBegins ==
    /\ runner = "begin"
    /\ ~sig
    /\ RunnerUpdate("Pending")
    /\ runner' = "ready"
    /\ UNCHANGED <<server, sig, command, history>>

InterruptKills ==
    /\ runner \in {"begin", "ready"}
    /\ sig
    /\ runner' = "exited"
    /\ UNCHANGED <<disk, file, dirty, server, rmem, sig, command, history>>

(* StatusFileData{}.                                                       *)
Unset == [state |-> "Pending", pid |-> "null", known |-> FALSE]

(* The parameters or the input cannot be used, or the command not started: *)
(* commandRunnerCfg.Run updates the file with a copy of its own.           *)
RunnerFails ==
    /\ runner = "ready"
    /\ \/ Write(SetState(Unset, "Failed"))
       \/ WriteFails
    /\ runner' = "exiting"
    /\ UNCHANGED <<server, rmem, sig, command, history>>

StartCommand ==
    /\ runner = "ready"
    /\ disk # "gone"
    /\ runner' = "running"
    /\ command' = "running"
    /\ UNCHANGED <<disk, file, dirty, server, rmem, sig, history>>

CommandEnds ==
    /\ command = "running"
    /\ command' \in {"ok", "bad"}
    /\ UNCHANGED <<disk, file, dirty, server, rmem, runner, sig, history>>

(* The update every 250 ms, unless a termination signal is pending.        *)
RunnerTick ==
    /\ runner = "running"
    /\ disk # "gone"
    /\ ~sig
    /\ RunnerUpdate("Running")
    /\ UNCHANGED <<server, runner, sig, command, history>>

(* "Exceeded retries for updating status file".                            *)
RunnerGivesUp ==
    /\ runner = "running"
    /\ disk = "gone"
    /\ ~sig
    /\ runner' = "exited"
    /\ UNCHANGED <<disk, file, dirty, server, rmem, sig, command, history>>

(* Faulty variant: the exit status is not looked at.                       *)
ResultAlways == "Succeeded"

Result == IF command = "ok" THEN "Succeeded" ELSE "Failed"

RunnerDone ==
    /\ runner = "running"
    /\ command # "running"
    /\ RunnerUpdate(Result)
    /\ runner' = "exiting"
    /\ UNCHANGED <<server, sig, command, history>>

(* Faulty variant: the interrupt is not passed on to the command.          *)
RunnerTermLeaves ==
    /\ runner = "running"
    /\ sig
    /\ RunnerUpdate("Failed")
    /\ runner' = "exiting"
    /\ UNCHANGED <<server, sig, command, history>>

(* termThenKill, and the status "Killed".                                  *)
RunnerTerm ==
    /\ runner = "running"
    /\ sig
    /\ command' = IF command = "running" THEN "killed" ELSE command
    /\ RunnerUpdate("Failed")
    /\ runner' = "exiting"
    /\ UNCHANGED <<server, sig, history>>

RunnerExits ==
    /\ runner = "exiting"
    /\ runner' = "exited"
    /\ UNCHANGED <<disk, file, dirty, server, rmem, sig, command, history>>

-----------------------------------------------------------------------------
(* All threads of the server are gone.                                     *)
ServerLost ==
    /\ submit' = "down"
    /\ child' = FALSE
    /\ reaper' = "none"
    /\ monitor' = "off"
    /\ ctx' = FALSE
    /\ caller' = "idle"
    /\ UNCHANGED <<mem, release>>

(* A thread of the server, or the runner, may be inside an update.         *)
ServerUpdating ==
    \/ submit \in {"input", "launch", "record", "recover"}
    \/ caller = "write"
    \/ reaper = "waiting" /\ runner = "exited"

RunnerUpdating == runner \in {"begin", "ready", "running"}

(* A crash leaves the file as it is, or truncated by an update.            *)
Interrupted(updating) ==
    \/ UNCHANGED <<disk, torn>>
    \/ disk = "status" /\ updating /\ disk' = "empty" /\ torn' = TRUE

(* The server process dies; the runner is detached and lives on.           *)
Crash ==
    /\ submit # "down"
    /\ crashes < MaxCrashes
    /\ crashes' = crashes + 1
    /\ ServerLost
    /\ Interrupted(ServerUpdating)
    /\ UNCHANGED <<file, dirty, processes, recorded, stuck>>

(* The host goes down with all processes.                                  *)
HostCrash ==
    /\ submit # "down"
    /\ crashes < MaxCrashes
    /\ crashes' = crashes + 1
    /\ ServerLost
    /\ Interrupted(ServerUpdating \/ RunnerUpdating)
    /\ runner' = IF runner = "none" THEN "none" ELSE "exited"
    /\ command' = IF command = "running" THEN "killed" ELSE command
    /\ UNCHANGED <<file, dirty, rmem, sig, recorded, stuck>>

(* The server is started again.  scanForUnit finds a status of known type, *)
(* and Restart loads it.                                                   *)
Load ==
    /\ submit = "down"
    /\ disk = "status"
    /\ file.known
    /\ mem' = file
    /\ ctx' = TRUE
    /\ submit' = "recover"
    /\ UNCHANGED <<disk, file, dirty, child, reaper, monitor, caller, release,
                   processes, history>>

(* Or a status without a type, for which nothing more is done.             *)
LoadUnknown ==
    /\ submit = "down"
    /\ disk = "status"
    /\ ~file.known
    /\ mem' = file
    /\ ctx' = TRUE
    /\ submit' = "done"
    /\ UNCHANGED <<disk, file, dirty, child, reaper, monitor, caller, release,
                   processes, history>>

(* Or an empty file: "Failed to restart", by a unit of unknown type.       *)
LoadFails ==
    /\ submit = "down"
    /\ disk = "empty"
    /\ Update([state |-> "Failed", pid |-> "null", known |-> FALSE])
    /\ ctx' = TRUE
    /\ submit' = "done"
    /\ UNCHANGED <<child, reaper, monitor, caller, release, processes, history>>

(* Faulty variant: a worker that is no longer running is not noticed.      *)
LostWorkerNever == FALSE

(* A worker that died with the previous server.                            *)
LostWorker == mem.state = "Running" /\ mem.pid = "runner" /\ runner = "exited"

(* The rest of Restart: mark what cannot go on, and monitor.               *)
Recover ==
    /\ submit = "recover"
    /\ IF mem.state = "Pending" \/ LostWorker
          THEN Update(SetState(mem, "Failed"))
          ELSE UNCHANGED <<disk, file, dirty, mem>>
    /\ monitor' = IF IsComplete(mem.state) THEN "off" ELSE "stat"
    /\ submit' = "done"
    /\ UNCHANGED <<child, reaper, ctx, caller, release, processes, history>>

-----------------------------------------------------------------------------
Submission == StartRunner \/ StartFails \/ RecordPid

Starting == Load \/ LoadUnknown \/ LoadFails \/ Recover

Caller == AwaitExit \/ WriteCanceled \/ Remove

Runner ==
    \/ RunnerBegins \/ InterruptKills \/ RunnerFails \/ StartCommand
    \/ RunnerGivesUp \/ RunnerDone \/ RunnerTerm \/ RunnerExits

Next ==
    \/ InputFails \/ Launch \/ Submission \/ Reap
    \/ MonitorStat \/ MonitorTick
    \/ \E isRelease \in BOOLEAN :
          Interrupt(isRelease) \/ NothingToCancel(isRelease)
    \/ Caller \/ Runner \/ RunnerTick \/ CommandEnds
    \/ Crash \/ HostCrash \/ Starting

Spec == Init /\ [][Next]_vars

(* Threads and processes go on when they can, and a crashed server is      *)
(* started again.  Nobody has to send input or cancel, and the command may *)
(* run for ever.                                                           *)
FairSpec ==
    /\ Spec
    /\ WF_vars(Submission) /\ WF_vars(Reap) /\ WF_vars(Caller)
    /\ WF_vars(Runner) /\ WF_vars(Starting)
    /\ WF_vars(MonitorStat) /\ WF_vars(MonitorTick)

-----------------------------------------------------------------------------
(* Types, and that a dead server has no threads.                           *)
Flags ==
    /\ child \in BOOLEAN /\ dirty \in BOOLEAN /\ ctx \in BOOLEAN
    /\ release \in BOOLEAN /\ sig \in BOOLEAN
    /\ torn \in BOOLEAN /\ recorded \in BOOLEAN /\ stuck \in BOOLEAN

TypeOK ==
    /\ disk \in {"status", "empty", "gone"}
    /\ file \in Status /\ mem \in Status /\ rmem \in Status
    /\ submit \in {"input", "launch", "record", "done", "down", "recover"}
    /\ reaper \in {"none", "waiting", "done"}
    /\ monitor \in {"off", "stat", "on"}
    /\ caller \in {"idle", "wait", "write", "remove"}
    /\ runner \in {"none", "begin", "ready", "running", "exiting", "exited"}
    /\ command \in {"none", "running", "ok", "bad", "killed"}
    /\ crashes \in Nat
    /\ Flags
    /\ submit = "down" => ~child /\ reaper = "none" /\ monitor = "off" /\ caller = "idle"

(* The status file never says that a unit succeeded whose command did not, *)
(* and neither does the server: no merge of the two processes' updates, no *)
(* cancellation and no restart makes a success of it.                      *)
SucceededIsTrue ==
    "Succeeded" \in {file.state, mem.state} => command = "ok"

(* Two processes update one file, and neither loses what the other wrote:  *)
(* once the server has entered the pid it stays in the file as long as the *)
(* runner lives, so that a later server can cancel the unit and tell       *)
(* whether it runs.  Only a crash inside an update can lose it.            *)
PidSurvives ==
    recorded /\ ~torn /\ runner # "exited" => file.pid = "runner"

(* A unit that was cancelled by the server that started it is Canceled for *)
(* good: the runner's own last update comes before.                        *)
CancelSticks ==
    stuck /\ ~torn /\ disk = "status" => file.state = "Canceled"

(* When the reaper is done the server knows the final status, also if the  *)
(* monitor was stopped by Cancel or never saw the last update.             *)
MemoryIsCurrent ==
    reaper = "done" /\ disk = "status" => mem = file

(* "Without this the unit reads Running forever": a unit whose runner died *)
(* with the host, its pid in the file, does not stay Running.              *)
NotRunningForever ==
    (disk = "status" /\ file.state = "Running" /\ file.pid = "runner"
       /\ file.known /\ runner = "exited")
    ~> ~(disk = "status" /\ file.state = "Running")

(* The interrupt that Cancel or Release sends ends the command, whatever   *)
(* becomes of the server meanwhile.                                        *)
CancelKills == caller = "wait" ~> command # "running"
=============================================================================
