----------------------------- MODULE MCControl ------------------------------
(***************************************************************************)
(* What stands behind the control service, side by side: the job object of *)
(* a unit (JobContext), the table of units and its locks (UnitRegistry), a *)
(* client's session with the results it asks for (ControlSession), and a   *)
(* unit of command work with its detached runner (CommandWork).            *)
(*                                                                         *)
(* Each behaviour is one of the part named at its start; the other parts   *)
(* keep their initial state.                                               *)
(***************************************************************************)
EXTENDS JobContext

CONSTANTS
    Clients, Registrar, Units,   \* of UnitRegistry
    MaxRequests, Total,          \* of ControlSession
    MaxCrashes                   \* of CommandWork

VARIABLES
    part,                                                    \* the part that runs
    dir, late, active, known, readers, writer, waiting, statusLock, job, todo, mine,
    left, stale,                                             \* of UnitRegistry
    inbox, sent, eof, gone, at, ctx, unit, released, file, produced, recorded, stream,
    filePos, failures, passed,                               \* of ControlSession
    disk, status, mem, rmem, submit, child, waiter, monitor, dirty, workCtx, caller,
    release, runner, sig, command, crashes, torn, pidEntered, stuck   \* of CommandWork

Registry == INSTANCE UnitRegistry
Sess == INSTANCE ControlSession
Cmd == INSTANCE CommandWork
    WITH file <- status, reaper <- waiter, ctx <- workCtx, recorded <- pidEntered

ASSUME UnitRegistryAssumption == Registry!UnitRegistryAssumption
ASSUME ControlSessionAssumption == Sess!ControlSessionAssumption

registryVars == <<dir, late, active, known, readers, writer, waiting, statusLock, job, todo,
                  mine, left, stale>>
sessionVars == <<inbox, sent, eof, gone, at, ctx, unit, released, file, produced, recorded,
                 stream, filePos, failures, passed>>
commandVars == <<disk, status, mem, rmem, submit, child, waiter, monitor, dirty, workCtx,
                 caller, release, runner, sig, command, crashes, torn, pidEntered, stuck>>
controlVars == <<part, vars, registryVars, sessionVars, commandVars>>

ControlInit ==
    /\ part \in {"job", "registry", "session", "command"}
    /\ Init /\ Registry!Init /\ Sess!Init /\ Cmd!Init
    /\ part # "registry" => dir = [u \in Units |-> "none"]
    /\ part # "session" => file

ControlNext ==
    \/ part = "job" /\ Next /\ UNCHANGED <<part, registryVars, sessionVars, commandVars>>
    \/ part = "registry" /\ Registry!Next /\ UNCHANGED <<part, vars, sessionVars, commandVars>>
    \/ part = "session" /\ Sess!Next /\ UNCHANGED <<part, vars, registryVars, commandVars>>
    \/ part = "command" /\ Cmd!Next /\ UNCHANGED <<part, vars, registryVars, sessionVars>>

(* The fairness of each part, for the one that runs.                       *)
ControlFairness ==
    /\ \A c \in Callers : WF_vars(part = "job" /\ CallerStep(c))
    /\ \A j \in Jobs :
          /\ WF_vars(part = "job" /\ ReaperStep(j))
          /\ WF_vars(part = "job" /\ cancelled[j] /\ WorkerDone(j))
    /\ WF_sessionVars(part = "session" /\ Sess!Session)
    /\ WF_sessionVars(part = "session" /\ Sess!Stream)
    /\ WF_sessionVars(part = "session" /\ unit = "complete" /\ Sess!UnitWrites)
    /\ WF_commandVars(part = "command" /\ Cmd!Submission)
    /\ WF_commandVars(part = "command" /\ Cmd!Reap)
    /\ WF_commandVars(part = "command" /\ Cmd!Caller)
    /\ WF_commandVars(part = "command" /\ Cmd!Runner)
    /\ WF_commandVars(part = "command" /\ Cmd!Starting)
    /\ WF_commandVars(part = "command" /\ Cmd!MonitorStat)
    /\ WF_commandVars(part = "command" /\ Cmd!MonitorTick)

ControlSpec == ControlInit /\ [][ControlNext]_controlVars /\ ControlFairness

-----------------------------------------------------------------------------
(* UnitRegistry: a unit ID is given to one submitter at a time, and a unit *)
(* with a status file is in activeUnits, but for late work types and       *)
(* releases that left files (AllocateUnit, scanForUnit, Release).          *)
RegistryIsSound == Registry!OneUnitPerID /\ Registry!SavedIsActive

(* UnitRegistry: processes that all wait for each other are in one of the  *)
(* jams of Jam; nothing else can make findUnit, AllocateUnit, Release and  *)
(* RegisterWorker wait for ever.                                           *)
OnlyJamsBlock == Registry!OnlyJamsBlock

(* ControlSession: a stream closed as complete has passed on all that the  *)
(* unit will ever write, also if the status came first (GetResults).       *)
CompleteIsComplete == Sess!CompleteIsComplete

(* ControlSession: a client gets the unit's output in order, without gaps  *)
(* and nothing twice: the session implements a Relay (GetResults).         *)
ResultsAreRelayed == Sess!ResultsAreRelayed

(* ControlSession, UnitRegistry: a session whose client sends no more      *)
(* comes to its end, unless its unit never completes (RunControlSession,   *)
(* GetResults), and a command that has the locks it waits for goes on, in  *)
(* every case that generateUnitID, findUnit, scanForUnit and Release meet. *)
ControlGoesOn == Sess!SessionEnds /\ []Registry!ReadyGoesOn

(* CommandWork: no merge of the two processes' updates of the status file, *)
(* no cancellation and no restart makes a success of a command that had    *)
(* none (UpdateFullStatus, commandRunner, Restart).                        *)
SucceededIsTrue == Cmd!SucceededIsTrue

(* CommandWork: the pid that the server has entered is not lost while the  *)
(* runner lives, unless a crash tears an update (UpdateFullStatus).        *)
PidSurvives == Cmd!PidSurvives

(* CommandWork: a unit cancelled by the server that started it stays       *)
(* Canceled, since the runner's last update comes before (Cancel).         *)
CancelSticks == Cmd!CancelSticks

(* CommandWork: a unit whose runner died with the host does not read       *)
(* Running for ever (Restart).                                             *)
NotRunningForever == Cmd!NotRunningForever

(* CommandWork: the interrupt of Cancel or Release ends the command,       *)
(* whatever becomes of the server meanwhile (termThenKill).                *)
CancelKills == Cmd!CancelKills
=============================================================================
