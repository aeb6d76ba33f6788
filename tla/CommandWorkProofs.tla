------------------------- MODULE CommandWorkProofs --------------------------
(***************************************************************************)
(* The safety of the status file of a unit of command work, for any number *)
(* of crashes of the server and of the host: the part of MCControl that is *)
(* CommandWork, Cmd.                                                       *)
(***************************************************************************)
EXTENDS MCControl, TLAPS

Early == {"input", "launch", "record"}

(* A copy in memory can become the file again, so the claims about the     *)
(* file hold of the copies too.  A command is started once.                *)
Truth ==
    /\ "Succeeded" \in {status.state, mem.state, rmem.state} => command = "ok"
    /\ runner \in {"none", "begin", "ready"} => command = "none"
    /\ submit \in {"input", "launch"} => runner = "none"

(* The pid is nowhere before it is recorded, and an empty file is torn.    *)
PidInv ==
    /\ Cmd!PidSurvives
    /\ disk = "empty" => torn
    /\ submit \in Early =>
          /\ ~pidEntered
          /\ status.pid # "runner" /\ mem.pid # "runner" /\ rmem.pid # "runner"

(* Cancel writes after the exit of the runner, and later servers load it.  *)
CancelInv ==
    /\ Cmd!CancelSticks
    /\ submit \in Early \cup {"recover"} => caller \in {"idle", "remove"}
    /\ caller = "write" /\ child => runner = "exited"
    /\ stuck => runner = "exited" /\ submit \notin Early
    /\ stuck /\ ~torn /\ submit = "recover" => mem.state = "Canceled"

(* A reaper belongs to a submission that is over.                          *)
ReaperInv ==
    /\ Cmd!MemoryIsCurrent
    /\ waiter # "none" => submit = "done"
    /\ waiter = "done" => runner = "exited"

IInv == Cmd!TypeOK /\ Truth /\ PidInv /\ CancelInv /\ ReaperInv

-----------------------------------------------------------------------------
(* What an update writes is a status, with one field changed.              *)
LEMMA MergedStatus ==
    ASSUME Cmd!TypeOK, NEW copy \in {mem, rmem, Cmd!Unset},
           NEW st \in Cmd!States, NEW pid \in Cmd!Pids
    PROVE  /\ Cmd!SetState(copy, st) \in Cmd!Status
           /\ Cmd!SetState(copy, st).state = st
           /\ Cmd!SetState(copy, st).pid = IF disk = "status" THEN status.pid ELSE copy.pid
           /\ Cmd!SetPid(copy, pid) \in Cmd!Status
           /\ Cmd!SetPid(copy, pid).pid = pid
           /\ Cmd!SetPid(copy, pid).state = IF disk = "status" THEN status.state ELSE copy.state
<1>1. Cmd!Unset \in Cmd!Status
  BY DEF Cmd!Unset, Cmd!Status, Cmd!States, Cmd!Pids
<1> QED BY <1>1 DEF Cmd!TypeOK, Cmd!SetState, Cmd!SetPid, Cmd!Merged, Cmd!Status

LEMMA InitIInv == Cmd!Init => IInv
<1> SUFFICES ASSUME Cmd!Init PROVE IInv
  OBVIOUS
<1>1. Cmd!New \in Cmd!Status /\ [Cmd!New EXCEPT !.known = FALSE] \in Cmd!Status
  BY DEF Cmd!New, Cmd!Status, Cmd!States, Cmd!Pids
<1>2. Cmd!TypeOK
  <2>1. Cmd!Flags
    BY DEF Cmd!Init, Cmd!Flags
  <2> QED BY <1>1, <2>1 DEF Cmd!Init, Cmd!TypeOK
<1>3. Truth
  BY DEF Cmd!Init, Truth, Cmd!New
<1>4. PidInv
  BY DEF Cmd!Init, PidInv, Cmd!PidSurvives, Early, Cmd!New
<1>5. CancelInv
  BY DEF Cmd!Init, CancelInv, Cmd!CancelSticks, Early
<1>6. ReaperInv
  BY DEF Cmd!Init, ReaperInv, Cmd!MemoryIsCurrent
<1> QED BY <1>2, <1>3, <1>4, <1>5, <1>6 DEF IInv

(* Every step keeps the invariant.                                         *)
LEMMA NextIInv == IInv /\ [Cmd!Next]_commandVars => IInv'
<1> SUFFICES ASSUME IInv, [Cmd!Next]_commandVars PROVE IInv'
  OBVIOUS
<1>1. Cmd!TypeOK /\ Cmd!Flags /\ Truth /\ PidInv /\ CancelInv /\ ReaperInv
  BY DEF IInv, Cmd!TypeOK
<1>2. ASSUME NEW st \in Cmd!States
      PROVE  /\ Cmd!SetState(mem, st) \in Cmd!Status /\ Cmd!SetState(rmem, st) \in Cmd!Status
             /\ Cmd!SetState(mem, st).state = st /\ Cmd!SetState(rmem, st).state = st
             /\ Cmd!SetState(mem, st).pid = IF disk = "status" THEN status.pid ELSE mem.pid
             /\ Cmd!SetState(rmem, st).pid = IF disk = "status" THEN status.pid ELSE rmem.pid
  BY <1>1, MergedStatus DEF Cmd!Pids
<1>3. ASSUME NEW pid \in Cmd!Pids
      PROVE  /\ Cmd!SetPid(mem, pid) \in Cmd!Status
             /\ Cmd!SetPid(mem, pid).pid = pid
             /\ Cmd!SetPid(mem, pid).state = IF disk = "status" THEN status.state ELSE mem.state
  BY <1>1, MergedStatus DEF Cmd!States
<1>4. CASE Cmd!InputFails
  <2>1. Cmd!Flags'
    BY <1>1, <1>4 DEF Cmd!Flags, Cmd!InputFails, Cmd!Update, Cmd!Write, Cmd!WriteFails,
         Cmd!processes,
         Cmd!history
  <2>2. /\ Cmd!SetState(mem, "Failed") \in Cmd!Status
        /\ Cmd!SetState(mem, "Failed").state = "Failed"
        /\ Cmd!SetState(mem, "Failed").pid = IF disk = "status" THEN status.pid ELSE mem.pid
    BY <1>2 DEF Cmd!States
  <2> QED BY <1>1, <1>4, <2>1, <2>2 DEF IInv, Cmd!TypeOK, Truth, PidInv,
       Cmd!PidSurvives, CancelInv, Cmd!CancelSticks, ReaperInv, Cmd!MemoryIsCurrent,
       Early, Cmd!InputFails, Cmd!Update, Cmd!Write, Cmd!WriteFails, Cmd!processes, Cmd!history
<1>5. CASE Cmd!Launch
  <2>1. Cmd!Flags'
    BY <1>1, <1>5 DEF Cmd!Flags, Cmd!Launch, Cmd!Update, Cmd!Write, Cmd!WriteFails,
         Cmd!processes,
         Cmd!history
  <2>2. /\ Cmd!SetState(mem, "Pending") \in Cmd!Status
        /\ Cmd!SetState(mem, "Pending").state = "Pending"
        /\ Cmd!SetState(mem, "Pending").pid = IF disk = "status" THEN status.pid ELSE mem.pid
    BY <1>2 DEF Cmd!States
  <2> QED BY <1>1, <1>5, <2>1, <2>2 DEF IInv, Cmd!TypeOK, Truth, PidInv,
       Cmd!PidSurvives, CancelInv, Cmd!CancelSticks, ReaperInv, Cmd!MemoryIsCurrent,
       Early, Cmd!Launch, Cmd!Update, Cmd!Write, Cmd!WriteFails, Cmd!processes, Cmd!history
<1>6. CASE Cmd!StartRunner
  <2>1. Cmd!Flags'
    BY <1>1, <1>6 DEF Cmd!Flags, Cmd!StartRunner, Cmd!history
  <2> QED BY <1>1, <1>6, <2>1 DEF IInv, Cmd!TypeOK, Truth, PidInv, Cmd!PidSurvives,
       CancelInv, Cmd!CancelSticks, ReaperInv, Cmd!MemoryIsCurrent, Early,
       Cmd!StartRunner, Cmd!history
<1>7. CASE Cmd!StartFails
  <2>1. Cmd!Flags'
    BY <1>1, <1>7 DEF Cmd!Flags, Cmd!StartFails, Cmd!Update, Cmd!Write, Cmd!WriteFails,
         Cmd!processes,
         Cmd!history
  <2>2. /\ Cmd!SetState(mem, "Failed") \in Cmd!Status
        /\ Cmd!SetState(mem, "Failed").state = "Failed"
        /\ Cmd!SetState(mem, "Failed").pid = IF disk = "status" THEN status.pid ELSE mem.pid
    BY <1>2 DEF Cmd!States
  <2> QED BY <1>1, <1>7, <2>1, <2>2 DEF IInv, Cmd!TypeOK, Truth, PidInv,
       Cmd!PidSurvives, CancelInv, Cmd!CancelSticks, ReaperInv, Cmd!MemoryIsCurrent,
       Early, Cmd!StartFails, Cmd!Update, Cmd!Write, Cmd!WriteFails, Cmd!processes, Cmd!history
<1>8. CASE Cmd!RecordPid
  <2>1. Cmd!Flags'
    BY <1>1, <1>8 DEF Cmd!Flags, Cmd!RecordPid, Cmd!Update, Cmd!Write, Cmd!WriteFails,
         Cmd!processes
  <2>2. /\ Cmd!SetPid(mem, "runner") \in Cmd!Status
        /\ Cmd!SetPid(mem, "runner").pid = "runner"
        /\ Cmd!SetPid(mem, "runner").state = IF disk = "status" THEN status.state ELSE mem.state
    BY <1>3 DEF Cmd!Pids
  <2> QED BY <1>1, <1>8, <2>1, <2>2 DEF IInv, Cmd!TypeOK, Truth, PidInv,
       Cmd!PidSurvives, CancelInv, Cmd!CancelSticks, ReaperInv, Cmd!MemoryIsCurrent,
       Early, Cmd!RecordPid, Cmd!Update, Cmd!Write, Cmd!WriteFails, Cmd!processes
<1>9. CASE Cmd!Reap
  <2>1. Cmd!Flags'
    BY <1>1, <1>9 DEF Cmd!Flags, Cmd!Reap, Cmd!Update, Cmd!Write, Cmd!WriteFails, Cmd!processes,
         Cmd!history
  <2>2. /\ Cmd!SetPid(mem, "null") \in Cmd!Status
        /\ Cmd!SetPid(mem, "null").pid = "null"
        /\ Cmd!SetPid(mem, "null").state = IF disk = "status" THEN status.state ELSE mem.state
    BY <1>3 DEF Cmd!Pids
  <2> QED BY <1>1, <1>9, <2>1, <2>2 DEF IInv, Cmd!TypeOK, Truth, PidInv,
       Cmd!PidSurvives, CancelInv, Cmd!CancelSticks, ReaperInv, Cmd!MemoryIsCurrent,
       Early, Cmd!Reap, Cmd!Update, Cmd!Write, Cmd!WriteFails, Cmd!processes, Cmd!history
<1>10. CASE Cmd!MonitorStat
  <2>1. Cmd!Flags'
    BY <1>1, <1>10 DEF Cmd!Flags, Cmd!MonitorStat, Cmd!processes, Cmd!history
  <2> QED BY <1>1, <1>10, <2>1 DEF IInv, Cmd!TypeOK, Truth, PidInv, Cmd!PidSurvives,
       CancelInv, Cmd!CancelSticks, ReaperInv, Cmd!MemoryIsCurrent, Early,
       Cmd!MonitorStat, Cmd!processes, Cmd!history
<1>11. CASE Cmd!MonitorTick
  <2>1. Cmd!Flags'
    BY <1>1, <1>11 DEF Cmd!Flags, Cmd!MonitorTick, Cmd!processes, Cmd!history
  <2> QED BY <1>1, <1>11, <2>1 DEF IInv, Cmd!TypeOK, Truth, PidInv, Cmd!PidSurvives,
       CancelInv, Cmd!CancelSticks, ReaperInv, Cmd!MemoryIsCurrent, Early,
       Cmd!MonitorTick, Cmd!processes, Cmd!history
<1>12. CASE \E isRelease \in BOOLEAN : Cmd!Interrupt(isRelease)
  <2>1. Cmd!Flags'
    BY <1>1, <1>12 DEF Cmd!Flags, Cmd!Interrupt, Cmd!history
  <2> QED BY <1>1, <1>12, <2>1 DEF IInv, Cmd!TypeOK, Truth, PidInv, Cmd!PidSurvives,
       CancelInv, Cmd!CancelSticks, ReaperInv, Cmd!MemoryIsCurrent, Early, Cmd!Interrupt,
       Cmd!history
<1>13. CASE \E isRelease \in BOOLEAN : Cmd!NothingToCancel(isRelease)
  <2>1. Cmd!Flags'
    BY <1>1, <1>13 DEF Cmd!Flags, Cmd!NothingToCancel, Cmd!processes, Cmd!history
  <2> QED BY <1>1, <1>13, <2>1 DEF IInv, Cmd!TypeOK, Truth, PidInv, Cmd!PidSurvives,
       CancelInv, Cmd!CancelSticks, ReaperInv, Cmd!MemoryIsCurrent, Early,
       Cmd!NothingToCancel, Cmd!processes, Cmd!history
<1>14. CASE Cmd!AwaitExit
  <2>1. Cmd!Flags'
    BY <1>1, <1>14 DEF Cmd!Flags, Cmd!AwaitExit, Cmd!processes, Cmd!history
  <2> QED BY <1>1, <1>14, <2>1 DEF IInv, Cmd!TypeOK, Truth, PidInv, Cmd!PidSurvives,
       CancelInv, Cmd!CancelSticks, ReaperInv, Cmd!MemoryIsCurrent, Early, Cmd!AwaitExit,
       Cmd!processes, Cmd!history
<1>15. CASE Cmd!WriteCanceled
  <2>1. Cmd!Flags'
    BY <1>1, <1>15 DEF Cmd!Flags, Cmd!WriteCanceled, Cmd!Update, Cmd!Write, Cmd!WriteFails,
         Cmd!processes
  <2>2. /\ Cmd!SetState(mem, "Canceled") \in Cmd!Status
        /\ Cmd!SetState(mem, "Canceled").state = "Canceled"
        /\ Cmd!SetState(mem, "Canceled").pid = IF disk = "status" THEN status.pid ELSE mem.pid
    BY <1>2 DEF Cmd!States
  <2>3. Cmd!TypeOK'
    BY <1>1, <1>15, <2>1, <2>2 DEF Cmd!TypeOK, Cmd!WriteCanceled, Cmd!Update, Cmd!Write,
         Cmd!WriteFails, Cmd!processes
  <2>4. Truth'
    BY <1>1, <1>15, <2>2 DEF Truth, Cmd!WriteCanceled, Cmd!Update, Cmd!Write, Cmd!WriteFails,
         Cmd!processes
  <2>5. PidInv'
    BY <1>1, <1>15, <2>2 DEF Cmd!TypeOK, PidInv, Cmd!PidSurvives, Early,
         Cmd!WriteCanceled, Cmd!Update, Cmd!Write, Cmd!WriteFails, Cmd!processes
  <2>6. CancelInv'
    BY <1>1, <1>15, <2>2 DEF Cmd!TypeOK, CancelInv, Cmd!CancelSticks, Early,
         Cmd!WriteCanceled, Cmd!Update, Cmd!Write, Cmd!WriteFails, Cmd!processes
  <2>7. ReaperInv'
    BY <1>1, <1>15, <2>2 DEF Cmd!TypeOK, ReaperInv, Cmd!MemoryIsCurrent,
         Cmd!WriteCanceled, Cmd!Update, Cmd!Write, Cmd!WriteFails, Cmd!processes
  <2> QED BY <2>3, <2>4, <2>5, <2>6, <2>7 DEF IInv
<1>16. CASE Cmd!Remove
  <2>1. Cmd!Flags'
    BY <1>1, <1>16 DEF Cmd!Flags, Cmd!Remove, Cmd!processes, Cmd!history
  <2> QED BY <1>1, <1>16, <2>1 DEF IInv, Cmd!TypeOK, Truth, PidInv, Cmd!PidSurvives,
       CancelInv, Cmd!CancelSticks, ReaperInv, Cmd!MemoryIsCurrent, Early, Cmd!Remove,
       Cmd!processes, Cmd!history
<1>17. CASE Cmd!RunnerBegins
  <2>1. Cmd!Flags'
    BY <1>1, <1>17 DEF Cmd!Flags, Cmd!RunnerBegins, Cmd!RunnerUpdate, Cmd!Write, Cmd!WriteFails,
         Cmd!server, Cmd!history
  <2>2. /\ Cmd!SetState(rmem, "Pending") \in Cmd!Status
        /\ Cmd!SetState(rmem, "Pending").state = "Pending"
        /\ Cmd!SetState(rmem, "Pending").pid = IF disk = "status" THEN status.pid ELSE rmem.pid
    BY <1>2 DEF Cmd!States
  <2> QED BY <1>1, <1>17, <2>1, <2>2 DEF IInv, Cmd!TypeOK, Truth, PidInv,
       Cmd!PidSurvives, CancelInv, Cmd!CancelSticks, ReaperInv, Cmd!MemoryIsCurrent,
       Early, Cmd!RunnerBegins, Cmd!RunnerUpdate, Cmd!Write, Cmd!WriteFails, Cmd!server,
       Cmd!history
<1>18. CASE Cmd!InterruptKills
  <2>1. Cmd!Flags'
    BY <1>1, <1>18 DEF Cmd!Flags, Cmd!InterruptKills, Cmd!server, Cmd!history
  <2> QED BY <1>1, <1>18, <2>1 DEF IInv, Cmd!TypeOK, Truth, PidInv, Cmd!PidSurvives,
       CancelInv, Cmd!CancelSticks, ReaperInv, Cmd!MemoryIsCurrent, Early,
       Cmd!InterruptKills, Cmd!server, Cmd!history
<1>19. CASE Cmd!RunnerFails
  <2>1. Cmd!Flags'
    BY <1>1, <1>19 DEF Cmd!Flags, Cmd!RunnerFails, Cmd!Write, Cmd!WriteFails, Cmd!server,
         Cmd!history
  <2>2. /\ Cmd!SetState(Cmd!Unset, "Failed") \in Cmd!Status
        /\ Cmd!SetState(Cmd!Unset, "Failed").state = "Failed"
        /\ Cmd!SetState(Cmd!Unset, "Failed").pid = IF disk = "status" THEN status.pid ELSE "null"
    BY <1>1, MergedStatus DEF Cmd!States, Cmd!Pids, Cmd!Unset
  <2> QED BY <1>1, <1>19, <2>1, <2>2 DEF IInv, Cmd!TypeOK, Truth, PidInv,
       Cmd!PidSurvives, CancelInv, Cmd!CancelSticks, ReaperInv, Cmd!MemoryIsCurrent,
       Early, Cmd!RunnerFails, Cmd!Write, Cmd!WriteFails, Cmd!server, Cmd!history
<1>20. CASE Cmd!StartCommand
  <2>1. Cmd!Flags'
    BY <1>1, <1>20 DEF Cmd!Flags, Cmd!StartCommand, Cmd!server, Cmd!history
  <2> QED BY <1>1, <1>20, <2>1 DEF IInv, Cmd!TypeOK, Truth, PidInv, Cmd!PidSurvives,
       CancelInv, Cmd!CancelSticks, ReaperInv, Cmd!MemoryIsCurrent, Early,
       Cmd!StartCommand, Cmd!server, Cmd!history
<1>21. CASE Cmd!RunnerGivesUp
  <2>1. Cmd!Flags'
    BY <1>1, <1>21 DEF Cmd!Flags, Cmd!RunnerGivesUp, Cmd!server, Cmd!history
  <2> QED BY <1>1, <1>21, <2>1 DEF IInv, Cmd!TypeOK, Truth, PidInv, Cmd!PidSurvives,
       CancelInv, Cmd!CancelSticks, ReaperInv, Cmd!MemoryIsCurrent, Early,
       Cmd!RunnerGivesUp, Cmd!server, Cmd!history
<1>22. CASE Cmd!RunnerDone
  <2>1. Cmd!Flags'
    BY <1>1, <1>22 DEF Cmd!Flags, Cmd!RunnerDone, Cmd!RunnerUpdate, Cmd!Write, Cmd!WriteFails,
         Cmd!Result, Cmd!server, Cmd!history
  <2>2. /\ Cmd!SetState(rmem, Cmd!Result) \in Cmd!Status
        /\ Cmd!SetState(rmem, Cmd!Result).state = Cmd!Result
        /\ Cmd!SetState(rmem, Cmd!Result).pid = IF disk = "status" THEN status.pid ELSE rmem.pid
    BY <1>2 DEF Cmd!States, Cmd!Result
  <2>3. Cmd!TypeOK'
    BY <1>1, <1>22, <2>1, <2>2 DEF Cmd!TypeOK, Cmd!RunnerDone, Cmd!RunnerUpdate, Cmd!Write,
         Cmd!WriteFails, Cmd!Result, Cmd!server, Cmd!history
  <2>4. Truth'
    BY <1>1, <1>22, <2>2 DEF Truth, Cmd!RunnerDone, Cmd!RunnerUpdate, Cmd!Write,
         Cmd!WriteFails, Cmd!Result, Cmd!server, Cmd!history
  <2>5. PidInv'
    BY <1>1, <1>22, <2>2 DEF Cmd!TypeOK, PidInv, Cmd!PidSurvives, Early, Cmd!RunnerDone,
         Cmd!RunnerUpdate, Cmd!Write, Cmd!WriteFails, Cmd!Result, Cmd!server, Cmd!history
  <2>6. CancelInv'
    BY <1>1, <1>22, <2>2 DEF Cmd!TypeOK, CancelInv, Cmd!CancelSticks, Early,
         Cmd!RunnerDone, Cmd!RunnerUpdate, Cmd!Write, Cmd!WriteFails, Cmd!Result, Cmd!server,
         Cmd!history
  <2>7. ReaperInv'
    BY <1>1, <1>22, <2>2 DEF Cmd!TypeOK, ReaperInv, Cmd!MemoryIsCurrent, Cmd!RunnerDone,
         Cmd!RunnerUpdate, Cmd!Write, Cmd!WriteFails, Cmd!Result, Cmd!server, Cmd!history
  <2> QED BY <2>3, <2>4, <2>5, <2>6, <2>7 DEF IInv
<1>23. CASE Cmd!RunnerTerm
  <2>1. Cmd!Flags'
    BY <1>1, <1>23 DEF Cmd!Flags, Cmd!RunnerTerm, Cmd!RunnerUpdate, Cmd!Write, Cmd!WriteFails,
         Cmd!server, Cmd!history
  <2>2. /\ Cmd!SetState(rmem, "Failed") \in Cmd!Status
        /\ Cmd!SetState(rmem, "Failed").state = "Failed"
        /\ Cmd!SetState(rmem, "Failed").pid = IF disk = "status" THEN status.pid ELSE rmem.pid
    BY <1>2 DEF Cmd!States
  <2> QED BY <1>1, <1>23, <2>1, <2>2 DEF IInv, Cmd!TypeOK, Truth, PidInv,
       Cmd!PidSurvives, CancelInv, Cmd!CancelSticks, ReaperInv, Cmd!MemoryIsCurrent,
       Early, Cmd!RunnerTerm, Cmd!RunnerUpdate, Cmd!Write, Cmd!WriteFails, Cmd!server,
       Cmd!history
<1>24. CASE Cmd!RunnerExits
  <2>1. Cmd!Flags'
    BY <1>1, <1>24 DEF Cmd!Flags, Cmd!RunnerExits, Cmd!server, Cmd!history
  <2> QED BY <1>1, <1>24, <2>1 DEF IInv, Cmd!TypeOK, Truth, PidInv, Cmd!PidSurvives,
       CancelInv, Cmd!CancelSticks, ReaperInv, Cmd!MemoryIsCurrent, Early,
       Cmd!RunnerExits, Cmd!server, Cmd!history
<1>25. CASE Cmd!RunnerTick
  <2>1. Cmd!Flags'
    BY <1>1, <1>25 DEF Cmd!Flags, Cmd!RunnerTick, Cmd!RunnerUpdate, Cmd!Write, Cmd!WriteFails,
         Cmd!server, Cmd!history
  <2>2. /\ Cmd!SetState(rmem, "Running") \in Cmd!Status
        /\ Cmd!SetState(rmem, "Running").state = "Running"
        /\ Cmd!SetState(rmem, "Running").pid = IF disk = "status" THEN status.pid ELSE rmem.pid
    BY <1>2 DEF Cmd!States
  <2> QED BY <1>1, <1>25, <2>1, <2>2 DEF IInv, Cmd!TypeOK, Truth, PidInv,
       Cmd!PidSurvives, CancelInv, Cmd!CancelSticks, ReaperInv, Cmd!MemoryIsCurrent,
       Early, Cmd!RunnerTick, Cmd!RunnerUpdate, Cmd!Write, Cmd!WriteFails, Cmd!server,
       Cmd!history
<1>26. CASE Cmd!CommandEnds
  <2>1. Cmd!Flags'
    BY <1>1, <1>26 DEF Cmd!Flags, Cmd!CommandEnds, Cmd!server, Cmd!history
  <2> QED BY <1>1, <1>26, <2>1 DEF IInv, Cmd!TypeOK, Truth, PidInv, Cmd!PidSurvives,
       CancelInv, Cmd!CancelSticks, ReaperInv, Cmd!MemoryIsCurrent, Early,
       Cmd!CommandEnds, Cmd!server, Cmd!history
<1>27. CASE Cmd!Crash
  <2>1. Cmd!Flags'
    BY <1>1, <1>27 DEF Cmd!Flags, Cmd!Crash, Cmd!ServerLost, Cmd!Interrupted, Cmd!processes
  <2>3. Cmd!TypeOK'
    BY <1>1, <1>27, <2>1 DEF Cmd!TypeOK, Cmd!Crash, Cmd!ServerLost,
         Cmd!Interrupted, Cmd!processes
  <2>4. Truth'
    BY <1>1, <1>27 DEF Truth, Cmd!Crash, Cmd!ServerLost, Cmd!Interrupted, Cmd!processes
  <2>5. PidInv'
    BY <1>1, <1>27 DEF Cmd!TypeOK, PidInv, Cmd!PidSurvives, Early, Cmd!Crash, Cmd!ServerLost,
         Cmd!Interrupted, Cmd!processes
  <2>6. CancelInv'
    BY <1>1, <1>27 DEF Cmd!TypeOK, CancelInv, Cmd!CancelSticks, Early, Cmd!Crash,
         Cmd!ServerLost, Cmd!Interrupted, Cmd!processes
  <2>7. ReaperInv'
    BY <1>1, <1>27 DEF Cmd!TypeOK, ReaperInv, Cmd!MemoryIsCurrent, Cmd!Crash, Cmd!ServerLost,
         Cmd!Interrupted, Cmd!processes
  <2> QED BY <2>3, <2>4, <2>5, <2>6, <2>7 DEF IInv
<1>28. CASE Cmd!HostCrash
  <2>1. Cmd!Flags'
    BY <1>1, <1>28 DEF Cmd!Flags, Cmd!HostCrash, Cmd!ServerLost, Cmd!Interrupted
  <2>3. Cmd!TypeOK'
    BY <1>1, <1>28, <2>1 DEF Cmd!TypeOK, Cmd!HostCrash,
         Cmd!ServerLost, Cmd!Interrupted
  <2>4. Truth'
    BY <1>1, <1>28 DEF Truth, Cmd!HostCrash, Cmd!ServerLost, Cmd!Interrupted
  <2>5. PidInv'
    BY <1>1, <1>28 DEF Cmd!TypeOK, PidInv, Cmd!PidSurvives, Early, Cmd!HostCrash,
         Cmd!ServerLost, Cmd!Interrupted
  <2>6. CancelInv'
    BY <1>1, <1>28 DEF Cmd!TypeOK, CancelInv, Cmd!CancelSticks, Early, Cmd!HostCrash,
         Cmd!ServerLost, Cmd!Interrupted
  <2>7. ReaperInv'
    BY <1>1, <1>28 DEF Cmd!TypeOK, ReaperInv, Cmd!MemoryIsCurrent, Cmd!HostCrash,
         Cmd!ServerLost, Cmd!Interrupted
  <2> QED BY <2>3, <2>4, <2>5, <2>6, <2>7 DEF IInv
<1>29. CASE Cmd!Load
  <2>1. Cmd!Flags'
    BY <1>1, <1>29 DEF Cmd!Flags, Cmd!Load, Cmd!processes, Cmd!history
  <2> QED BY <1>1, <1>29, <2>1 DEF IInv, Cmd!TypeOK, Truth, PidInv, Cmd!PidSurvives,
       CancelInv, Cmd!CancelSticks, ReaperInv, Cmd!MemoryIsCurrent, Early, Cmd!Load,
       Cmd!processes, Cmd!history
<1>30. CASE Cmd!LoadUnknown
  <2>1. Cmd!Flags'
    BY <1>1, <1>30 DEF Cmd!Flags, Cmd!LoadUnknown, Cmd!processes, Cmd!history
  <2> QED BY <1>1, <1>30, <2>1 DEF IInv, Cmd!TypeOK, Truth, PidInv, Cmd!PidSurvives,
       CancelInv, Cmd!CancelSticks, ReaperInv, Cmd!MemoryIsCurrent, Early,
       Cmd!LoadUnknown, Cmd!processes, Cmd!history
<1>31. CASE Cmd!LoadFails
  <2>1. Cmd!Flags'
    BY <1>1, <1>31 DEF Cmd!Flags, Cmd!LoadFails, Cmd!Update, Cmd!Write, Cmd!WriteFails,
         Cmd!processes,
         Cmd!history
  <2>2. [state |-> "Failed", pid |-> "null", known |-> FALSE] \in Cmd!Status
    BY DEF Cmd!Status, Cmd!States, Cmd!Pids
  <2>3. Cmd!TypeOK'
    BY <1>1, <1>31, <2>1, <2>2 DEF Cmd!TypeOK, Cmd!LoadFails, Cmd!Update, Cmd!Write,
         Cmd!WriteFails, Cmd!processes, Cmd!history
  <2>4. Truth'
    BY <1>1, <1>31, <2>2 DEF Truth, Cmd!LoadFails, Cmd!Update, Cmd!Write, Cmd!WriteFails,
         Cmd!processes, Cmd!history
  <2>5. PidInv'
    BY <1>1, <1>31, <2>2 DEF Cmd!TypeOK, PidInv, Cmd!PidSurvives, Early, Cmd!LoadFails,
         Cmd!Update, Cmd!Write, Cmd!WriteFails, Cmd!processes, Cmd!history
  <2>6. CancelInv'
    BY <1>1, <1>31, <2>2 DEF Cmd!TypeOK, CancelInv, Cmd!CancelSticks, Early, PidInv,
         Cmd!LoadFails, Cmd!Update, Cmd!Write, Cmd!WriteFails, Cmd!processes, Cmd!history
  <2>7. ReaperInv'
    BY <1>1, <1>31, <2>2 DEF Cmd!TypeOK, ReaperInv, Cmd!MemoryIsCurrent, Cmd!LoadFails,
         Cmd!Update, Cmd!Write, Cmd!WriteFails, Cmd!processes, Cmd!history
  <2> QED BY <2>3, <2>4, <2>5, <2>6, <2>7 DEF IInv
<1>32. CASE Cmd!Recover
  <2>1. Cmd!Flags'
    BY <1>1, <1>32 DEF Cmd!Flags, Cmd!Recover, Cmd!Update, Cmd!Write, Cmd!WriteFails,
         Cmd!LostWorker,
         Cmd!IsComplete, Cmd!processes, Cmd!history
  <2>2. /\ Cmd!SetState(mem, "Failed") \in Cmd!Status
        /\ Cmd!SetState(mem, "Failed").state = "Failed"
        /\ Cmd!SetState(mem, "Failed").pid = IF disk = "status" THEN status.pid ELSE mem.pid
    BY <1>2 DEF Cmd!States
  <2>3. Cmd!TypeOK'
    BY <1>1, <1>32, <2>1, <2>2 DEF Cmd!TypeOK, Cmd!Recover, Cmd!Update, Cmd!Write,
         Cmd!WriteFails,
         Cmd!LostWorker, Cmd!IsComplete, Cmd!processes, Cmd!history
  <2>4. Truth'
    BY <1>1, <1>32, <2>2 DEF Truth, Cmd!Recover, Cmd!Update, Cmd!Write, Cmd!WriteFails,
         Cmd!LostWorker, Cmd!IsComplete, Cmd!processes, Cmd!history
  <2>5. PidInv'
    BY <1>1, <1>32, <2>2 DEF Cmd!TypeOK, PidInv, Cmd!PidSurvives, Early, Cmd!Recover,
         Cmd!Update, Cmd!Write, Cmd!WriteFails, Cmd!LostWorker, Cmd!IsComplete, Cmd!processes,
         Cmd!history
  <2>6. CancelInv'
    BY <1>1, <1>32, <2>2 DEF Cmd!TypeOK, CancelInv, Cmd!CancelSticks, Early, Cmd!Recover,
         Cmd!Update, Cmd!Write, Cmd!WriteFails, Cmd!LostWorker, Cmd!IsComplete, Cmd!processes,
         Cmd!history
  <2>7. ReaperInv'
    BY <1>1, <1>32, <2>2 DEF Cmd!TypeOK, ReaperInv, Cmd!MemoryIsCurrent, Cmd!Recover,
         Cmd!Update, Cmd!Write, Cmd!WriteFails, Cmd!LostWorker, Cmd!IsComplete, Cmd!processes,
         Cmd!history
  <2> QED BY <2>3, <2>4, <2>5, <2>6, <2>7 DEF IInv
<1>33. CASE UNCHANGED commandVars
  <2>1. Cmd!Flags'
    BY <1>1, <1>33 DEF Cmd!Flags, commandVars
  <2> QED BY <1>1, <1>33, <2>1 DEF IInv, Cmd!TypeOK, Truth, PidInv, Cmd!PidSurvives,
       CancelInv, Cmd!CancelSticks, ReaperInv, Cmd!MemoryIsCurrent, Early, commandVars
<1> QED BY <1>4, <1>5, <1>6, <1>7, <1>8, <1>9, <1>10, <1>11, <1>12, <1>13,
     <1>14, <1>15, <1>16, <1>17, <1>18, <1>19, <1>20, <1>21, <1>22, <1>23,
     <1>24, <1>25, <1>26, <1>27, <1>28, <1>29, <1>30, <1>31, <1>32, <1>33 DEF
     Cmd!Next, Cmd!Submission, Cmd!Caller, Cmd!Runner, Cmd!Starting

(* The invariant holds in every reachable state: server, runner, monitor,  *)
(* reaper and callers in any order, with any number of crashes.            *)
THEOREM Invariance == ControlSpec => []IInv
<1>1. ControlInit => IInv
  BY InitIInv DEF ControlInit
<1>2. IInv /\ [ControlNext]_controlVars => IInv'
  BY NextIInv DEF ControlNext, controlVars
<1> QED BY <1>1, <1>2, PTL DEF ControlSpec

(* Types, and that no thread of a crashed server goes on.                  *)
THEOREM TypeCorrect == ControlSpec => []Cmd!TypeOK
<1>1. IInv => Cmd!TypeOK
  BY DEF IInv
<1> QED BY <1>1, Invariance, PTL

(* A unit is reported as Succeeded only if its command succeeded, in the   *)
(* file and in the server's memory.                                        *)
THEOREM TrueSuccess == ControlSpec => []SucceededIsTrue
<1>1. IInv => SucceededIsTrue
  BY DEF IInv, Truth, SucceededIsTrue, Cmd!SucceededIsTrue
<1> QED BY <1>1, Invariance, PTL

(* The updates of server and runner do not lose the recorded pid.          *)
THEOREM PidKept == ControlSpec => []PidSurvives
<1>1. IInv => PidSurvives
  BY DEF IInv, PidInv, PidSurvives
<1> QED BY <1>1, Invariance, PTL

(* A unit cancelled by the server that started it stays Canceled.          *)
THEOREM CanceledForGood == ControlSpec => []CancelSticks
<1>1. IInv => CancelSticks
  BY DEF IInv, CancelInv, CancelSticks
<1> QED BY <1>1, Invariance, PTL

(* Once the reaper is done the server's copy is the file.                  *)
THEOREM CurrentAfterReaper == ControlSpec => []Cmd!MemoryIsCurrent
<1>1. IInv => Cmd!MemoryIsCurrent
  BY DEF IInv, ReaperInv
<1> QED BY <1>1, Invariance, PTL
=============================================================================
