-------------------------- MODULE RemoteWorkProofs --------------------------
(***************************************************************************)
(* Proofs about RemoteWork, for any number of callers and crashes and any  *)
(* amount of output.                                                       *)
(***************************************************************************)
EXTENDS RemoteWork, TLAPS

(* What a job may be for, and what is known when it exists: jobs other     *)
(* than the submission, and calls that wait for one, exist only for work   *)
(* that has started.                                                       *)
JobsFit ==
    /\ at \in {"submit", "reply", "stdin", "confirm"} => job = "start"
    /\ at \in {"signal", "answer", "remove"} => job \in {"cancel", "release"}
    /\ at \in {"dial", "redial"} => job # "monitor"
    /\ job \in {"cancel", "release", "monitor"} => st.started
    /\ \A c \in Callers :
          /\ call[c].pc = "newjob" => ~call[c].local
          /\ call[c].pc \in {"stop", "newjob", "wait", "waiting", "over"} /\ ~call[c].local
             => st.started /\ call[c].op # "force"

(* There is a remote unit wherever one is assumed, and none before the     *)
(* only submission.                                                        *)
RemoteFits ==
    /\ session \in {"input", "start"} => job = "none" /\ ~st.started /\ remote = "none"
    /\ session = "adopt" => remote # "none"
    /\ st.started => remote # "none"
    /\ at = "monitor" => remote # "none"
    /\ at \in {"dial", "redial", "submit"} /\ job = "start" => remote = "none"

Once ==
    /\ starts <= 1
    /\ remote \in {"none", "input", "ready"} => starts = 0

(* A success that is known here is final there.                            *)
SuccessFits ==
    /\ remote = "Succeeded" => success
    /\ st.state = "Succeeded" =>
          success /\ st.size = output /\ remote \notin {"none", "input", "ready", "running"}

OutputFits ==
    /\ stdout <= output
    /\ remote = "none" => stdout = 0

(* Who removes the files has a reason to.                                  *)
RemovalFits ==
    /\ ~dir /\ ~early /\ ~forced => remote = "gone"
    /\ at = "remove" => remote = "gone"
    /\ at = "answer" /\ job = "release" => remote = "gone"
    /\ \A c \in Callers :
          /\ call[c].pc # "idle" /\ call[c].op # "cancel" /\ call[c].local => early
          /\ call[c].pc \in {"force", "remove"} => forced

IInv ==
    /\ TypeOK /\ JobsFit /\ RemoteFits /\ Once /\ SuccessFits /\ OutputFits
    /\ RemovalFits

-----------------------------------------------------------------------------
(* What an update leaves in the status.                                    *)
LEMMA SetStateStatus ==
    ASSUME st \in Status, NEW state \in States, NEW size \in 0..MaxOutput
    PROVE  /\ SetState(state, size) \in Status
           /\ SetState(state, size).state = state
           /\ SetState(state, size).size = size
           /\ SetState(state, size).started = st.started
BY DEF SetState, Status

LEMMA FailedStatus ==
    ASSUME st \in Status
    PROVE  LET new == [st EXCEPT !.state = "Failed"]
           IN  /\ new \in Status
               /\ new.state = "Failed"
               /\ new.started = st.started
BY DEF Status, States

(* The end of a job or of its first attempt changes where callers are, and *)
(* nothing else about a call that goes on.                                 *)
LEMMA WokenCalls ==
    ASSUME NEW calls \in [Callers -> Calls]
    PROVE  /\ Woken(calls) \in [Callers -> Calls]
           /\ \A c \in Callers :
                 /\ Woken(calls)[c].op = calls[c].op
                 /\ Woken(calls)[c].local = calls[c].local
                 /\ Woken(calls)[c].pc = IF calls[c].pc = "waiting" THEN "over"
                                        ELSE calls[c].pc
BY DEF Woken, Calls

LEMMA ReturnedCalls ==
    ASSUME call \in [Callers -> Calls]
    PROVE  /\ Returned \in [Callers -> Calls]
           /\ \A c \in Callers : Returned[c] \in {Idle, call[c]}
BY DEF Returned, Calls, Idle

-----------------------------------------------------------------------------
LEMMA InitIInv == Init => IInv
<1> SUFFICES ASSUME Init PROVE IInv
  OBVIOUS
<1>1. NewStatus \in Status /\ Idle \in Calls /\ Idle.pc = "idle"
  BY RemoteWorkAssumption DEF NewStatus, Status, States, Idle, Calls
<1>2. NewStatus.started = FALSE /\ NewStatus.state = "Pending"
  BY DEF NewStatus
<1>3. Flags
  BY DEF Init, Flags
<1>4. TypeOK
  BY <1>1, <1>3, RemoteWorkAssumption DEF Init, TypeOK
<1>5. JobsFit /\ RemoteFits
  BY <1>1, <1>2 DEF Init, JobsFit, RemoteFits
<1>6. Once /\ SuccessFits /\ OutputFits
  BY <1>2 DEF Init, Once, SuccessFits, OutputFits
<1>7. RemovalFits
  BY <1>1 DEF Init, RemovalFits
<1> QED BY <1>4, <1>5, <1>6, <1>7 DEF IInv

(* Every step keeps the invariant.                                         *)
LEMMA NextIInv == IInv /\ [Next]_vars => IInv'
<1> SUFFICES ASSUME IInv, [Next]_vars PROVE IInv'
  OBVIOUS
<1>1. TypeOK /\ JobsFit /\ RemoteFits /\ Once /\ SuccessFits /\ OutputFits /\ RemovalFits
  BY DEF IInv
<1>2. /\ st \in Status /\ call \in [Callers -> Calls] /\ Flags
      /\ stdout \in 0..MaxOutput /\ output \in 0..MaxOutput
  BY <1>1 DEF TypeOK
<1>3. 0 \in 0..MaxOutput /\ MaxOutput \in Nat /\ MaxCrashes \in Nat
  BY RemoteWorkAssumption
<1>4. CASE InputFails
  <2>1. /\ SetState("Failed", 0) \in Status
        /\ SetState("Failed", 0).state = "Failed"
        /\ SetState("Failed", 0).size = 0
        /\ SetState("Failed", 0).started = st.started
    BY <1>2, <1>3, SetStateStatus DEF States
  <2>2. Flags'
    BY <1>2, <1>4 DEF Flags, InputFails, Update, worker, monitors, far,
         history
  <2>3. TypeOK'
    BY <1>1, <1>3, <1>4, <2>1, <2>2 DEF TypeOK, Calls, Idle, Exchange,
         InputFails, Update, worker, monitors, far, history
  <2>4. JobsFit' /\ RemoteFits' /\ Once' /\ SuccessFits' /\ OutputFits' /\ RemovalFits'
    BY <1>1, <1>4, <2>1 DEF JobsFit, RemoteFits, Once, SuccessFits,
         OutputFits, RemovalFits, TypeOK, Calls, Idle, InputFails, Update,
         worker, monitors, far, history
  <2> QED BY <2>3, <2>4 DEF IInv
<1>5. CASE InputRead
  <2>1. /\ SetState("Pending", 0) \in Status
        /\ SetState("Pending", 0).state = "Pending"
        /\ SetState("Pending", 0).size = 0
        /\ SetState("Pending", 0).started = st.started
    BY <1>2, <1>3, SetStateStatus DEF States
  <2>2. Flags'
    BY <1>2, <1>5 DEF Flags, InputRead, Update, worker, monitors, far,
         history
  <2>3. TypeOK'
    BY <1>1, <1>3, <1>5, <2>1, <2>2 DEF TypeOK, Calls, Idle, Exchange,
         InputRead, Update, worker, monitors, far, history
  <2>4. JobsFit' /\ RemoteFits' /\ Once' /\ SuccessFits' /\ OutputFits' /\ RemovalFits'
    BY <1>1, <1>5, <2>1 DEF JobsFit, RemoteFits, Once, SuccessFits,
         OutputFits, RemovalFits, TypeOK, Calls, Idle, InputRead, Update,
         worker, monitors, far, history
  <2> QED BY <2>3, <2>4 DEF IInv
<1>6. CASE Start
  <2>1. Flags'
    BY <1>2, <1>6 DEF Flags, Start, NewJob, unit, monitors, far, history
  <2>2. TypeOK'
    BY <1>1, <1>3, <1>6, <2>1 DEF TypeOK, Calls, Idle, Exchange, Start,
         NewJob, unit, monitors, far, history
  <2>3. JobsFit' /\ RemoteFits' /\ Once' /\ SuccessFits' /\ OutputFits' /\ RemovalFits'
    BY <1>1, <1>6 DEF JobsFit, RemoteFits, Once, SuccessFits, OutputFits,
         RemovalFits, TypeOK, Calls, Idle, Start, NewJob, unit, monitors,
         far, history
  <2> QED BY <2>2, <2>3 DEF IInv
<1>7. CASE Adopt
  <2>1. LET new == [SetState("Pending", 0) EXCEPT !.started = TRUE, !.adopted = TRUE]
      IN  new \in Status /\ new.state = "Pending" /\ new.started
    BY <1>2, <1>3 DEF SetState, Status, States
  <2>2. Flags'
    BY <1>2, <1>7 DEF Flags, Adopt, Update, worker, monitors, far, history
  <2>3. TypeOK'
    BY <1>1, <1>3, <1>7, <2>1, <2>2 DEF TypeOK, Calls, Idle, Exchange,
         Adopt, Update, worker, monitors, far, history
  <2>4. JobsFit' /\ RemoteFits' /\ Once' /\ SuccessFits' /\ OutputFits' /\ RemovalFits'
    BY <1>1, <1>7, <2>1 DEF JobsFit, RemoteFits, Once, SuccessFits,
         OutputFits, RemovalFits, TypeOK, Calls, Idle, Adopt, Update,
         worker, monitors, far, history
  <2> QED BY <2>3, <2>4 DEF IInv
<1>8. CASE ResumeAdopted
  <2>1. Flags'
    BY <1>2, <1>8 DEF Flags, ResumeAdopted, Resume, ResumeKind, NewJob,
         Monitoring, unit, worker, monitors, far, history
  <2>2. TypeOK'
    BY <1>1, <1>3, <1>8, <2>1 DEF TypeOK, Calls, Idle, Exchange,
         ResumeAdopted, Resume, ResumeKind, NewJob, Monitoring, unit,
         worker, monitors, far, history
  <2>3. JobsFit' /\ RemoteFits' /\ Once' /\ SuccessFits' /\ OutputFits' /\ RemovalFits'
    BY <1>1, <1>8 DEF JobsFit, RemoteFits, Once, SuccessFits, OutputFits,
         RemovalFits, TypeOK, Calls, Idle, ResumeAdopted, Resume,
         ResumeKind, NewJob, Monitoring, unit, worker, monitors, far,
         history
  <2> QED BY <2>2, <2>3 DEF IInv
<1>9. CASE Restart
  <2>1. Flags'
    BY <1>2, <1>9 DEF Flags, Restart, Resume, ResumeKind, NewJob,
         Monitoring, unit, worker, monitors, far, history
  <2>2. TypeOK'
    BY <1>1, <1>3, <1>9, <2>1 DEF TypeOK, Calls, Idle, Exchange, Restart,
         Resume, ResumeKind, NewJob, Monitoring, unit, worker, monitors,
         far, history
  <2>3. JobsFit' /\ RemoteFits' /\ Once' /\ SuccessFits' /\ OutputFits' /\ RemovalFits'
    BY <1>1, <1>9 DEF JobsFit, RemoteFits, Once, SuccessFits, OutputFits,
         RemovalFits, TypeOK, Calls, Idle, Restart, Resume, ResumeKind,
         NewJob, Monitoring, unit, worker, monitors, far, history
  <2> QED BY <2>2, <2>3 DEF IInv
<1>10. CASE SessionFails
  <2>1. /\ SetState("Failed", 0) \in Status
        /\ SetState("Failed", 0).state = "Failed"
        /\ SetState("Failed", 0).size = 0
        /\ SetState("Failed", 0).started = st.started
    BY <1>2, <1>3, SetStateStatus DEF States
  <2>2. /\ SetState("Failed", stdout) \in Status
        /\ SetState("Failed", stdout).state = "Failed"
        /\ SetState("Failed", stdout).started = st.started
    BY <1>2, SetStateStatus DEF States
  <2>3. Flags'
    BY <1>2, <1>10 DEF Flags, SessionFails, Update, worker, monitors, far,
         history
  <2>4. TypeOK'
    BY <1>1, <1>3, <1>10, <2>1, <2>2, <2>3 DEF TypeOK, Calls, Idle,
         Exchange, SessionFails, Update, worker, monitors, far, history
  <2>5. JobsFit' /\ RemoteFits' /\ Once' /\ SuccessFits' /\ OutputFits' /\ RemovalFits'
    BY <1>1, <1>10, <2>1, <2>2 DEF JobsFit, RemoteFits, Once, SuccessFits,
         OutputFits, RemovalFits, TypeOK, Calls, Idle, SessionFails, Update,
         worker, monitors, far, history
  <2> QED BY <2>4, <2>5 DEF IInv
<1>11. CASE Connect
  <2>1. Flags'
    BY <1>2, <1>11 DEF Flags, Connect, Moves, monitors, far, history
  <2>2. TypeOK'
    BY <1>1, <1>3, <1>11, <2>1 DEF TypeOK, Calls, Idle, Exchange, Connect,
         Moves, monitors, far, history
  <2>3. JobsFit' /\ RemoteFits' /\ Once' /\ SuccessFits' /\ OutputFits' /\ RemovalFits'
    BY <1>1, <1>11 DEF JobsFit, RemoteFits, Once, SuccessFits, OutputFits,
         RemovalFits, TypeOK, Calls, Idle, Connect, Moves, monitors, far,
         history
  <2> QED BY <2>2, <2>3 DEF IInv
<1>12. CASE DialFails
  <2>1. /\ Returned \in [Callers -> Calls]
        /\ \A c \in Callers :
              Returned[c].pc = "idle" \/ Returned[c] = call[c]
    BY <1>2, ReturnedCalls DEF Idle
  <2>2. Flags'
    BY <1>2, <1>12 DEF Flags, DialFails, GoesOn, Returns, monitors, far,
         history
  <2>3. TypeOK'
    BY <1>1, <1>3, <1>12, <2>1, <2>2 DEF TypeOK, Calls, Idle, Exchange,
         DialFails, GoesOn, Returns, monitors, far, history
  <2>4. JobsFit' /\ RemoteFits' /\ Once' /\ SuccessFits' /\ OutputFits' /\ RemovalFits'
    BY <1>1, <1>12, <2>1 DEF JobsFit, RemoteFits, Once, SuccessFits,
         OutputFits, RemovalFits, TypeOK, Calls, Idle, DialFails, GoesOn,
         Returns, monitors, far, history
  <2> QED BY <2>3, <2>4 DEF IInv
<1>13. CASE RedialStops
  <2>1. /\ Returned \in [Callers -> Calls]
        /\ \A c \in Callers :
              Returned[c].pc = "idle" \/ Returned[c] = call[c]
    BY <1>2, ReturnedCalls DEF Idle
  <2>2. /\ Woken(Returned) \in [Callers -> Calls]
        /\ \A c \in Callers :
              /\ Woken(Returned)[c].op = Returned[c].op
              /\ Woken(Returned)[c].local = Returned[c].local
              /\ Woken(Returned)[c].pc = IF Returned[c].pc = "waiting" THEN "over"
                                        ELSE Returned[c].pc
    BY <2>1, WokenCalls
  <2>3. Flags'
    BY <1>2, <1>13 DEF Flags, RedialStops, WorkerDone, Returns, monitors,
         far, history
  <2>4. TypeOK'
    BY <1>1, <1>3, <1>13, <2>1, <2>2, <2>3 DEF TypeOK, Calls, Idle,
         Exchange, RedialStops, WorkerDone, Returns, monitors, far, history
  <2>5. JobsFit' /\ RemoteFits' /\ Once' /\ SuccessFits' /\ OutputFits' /\ RemovalFits'
    BY <1>1, <1>13, <2>1, <2>2 DEF JobsFit, RemoteFits, Once, SuccessFits,
         OutputFits, RemovalFits, TypeOK, Calls, Idle, RedialStops,
         WorkerDone, Returns, monitors, far, history
  <2> QED BY <2>4, <2>5 DEF IInv
<1>14. CASE RedialFatal
  <2>1. /\ Returned \in [Callers -> Calls]
        /\ \A c \in Callers :
              Returned[c].pc = "idle" \/ Returned[c] = call[c]
    BY <1>2, ReturnedCalls DEF Idle
  <2>2. /\ Woken(Returned) \in [Callers -> Calls]
        /\ \A c \in Callers :
              /\ Woken(Returned)[c].op = Returned[c].op
              /\ Woken(Returned)[c].local = Returned[c].local
              /\ Woken(Returned)[c].pc = IF Returned[c].pc = "waiting" THEN "over"
                                        ELSE Returned[c].pc
    BY <2>1, WokenCalls
  <2>3. LET new == [st EXCEPT !.state = "Failed"]
      IN  new \in Status /\ new.state = "Failed" /\ new.started = st.started
    BY <1>2, FailedStatus
  <2>4. Flags'
    BY <1>2, <1>14 DEF Flags, RedialFatal, WorkerDone, Returns, Update,
         monitors, far, history
  <2>5. TypeOK'
    BY <1>1, <1>3, <1>14, <2>1, <2>2, <2>3, <2>4 DEF TypeOK, Calls, Idle,
         Exchange, RedialFatal, WorkerDone, Returns, Update, monitors, far,
         history
  <2>6. JobsFit' /\ RemoteFits' /\ Once' /\ SuccessFits' /\ OutputFits' /\ RemovalFits'
    BY <1>1, <1>14, <2>1, <2>2, <2>3 DEF JobsFit, RemoteFits, Once,
         SuccessFits, OutputFits, RemovalFits, TypeOK, Calls, Idle,
         RedialFatal, WorkerDone, Returns, Update, monitors, far, history
  <2> QED BY <2>5, <2>6 DEF IInv
<1>15. CASE ExchangeFails
  <2>1. /\ Returned \in [Callers -> Calls]
        /\ \A c \in Callers :
              Returned[c].pc = "idle" \/ Returned[c] = call[c]
    BY <1>2, ReturnedCalls DEF Idle
  <2>2. /\ Woken(Returned) \in [Callers -> Calls]
        /\ \A c \in Callers :
              /\ Woken(Returned)[c].op = Returned[c].op
              /\ Woken(Returned)[c].local = Returned[c].local
              /\ Woken(Returned)[c].pc = IF Returned[c].pc = "waiting" THEN "over"
                                        ELSE Returned[c].pc
    BY <2>1, WokenCalls
  <2>3. Flags'
    BY <1>2, <1>15 DEF Flags, ExchangeFails, WorkerDone, Returns, monitors,
         far, history
  <2>4. TypeOK'
    BY <1>1, <1>3, <1>15, <2>1, <2>2, <2>3 DEF TypeOK, Calls, Idle,
         Exchange, ExchangeFails, WorkerDone, Returns, monitors, far,
         history
  <2>5. JobsFit' /\ RemoteFits' /\ Once' /\ SuccessFits' /\ OutputFits' /\ RemovalFits'
    BY <1>1, <1>15, <2>1, <2>2 DEF JobsFit, RemoteFits, Once, SuccessFits,
         OutputFits, RemovalFits, TypeOK, Calls, Idle, ExchangeFails,
         WorkerDone, Returns, monitors, far, history
  <2> QED BY <2>4, <2>5 DEF IInv
<1>16. CASE SubmitArrives
  <2>1. job = "start" /\ remote = "none"
    BY <1>1, <1>16 DEF SubmitArrives, JobsFit, RemoteFits
  <2>2. Flags'
    BY <1>2, <1>16 DEF Flags, SubmitArrives, Moves, monitors, history
  <2>3. TypeOK'
    BY <1>1, <1>3, <1>16, <2>1, <2>2 DEF TypeOK, Calls, Idle, Exchange,
         SubmitArrives, Moves, monitors, history
  <2>4. JobsFit' /\ RemoteFits' /\ Once' /\ SuccessFits' /\ OutputFits' /\ RemovalFits'
    BY <1>1, <1>16, <2>1 DEF JobsFit, RemoteFits, Once, SuccessFits,
         OutputFits, RemovalFits, TypeOK, Calls, Idle, SubmitArrives, Moves,
         monitors, history
  <2> QED BY <2>3, <2>4 DEF IInv
<1>17. CASE SubmitAnswered
  <2>1. Flags'
    BY <1>2, <1>17 DEF Flags, SubmitAnswered, Moves, monitors, far, history
  <2>2. TypeOK'
    BY <1>1, <1>3, <1>17, <2>1 DEF TypeOK, Calls, Idle, Exchange,
         SubmitAnswered, Moves, monitors, far, history
  <2>3. JobsFit' /\ RemoteFits' /\ Once' /\ SuccessFits' /\ OutputFits' /\ RemovalFits'
    BY <1>1, <1>17 DEF JobsFit, RemoteFits, Once, SuccessFits, OutputFits,
         RemovalFits, TypeOK, Calls, Idle, SubmitAnswered, Moves, monitors,
         far, history
  <2> QED BY <2>2, <2>3 DEF IInv
<1>18. CASE StdinSent
  <2>1. Flags'
    BY <1>2, <1>18 DEF Flags, StdinSent, Moves, monitors, history
  <2>2. TypeOK'
    BY <1>1, <1>3, <1>18, <2>1 DEF TypeOK, Calls, Idle, Exchange, StdinSent,
         Moves, monitors, history
  <2>3. JobsFit' /\ RemoteFits' /\ Once' /\ SuccessFits' /\ OutputFits' /\ RemovalFits'
    BY <1>1, <1>18 DEF JobsFit, RemoteFits, Once, SuccessFits, OutputFits,
         RemovalFits, TypeOK, Calls, Idle, StdinSent, Moves, monitors,
         history
  <2> QED BY <2>2, <2>3 DEF IInv
<1>19. CASE Confirmed
  <2>1. /\ Returned \in [Callers -> Calls]
        /\ \A c \in Callers :
              Returned[c].pc = "idle" \/ Returned[c] = call[c]
    BY <1>2, ReturnedCalls DEF Idle
  <2>2. LET new == [st EXCEPT !.started = TRUE]
      IN  new \in Status /\ new.started /\ new.state = st.state /\ new.size = st.size
    BY <1>2 DEF Status
  <2>3. Flags'
    BY <1>2, <1>19 DEF Flags, Confirmed, Update, GoesOn, Returns,
         Monitoring, far, history
  <2>4. TypeOK'
    BY <1>1, <1>3, <1>19, <2>1, <2>2, <2>3 DEF TypeOK, Calls, Idle,
         Exchange, Confirmed, Update, GoesOn, Returns, Monitoring, far,
         history
  <2>5. JobsFit' /\ RemoteFits' /\ Once' /\ SuccessFits' /\ OutputFits' /\ RemovalFits'
    BY <1>1, <1>19, <2>1, <2>2 DEF JobsFit, RemoteFits, Once, SuccessFits,
         OutputFits, RemovalFits, TypeOK, Calls, Idle, Confirmed, Update,
         GoesOn, Returns, Monitoring, far, history
  <2> QED BY <2>4, <2>5 DEF IInv
<1>20. CASE SignalArrives
  <2>1. Flags'
    BY <1>2, <1>20 DEF Flags, SignalArrives, Moves, Obeys, monitors, history
  <2>2. TypeOK'
    BY <1>1, <1>3, <1>20, <2>1 DEF TypeOK, Calls, Idle, Exchange,
         SignalArrives, Moves, Obeys, monitors, history
  <2>3. JobsFit' /\ RemoteFits' /\ Once' /\ SuccessFits' /\ OutputFits' /\ RemovalFits'
    BY <1>1, <1>20 DEF JobsFit, RemoteFits, Once, SuccessFits, OutputFits,
         RemovalFits, TypeOK, Calls, Idle, SignalArrives, Moves, Obeys,
         monitors, history
  <2> QED BY <2>2, <2>3 DEF IInv
<1>21. CASE SignalAnswered
  <2>1. /\ Returned \in [Callers -> Calls]
        /\ \A c \in Callers :
              Returned[c].pc = "idle" \/ Returned[c] = call[c]
    BY <1>2, ReturnedCalls DEF Idle
  <2>2. Flags'
    BY <1>2, <1>21 DEF Flags, SignalAnswered, GoesOn, Returns, Monitoring,
         monitors, far, history
  <2>3. TypeOK'
    BY <1>1, <1>3, <1>21, <2>1, <2>2 DEF TypeOK, Calls, Idle, Exchange,
         SignalAnswered, GoesOn, Returns, Monitoring, monitors, far, history
  <2>4. JobsFit' /\ RemoteFits' /\ Once' /\ SuccessFits' /\ OutputFits' /\ RemovalFits'
    BY <1>1, <1>21, <2>1 DEF JobsFit, RemoteFits, Once, SuccessFits,
         OutputFits, RemovalFits, TypeOK, Calls, Idle, SignalAnswered,
         GoesOn, Returns, Monitoring, monitors, far, history
  <2> QED BY <2>3, <2>4 DEF IInv
<1>22. CASE RemoveUnit
  <2>1. /\ Woken(call) \in [Callers -> Calls]
        /\ \A c \in Callers :
              /\ Woken(call)[c].op = call[c].op
              /\ Woken(call)[c].local = call[c].local
              /\ Woken(call)[c].pc = IF call[c].pc = "waiting" THEN "over" ELSE call[c].pc
    BY <1>2, WokenCalls
  <2>2. Flags'
    BY <1>2, <1>22 DEF Flags, RemoveUnit, monitors, far, history
  <2>3. TypeOK'
    BY <1>1, <1>3, <1>22, <2>1, <2>2 DEF TypeOK, Calls, Idle, Exchange,
         RemoveUnit, monitors, far, history
  <2>4. JobsFit' /\ RemoteFits' /\ Once' /\ SuccessFits' /\ OutputFits' /\ RemovalFits'
    BY <1>1, <1>22, <2>1 DEF JobsFit, RemoteFits, Once, SuccessFits,
         OutputFits, RemovalFits, TypeOK, Calls, Idle, RemoveUnit, monitors,
         far, history
  <2> QED BY <2>3, <2>4 DEF IInv
<1>23. CASE Poll
  <2>1. \A q \in Polled :
        /\ SetState(q[1], q[2]) \in Status
        /\ SetState(q[1], q[2]).started = st.started
        /\ SetState(q[1], q[2]).state = "Succeeded" =>
              remote = "Succeeded" /\ SetState(q[1], q[2]).size = output
    <3> SUFFICES ASSUME NEW q \in Polled
                 PROVE  /\ SetState(q[1], q[2]) \in Status
                        /\ SetState(q[1], q[2]).started = st.started
                        /\ SetState(q[1], q[2]).state = "Succeeded" =>
                              remote = "Succeeded" /\ SetState(q[1], q[2]).size = output
      OBVIOUS
    <3>1. remote # "none" /\ remote # "gone"
      BY <1>1, <1>23 DEF Poll, TypeOK, RemoteFits
    <3>2. /\ q[1] \in States /\ q[2] \in 0..MaxOutput
          /\ q[1] = "Succeeded" => remote = "Succeeded" /\ q[2] = output
      BY <1>1, <1>3, <3>1 DEF Polled, TypeOK, States
    <3> QED BY <1>2, <3>2, SetStateStatus
  <2>2. Flags'
    BY <1>2, <1>23 DEF Flags, Poll, Update, worker, monitors, far, history
  <2>3. TypeOK'
    BY <1>1, <1>3, <1>23, <2>1, <2>2 DEF TypeOK, Calls, Idle, Exchange,
         Poll, Update, worker, monitors, far, history
  <2>4. JobsFit' /\ RemoteFits' /\ Once' /\ SuccessFits' /\ OutputFits' /\ RemovalFits'
    BY <1>1, <1>23, <2>1 DEF JobsFit, RemoteFits, Once, SuccessFits,
         OutputFits, RemovalFits, TypeOK, Calls, Idle, Poll, Update, worker,
         monitors, far, history
  <2> QED BY <2>3, <2>4 DEF IInv
<1>24. CASE PollFinal
  <2>1. LET new == [st EXCEPT !.state = "Failed"]
      IN  new \in Status /\ new.state = "Failed" /\ new.started = st.started
    BY <1>2, FailedStatus
  <2>2. Flags'
    BY <1>2, <1>24 DEF Flags, PollFinal, Update, StatusExits, worker, far,
         history
  <2>3. TypeOK'
    BY <1>1, <1>3, <1>24, <2>1, <2>2 DEF TypeOK, Calls, Idle, Exchange,
         PollFinal, Update, StatusExits, worker, far, history
  <2>4. JobsFit' /\ RemoteFits' /\ Once' /\ SuccessFits' /\ OutputFits' /\ RemovalFits'
    BY <1>1, <1>24, <2>1 DEF JobsFit, RemoteFits, Once, SuccessFits,
         OutputFits, RemovalFits, TypeOK, Calls, Idle, PollFinal, Update,
         StatusExits, worker, far, history
  <2> QED BY <2>3, <2>4 DEF IInv
<1>25. CASE StatusStops
  <2>1. Flags'
    BY <1>2, <1>25 DEF Flags, StatusStops, StatusExits, unit, worker, far,
         history
  <2>2. TypeOK'
    BY <1>1, <1>3, <1>25, <2>1 DEF TypeOK, Calls, Idle, Exchange,
         StatusStops, StatusExits, unit, worker, far, history
  <2>3. JobsFit' /\ RemoteFits' /\ Once' /\ SuccessFits' /\ OutputFits' /\ RemovalFits'
    BY <1>1, <1>25 DEF JobsFit, RemoteFits, Once, SuccessFits, OutputFits,
         RemovalFits, TypeOK, Calls, Idle, StatusStops, StatusExits, unit,
         worker, far, history
  <2> QED BY <2>2, <2>3 DEF IInv
<1>26. CASE OutputDone
  <2>1. Flags'
    BY <1>2, <1>26 DEF Flags, OutputDone, OutputExits, unit, worker, far,
         history
  <2>2. TypeOK'
    BY <1>1, <1>3, <1>26, <2>1 DEF TypeOK, Calls, Idle, Exchange,
         OutputDone, OutputExits, unit, worker, far, history
  <2>3. JobsFit' /\ RemoteFits' /\ Once' /\ SuccessFits' /\ OutputFits' /\ RemovalFits'
    BY <1>1, <1>26 DEF JobsFit, RemoteFits, Once, SuccessFits, OutputFits,
         RemovalFits, TypeOK, Calls, Idle, OutputDone, OutputExits, unit,
         worker, far, history
  <2> QED BY <2>2, <2>3 DEF IInv
<1>27. CASE StreamBegins
  <2>1. Flags'
    BY <1>2, <1>27 DEF Flags, StreamBegins, unit, worker, far, history
  <2>2. TypeOK'
    BY <1>1, <1>3, <1>27, <2>1 DEF TypeOK, Calls, Idle, Exchange,
         StreamBegins, unit, worker, far, history
  <2>3. JobsFit' /\ RemoteFits' /\ Once' /\ SuccessFits' /\ OutputFits' /\ RemovalFits'
    BY <1>1, <1>27 DEF JobsFit, RemoteFits, Once, SuccessFits, OutputFits,
         RemovalFits, TypeOK, Calls, Idle, StreamBegins, unit, worker, far,
         history
  <2> QED BY <2>2, <2>3 DEF IInv
<1>28. CASE StreamCopies
  <2>1. Flags'
    BY <1>2, <1>28 DEF Flags, StreamCopies, worker, monitors, far, history
  <2>2. TypeOK'
    BY <1>1, <1>3, <1>28, <2>1 DEF TypeOK, Calls, Idle, Exchange,
         StreamCopies, worker, monitors, far, history
  <2>3. JobsFit' /\ RemoteFits' /\ Once' /\ SuccessFits' /\ OutputFits' /\ RemovalFits'
    BY <1>1, <1>28 DEF JobsFit, RemoteFits, Once, SuccessFits, OutputFits,
         RemovalFits, TypeOK, Calls, Idle, StreamCopies, worker, monitors,
         far, history
  <2> QED BY <2>2, <2>3 DEF IInv
<1>29. CASE StreamEnds
  <2>1. Flags'
    BY <1>2, <1>29 DEF Flags, StreamEnds, unit, worker, far, history
  <2>2. TypeOK'
    BY <1>1, <1>3, <1>29, <2>1 DEF TypeOK, Calls, Idle, Exchange,
         StreamEnds, unit, worker, far, history
  <2>3. JobsFit' /\ RemoteFits' /\ Once' /\ SuccessFits' /\ OutputFits' /\ RemovalFits'
    BY <1>1, <1>29 DEF JobsFit, RemoteFits, Once, SuccessFits, OutputFits,
         RemovalFits, TypeOK, Calls, Idle, StreamEnds, unit, worker, far,
         history
  <2> QED BY <2>2, <2>3 DEF IInv
<1>30. CASE OutputStops
  <2>1. Flags'
    BY <1>2, <1>30 DEF Flags, OutputStops, OutputExits, unit, worker, far,
         history
  <2>2. TypeOK'
    BY <1>1, <1>3, <1>30, <2>1 DEF TypeOK, Calls, Idle, Exchange,
         OutputStops, OutputExits, unit, worker, far, history
  <2>3. JobsFit' /\ RemoteFits' /\ Once' /\ SuccessFits' /\ OutputFits' /\ RemovalFits'
    BY <1>1, <1>30 DEF JobsFit, RemoteFits, Once, SuccessFits, OutputFits,
         RemovalFits, TypeOK, Calls, Idle, OutputStops, OutputExits, unit,
         worker, far, history
  <2> QED BY <2>2, <2>3 DEF IInv
<1>31. CASE MonitorEnds
  <2>1. /\ Woken(call) \in [Callers -> Calls]
        /\ \A c \in Callers :
              /\ Woken(call)[c].op = call[c].op
              /\ Woken(call)[c].local = call[c].local
              /\ Woken(call)[c].pc = IF call[c].pc = "waiting" THEN "over" ELSE call[c].pc
    BY <1>2, WokenCalls
  <2>2. Flags'
    BY <1>2, <1>31 DEF Flags, MonitorEnds, unit, monitors, far, history
  <2>3. TypeOK'
    BY <1>1, <1>3, <1>31, <2>1, <2>2 DEF TypeOK, Calls, Idle, Exchange,
         MonitorEnds, unit, monitors, far, history
  <2>4. JobsFit' /\ RemoteFits' /\ Once' /\ SuccessFits' /\ OutputFits' /\ RemovalFits'
    BY <1>1, <1>31, <2>1 DEF JobsFit, RemoteFits, Once, SuccessFits,
         OutputFits, RemovalFits, TypeOK, Calls, Idle, MonitorEnds, unit,
         monitors, far, history
  <2> QED BY <2>3, <2>4 DEF IInv
<1>32. CASE Expires
  <2>1. Flags'
    BY <1>2, <1>32 DEF Flags, Expires, unit, worker, monitors, far, history
  <2>2. TypeOK'
    BY <1>1, <1>3, <1>32, <2>1 DEF TypeOK, Calls, Idle, Exchange, Expires,
         unit, worker, monitors, far, history
  <2>3. JobsFit' /\ RemoteFits' /\ Once' /\ SuccessFits' /\ OutputFits' /\ RemovalFits'
    BY <1>1, <1>32 DEF JobsFit, RemoteFits, Once, SuccessFits, OutputFits,
         RemovalFits, TypeOK, Calls, Idle, Expires, unit, worker, monitors,
         far, history
  <2> QED BY <2>2, <2>3 DEF IInv
<1>33. CASE Disarms
  <2>1. Flags'
    BY <1>2, <1>33 DEF Flags, Disarms, unit, worker, monitors, far, history
  <2>2. TypeOK'
    BY <1>1, <1>3, <1>33, <2>1 DEF TypeOK, Calls, Idle, Exchange, Disarms,
         unit, worker, monitors, far, history
  <2>3. JobsFit' /\ RemoteFits' /\ Once' /\ SuccessFits' /\ OutputFits' /\ RemovalFits'
    BY <1>1, <1>33 DEF JobsFit, RemoteFits, Once, SuccessFits, OutputFits,
         RemovalFits, TypeOK, Calls, Idle, Disarms, unit, worker, monitors,
         far, history
  <2> QED BY <2>2, <2>3 DEF IInv
<1>34. CASE ExpiryWrites
  <2>1. LET new == [st EXCEPT !.state = "Failed"]
      IN  new \in Status /\ new.state = "Failed" /\ new.started = st.started
    BY <1>2, FailedStatus
  <2>2. Flags'
    BY <1>2, <1>34 DEF Flags, ExpiryWrites, Update, worker, monitors, far,
         history
  <2>3. TypeOK'
    BY <1>1, <1>3, <1>34, <2>1, <2>2 DEF TypeOK, Calls, Idle, Exchange,
         ExpiryWrites, Update, worker, monitors, far, history
  <2>4. JobsFit' /\ RemoteFits' /\ Once' /\ SuccessFits' /\ OutputFits' /\ RemovalFits'
    BY <1>1, <1>34, <2>1 DEF JobsFit, RemoteFits, Once, SuccessFits,
         OutputFits, RemovalFits, TypeOK, Calls, Idle, ExpiryWrites, Update,
         worker, monitors, far, history
  <2> QED BY <2>3, <2>4 DEF IInv
<1>35. CASE ExpiryCancels
  <2>1. Flags'
    BY <1>2, <1>35 DEF Flags, ExpiryCancels, unit, monitors, far, history
  <2>2. TypeOK'
    BY <1>1, <1>3, <1>35, <2>1 DEF TypeOK, Calls, Idle, Exchange,
         ExpiryCancels, unit, monitors, far, history
  <2>3. JobsFit' /\ RemoteFits' /\ Once' /\ SuccessFits' /\ OutputFits' /\ RemovalFits'
    BY <1>1, <1>35 DEF JobsFit, RemoteFits, Once, SuccessFits, OutputFits,
         RemovalFits, TypeOK, Calls, Idle, ExpiryCancels, unit, monitors,
         far, history
  <2> QED BY <2>2, <2>3 DEF IInv
<1>36. ASSUME NEW c \in Callers, NEW op \in {"cancel", "release", "force"}, Call(c, op)
      PROVE  IInv'
  <2>1. LET new == [st EXCEPT !.cancelled = TRUE, !.released = @ \/ op # "cancel"]
      IN  /\ new \in Status
          /\ new.started = st.started /\ new.state = st.state /\ new.size = st.size
    BY <1>2 DEF Status
  <2>2. Flags'
    BY <1>2, <1>36 DEF Flags, Call, Update, worker, monitors, far
  <2>3. TypeOK'
    BY <1>1, <1>3, <1>36, <2>1, <2>2 DEF TypeOK, Calls, Idle, Exchange,
         Call, Update, worker, monitors, far
  <2>4. JobsFit' /\ RemoteFits' /\ Once' /\ SuccessFits' /\ OutputFits' /\ RemovalFits'
    BY <1>1, <1>36, <2>1 DEF JobsFit, RemoteFits, Once, SuccessFits,
         OutputFits, RemovalFits, TypeOK, Calls, Idle, Call, Update, worker,
         monitors, far
  <2> QED BY <2>3, <2>4 DEF IInv
<1>37. ASSUME NEW c \in Callers, NEW op \in {"cancel", "release", "force"}, StopJob(c)
      PROVE  IInv'
  <2>1. Flags'
    BY <1>2, <1>37 DEF Flags, StopJob, Goes, unit, monitors, far, history
  <2>2. TypeOK'
    BY <1>1, <1>3, <1>37, <2>1 DEF TypeOK, Calls, Idle, Exchange, StopJob,
         Goes, unit, monitors, far, history
  <2>3. JobsFit' /\ RemoteFits' /\ Once' /\ SuccessFits' /\ OutputFits' /\ RemovalFits'
    BY <1>1, <1>37 DEF JobsFit, RemoteFits, Once, SuccessFits, OutputFits,
         RemovalFits, TypeOK, Calls, Idle, StopJob, Goes, unit, monitors,
         far, history
  <2> QED BY <2>2, <2>3 DEF IInv
<1>38. ASSUME NEW c \in Callers, Wait(c) PROVE IInv'
  <2>1. Flags'
    BY <1>2, <1>38 DEF Flags, Wait, Goes, unit, worker, monitors, far,
         history
  <2>2. TypeOK'
    BY <1>1, <1>3, <1>38, <2>1 DEF TypeOK, Calls, Idle, Exchange, Wait,
         Goes, unit, worker, monitors, far, history
  <2>3. JobsFit' /\ RemoteFits' /\ Once' /\ SuccessFits' /\ OutputFits' /\ RemovalFits'
    BY <1>1, <1>38 DEF JobsFit, RemoteFits, Once, SuccessFits, OutputFits,
         RemovalFits, TypeOK, Calls, Idle, Wait, Goes, unit, worker,
         monitors, far, history
  <2> QED BY <2>2, <2>3 DEF IInv
<1>39. ASSUME NEW c \in Callers, Retry(c) PROVE IInv'
  <2>1. Flags'
    BY <1>2, <1>39 DEF Flags, Retry, Goes, unit, worker, monitors, far,
         history
  <2>2. TypeOK'
    BY <1>1, <1>3, <1>39, <2>1 DEF TypeOK, Calls, Idle, Exchange, Retry,
         Goes, unit, worker, monitors, far, history
  <2>3. JobsFit' /\ RemoteFits' /\ Once' /\ SuccessFits' /\ OutputFits' /\ RemovalFits'
    BY <1>1, <1>39 DEF JobsFit, RemoteFits, Once, SuccessFits, OutputFits,
         RemovalFits, TypeOK, Calls, Idle, Retry, Goes, unit, worker,
         monitors, far, history
  <2> QED BY <2>2, <2>3 DEF IInv
<1>40. ASSUME NEW c \in Callers, Signal(c) PROVE IInv'
  <2>1. call[c].op \in {"cancel", "release"} /\ st.started
    BY <1>1, <1>40 DEF Signal, JobsFit, TypeOK, Calls
  <2>2. Flags'
    BY <1>2, <1>40 DEF Flags, Signal, Goes, NewJob, unit, monitors, far,
         history
  <2>3. TypeOK'
    BY <1>1, <1>3, <1>40, <2>1, <2>2 DEF TypeOK, Calls, Idle, Exchange,
         JobsFit, Signal, Goes, NewJob, unit, monitors, far, history
  <2>4. JobsFit' /\ RemoteFits' /\ Once' /\ SuccessFits' /\ OutputFits' /\ RemovalFits'
    BY <1>1, <1>40, <2>1 DEF JobsFit, RemoteFits, Once, SuccessFits,
         OutputFits, RemovalFits, TypeOK, Calls, Idle, Signal, Goes, NewJob,
         unit, monitors, far, history
  <2> QED BY <2>3, <2>4 DEF IInv
<1>41. ASSUME NEW c \in Callers, FinishLocally(c) PROVE IInv'
  <2>1. /\ SetState("Failed", 0) \in Status
        /\ SetState("Failed", 0).state = "Failed"
        /\ SetState("Failed", 0).size = 0
        /\ SetState("Failed", 0).started = st.started
    BY <1>2, <1>3, SetStateStatus DEF States
  <2>2. call' \in [Callers -> Calls]
    BY <1>2, <1>41 DEF FinishLocally, Idle, Calls
  <2>3. st' \in Status
    BY <1>2, <1>41, <2>1 DEF FinishLocally, Update
  <2>4. Flags'
    BY <1>2, <1>41 DEF Flags, FinishLocally, Update, worker, monitors, far,
         history
  <2>5. TypeOK'
    BY <1>1, <1>3, <1>41, <2>1, <2>2, <2>3, <2>4 DEF TypeOK, Exchange,
         FinishLocally, Update, worker, monitors, far, history
  <2>6. JobsFit' /\ RemoteFits' /\ Once' /\ SuccessFits' /\ OutputFits' /\ RemovalFits'
    BY <1>1, <1>41, <2>1, <2>2, <2>3 DEF JobsFit, RemoteFits, Once,
         SuccessFits, OutputFits, RemovalFits, TypeOK, Calls, Idle,
         FinishLocally, Update, worker, monitors, far, history
  <2> QED BY <2>5, <2>6 DEF IInv
<1>42. ASSUME NEW c \in Callers, ForceRemote(c) PROVE IInv'
  <2>1. Flags'
    BY <1>2, <1>42 DEF Flags, ForceRemote, Goes, Obeys, unit, worker,
         monitors, history
  <2>2. TypeOK'
    BY <1>1, <1>3, <1>42, <2>1 DEF TypeOK, Calls, Idle, Exchange,
         ForceRemote, Goes, Obeys, unit, worker, monitors, history
  <2>3. JobsFit' /\ RemoteFits' /\ Once' /\ SuccessFits' /\ OutputFits' /\ RemovalFits'
    BY <1>1, <1>42 DEF JobsFit, RemoteFits, Once, SuccessFits, OutputFits,
         RemovalFits, TypeOK, Calls, Idle, ForceRemote, Goes, Obeys, unit,
         worker, monitors, history
  <2> QED BY <2>2, <2>3 DEF IInv
<1>43. ASSUME NEW c \in Callers, ForceRemove(c) PROVE IInv'
  <2>1. Flags'
    BY <1>2, <1>43 DEF Flags, ForceRemove, worker, monitors, far, history
  <2>2. TypeOK'
    BY <1>1, <1>3, <1>43, <2>1 DEF TypeOK, Calls, Idle, Exchange,
         ForceRemove, worker, monitors, far, history
  <2>3. JobsFit' /\ RemoteFits' /\ Once' /\ SuccessFits' /\ OutputFits' /\ RemovalFits'
    BY <1>1, <1>43 DEF JobsFit, RemoteFits, Once, SuccessFits, OutputFits,
         RemovalFits, TypeOK, Calls, Idle, ForceRemove, worker, monitors,
         far, history
  <2> QED BY <2>2, <2>3 DEF IInv
<1>44. CASE RemoteInputLost
  <2>1. Flags'
    BY <1>2, <1>44 DEF Flags, RemoteInputLost, unit, worker, monitors,
         history
  <2>2. TypeOK'
    BY <1>1, <1>3, <1>44, <2>1 DEF TypeOK, Calls, Idle, Exchange,
         RemoteInputLost, unit, worker, monitors, history
  <2>3. JobsFit' /\ RemoteFits' /\ Once' /\ SuccessFits' /\ OutputFits' /\ RemovalFits'
    BY <1>1, <1>44 DEF JobsFit, RemoteFits, Once, SuccessFits, OutputFits,
         RemovalFits, TypeOK, Calls, Idle, RemoteInputLost, unit, worker,
         monitors, history
  <2> QED BY <2>2, <2>3 DEF IInv
<1>45. CASE RemoteStarts
  <2>1. Flags'
    BY <1>2, <1>45 DEF Flags, RemoteStarts, unit, worker, monitors, history
  <2>2. TypeOK'
    BY <1>1, <1>3, <1>45, <2>1 DEF TypeOK, Calls, Idle, Exchange,
         RemoteStarts, unit, worker, monitors, history
  <2>3. JobsFit' /\ RemoteFits' /\ Once' /\ SuccessFits' /\ OutputFits' /\ RemovalFits'
    BY <1>1, <1>45 DEF JobsFit, RemoteFits, Once, SuccessFits, OutputFits,
         RemovalFits, TypeOK, Calls, Idle, RemoteStarts, unit, worker,
         monitors, history
  <2> QED BY <2>2, <2>3 DEF IInv
<1>46. CASE RemoteRuns
  <2>1. Flags'
    BY <1>2, <1>46 DEF Flags, RemoteRuns, unit, worker, monitors, history
  <2>2. TypeOK'
    BY <1>1, <1>3, <1>46, <2>1 DEF TypeOK, Calls, Idle, Exchange,
         RemoteRuns, unit, worker, monitors, history
  <2>3. JobsFit' /\ RemoteFits' /\ Once' /\ SuccessFits' /\ OutputFits' /\ RemovalFits'
    BY <1>1, <1>46 DEF JobsFit, RemoteFits, Once, SuccessFits, OutputFits,
         RemovalFits, TypeOK, Calls, Idle, RemoteRuns, unit, worker,
         monitors, history
  <2> QED BY <2>2, <2>3 DEF IInv
<1>47. CASE RemoteReleased
  <2>1. Flags'
    BY <1>2, <1>47 DEF Flags, RemoteReleased, unit, worker, monitors,
         history
  <2>2. TypeOK'
    BY <1>1, <1>3, <1>47, <2>1 DEF TypeOK, Calls, Idle, Exchange,
         RemoteReleased, unit, worker, monitors, history
  <2>3. JobsFit' /\ RemoteFits' /\ Once' /\ SuccessFits' /\ OutputFits' /\ RemovalFits'
    BY <1>1, <1>47 DEF JobsFit, RemoteFits, Once, SuccessFits, OutputFits,
         RemovalFits, TypeOK, Calls, Idle, RemoteReleased, unit, worker,
         monitors, history
  <2> QED BY <2>2, <2>3 DEF IInv
<1>48. CASE Crash
  <2>1. Flags'
    BY <1>2, <1>48 DEF Flags, Crash, far
  <2>2. TypeOK'
    BY <1>1, <1>3, <1>48, <2>1 DEF TypeOK, Calls, Idle, Exchange, Crash, far
  <2>3. JobsFit' /\ RemoteFits' /\ Once' /\ SuccessFits' /\ OutputFits' /\ RemovalFits'
    BY <1>1, <1>48 DEF JobsFit, RemoteFits, Once, SuccessFits, OutputFits,
         RemovalFits, TypeOK, Calls, Idle, Crash, far
  <2> QED BY <2>2, <2>3 DEF IInv
<1>49. CASE UNCHANGED vars
  <2>1. Flags'
    BY <1>2, <1>49 DEF Flags, vars, unit, worker, monitors, far, history
  <2>2. TypeOK'
    BY <1>1, <1>3, <1>49, <2>1 DEF TypeOK, Calls, Idle, Exchange, vars,
         unit, worker, monitors, far, history
  <2>3. JobsFit' /\ RemoteFits' /\ Once' /\ SuccessFits' /\ OutputFits' /\ RemovalFits'
    BY <1>1, <1>49 DEF JobsFit, RemoteFits, Once, SuccessFits, OutputFits,
         RemovalFits, TypeOK, Calls, Idle, vars, unit, worker, monitors,
         far, history
  <2> QED BY <2>2, <2>3 DEF IInv
<1>50. CASE StatusGivesUp
  <2>1. Flags'
    BY <1>2, <1>50 DEF Flags, StatusGivesUp, StatusExits, unit, worker, far, history
  <2>2. TypeOK'
    BY <1>1, <1>3, <1>50, <2>1 DEF TypeOK, Calls, Idle, Exchange,
         StatusGivesUp, StatusExits, unit, worker, far, history
  <2>3. JobsFit' /\ RemoteFits' /\ Once' /\ SuccessFits' /\ OutputFits' /\ RemovalFits'
    BY <1>1, <1>50 DEF JobsFit, RemoteFits, Once, SuccessFits, OutputFits,
         RemovalFits, TypeOK, Calls, Idle, StatusGivesUp, StatusExits, unit,
         worker, far, history
  <2> QED BY <2>2, <2>3 DEF IInv
<1>51. CASE OutputGivesUp
  <2>1. Flags'
    BY <1>2, <1>51 DEF Flags, OutputGivesUp, OutputExits, unit, worker, far, history
  <2>2. TypeOK'
    BY <1>1, <1>3, <1>51, <2>1 DEF TypeOK, Calls, Idle, Exchange,
         OutputGivesUp, OutputExits, unit, worker, far, history
  <2>3. JobsFit' /\ RemoteFits' /\ Once' /\ SuccessFits' /\ OutputFits' /\ RemovalFits'
    BY <1>1, <1>51 DEF JobsFit, RemoteFits, Once, SuccessFits, OutputFits,
         RemovalFits, TypeOK, Calls, Idle, OutputGivesUp, OutputExits, unit,
         worker, far, history
  <2> QED BY <2>2, <2>3 DEF IInv
<1> QED
  BY <1>4, <1>5, <1>6, <1>7, <1>8, <1>9, <1>10, <1>11, <1>12, <1>13, <1>14,
       <1>15, <1>16, <1>17, <1>18, <1>19, <1>20, <1>21, <1>22, <1>23, <1>24,
       <1>25, <1>26, <1>27, <1>28, <1>29, <1>30, <1>31, <1>32, <1>33, <1>34,
       <1>35, <1>36, <1>37, <1>38, <1>39, <1>40, <1>41, <1>42, <1>43, <1>44,
       <1>45, <1>46, <1>47, <1>48, <1>49, <1>50, <1>51 DEF Next, Session, Worker,
       StatusMonitor, OutputMonitor, Expiration, Caller, Remote

(* In every reachable state the invariant holds.                           *)
THEOREM Invariance == Spec => []IInv
BY InitIInv, NextIInv, PTL DEF Spec

(* The types of the unit's state, its jobs, monitors and callers.          *)
THEOREM TypeCorrect == Spec => []TypeOK
BY Invariance, PTL DEF IInv

(* The work is started at most once on the other node, whatever is         *)
(* retried, restarted or adopted.                                          *)
THEOREM StartedOnce == Spec => []AtMostOnce
<1>1. IInv => AtMostOnce
  BY DEF IInv, Once, AtMostOnce
<1> QED BY Invariance, <1>1, PTL

(* A unit that is reported as Succeeded has succeeded on the other node.   *)
THEOREM TrueSuccess == Spec => []SucceededIsTrue
<1>1. IInv => SucceededIsTrue
  BY DEF IInv, SuccessFits, SucceededIsTrue
<1> QED BY Invariance, <1>1, PTL

(* A release that is not forced and knows of the remote unit removes the   *)
(* files here only after it has removed those there.                       *)
THEOREM ReleasedInOrder == Spec => []NoOrphan
<1>1. IInv => NoOrphan
  BY DEF IInv, RemovalFits, NoOrphan
<1> QED BY Invariance, <1>1, PTL

-----------------------------------------------------------------------------
(* The output monitor ends by itself, and not over an error, only with all *)
(* of the output of a unit that succeeded: the size in the status is that  *)
(* of the whole output.                                                    *)
THEOREM AllOutput == Spec => OutputComplete
<1> DEFINE Ends == /\ omon = "check" /\ omon' = "off" /\ MonitorCtx /\ dir
                   /\ st.state = "Succeeded" /\ session' # "down" /\ ~gaveUp'
<1>1. IInv /\ [Next]_vars /\ Ends => stdout = output
  <2> SUFFICES ASSUME IInv, Next, Ends PROVE stdout = output
    BY DEF vars, monitors
  <2>1. OutputDone
    <3>1. omon' # omon /\ omon' = "off" /\ session' # "down" /\ MonitorCtx /\ dir
          /\ ~gaveUp'
      OBVIOUS
    <3>2. ~Session /\ ~Worker
      BY <3>1 DEF Session, Worker, InputFails, InputRead, Start, Adopt, ResumeAdopted,
           Restart, Resume, Monitoring, SessionFails, Connect, DialFails, RedialStops,
           RedialFatal, ExchangeFails, SubmitArrives, SubmitAnswered, StdinSent,
           Confirmed, SignalArrives, SignalAnswered, RemoveUnit, monitors
    <3>3. ~StatusMonitor /\ ~MonitorEnds /\ ~Expiration
      BY <3>1 DEF StatusMonitor, Poll, PollFinal, StatusStops, StatusGivesUp, StatusExits,
           MonitorEnds,
           Expiration, Expires, Disarms, ExpiryWrites, ExpiryCancels, monitors
    <3>4. ~(\E c \in Callers : Caller(c)) /\ ~Remote /\ ~Crash
      BY <3>1 DEF Caller, Call, StopJob, Wait, Retry, Signal, FinishLocally, ForceRemote,
           ForceRemove, Remote, RemoteInputLost, RemoteStarts, RemoteRuns,
           RemoteReleased, Crash, monitors
    <3>5. OutputMonitor
      BY <3>2, <3>3, <3>4 DEF Next
    <3> QED BY <3>1, <3>5 DEF OutputMonitor, StreamBegins, StreamCopies, StreamEnds,
         OutputStops, OutputGivesUp, monitors
  <2>2. stdout >= st.size /\ st.size = output /\ stdout <= output
    BY <2>1 DEF OutputDone, OutputHere, IInv, SuccessFits, OutputFits
  <2>3. stdout \in Nat /\ output \in Nat
    BY RemoteWorkAssumption DEF IInv, TypeOK
  <2> QED BY <2>2, <2>3
<1> QED BY Invariance, <1>1, PTL DEF Spec, OutputComplete

=============================================================================
