-------------------------- MODULE KubernetesProofs --------------------------
(***************************************************************************)
(* Proofs about Kubernetes, for a log of any length, any retry count and   *)
(* any number of crashes.  The strengthening says where the goroutines can *)
(* be relative to each other (Control), that the next line taken from the  *)
(* log is the next one of the file (Log), and what the end of the log      *)
(* stream means (Result).                                                  *)
(***************************************************************************)
EXTENDS Kubernetes, TLAPS

(* The log is its lines 1 to n.                                            *)
Count(n) == [i \in 1 .. n |-> i]

(* Counters are numbers.                                                   *)
Numbers ==
    /\ logged \in Nat /\ crashes \in Nat
    /\ Len(file) \in Nat /\ size \in Nat /\ pos \in Nat /\ tail \in Nat /\ since \in Nat

(* The main goroutine before the others are started, and all the way when  *)
(* it uses TCP.                                                            *)
Before == {"start", "create", "created", "record", "wait", "abort", "abort cancel", "resume",
           "skip", "attach", "pod loop"}
WithTCP == {"accept", "tcp open", "copy", "tcp finish"}
(* The stages of the goroutine that copies the log.                        *)
Following == {"get", "open", "read", "eof"}

(* Where the goroutines are, and which of them a streamMethod has.         *)
Places ==
    /\ method \in {"tcp", "plain", "reconnect"}
    /\ main \in Before => stdin = "none" /\ logger = "none"
    /\ method = "tcp" =>
          /\ main \notin {"resume", "skip", "attach", "pod loop", "join", "finish"}
          /\ logger = "none"
    /\ method # "tcp" => main \notin WithTCP /\ stdin \notin {"tcp send", "tcp sent"}
    /\ method = "plain" => logger \notin {"get", "eof"}
    /\ logger \in Following => main = "join"
    /\ method # "tcp" /\ stdin \notin {"none", "skipped", "done"} => main = "join"

(* file is the log up to some line, and the writer is at a line of it.     *)
FileIsLog ==
    /\ file = Count(Len(file))
    /\ Len(file) <= logged
    /\ size <= Len(file)

(* The next line that is not skipped is the next one of the file.          *)
NextLine ==
    /\ logger = "none" => since = 0
    /\ method = "reconnect" /\ logger \in Following => since = size
    /\ method = "reconnect" /\ logger \in {"read", "eof"} =>
          pos <= since /\ (wrote => pos = since)
    /\ method = "plain" /\ logger = "open" => size = 0
    /\ method = "plain" /\ logger = "read" => pos = size
    /\ pos <= logged /\ tail <= logged /\ since <= logged
    /\ logger = "eof" /\ tail # 0 => tail = pos + 1

(* A pod that was seen running is not started again.                       *)
PodHasRun ==
    /\ pod = "exited" => exited
    /\ method # "tcp" =>
        /\ exited => pod \notin {"none", "pending", "running"}
        /\ main = "start" =>
              /\ state # "Running"
              /\ (named => pod \notin {"none", "pending"})
              /\ (~named => pod = "none")
        /\ main = "create" => pod = "none" /\ state # "Running"
        /\ (main \in {"resume", "skip", "attach", "pod loop", "join", "finish"}
              \/ state = "Running") =>
              pod \notin {"none", "pending"}

(* The input goroutine ends with all of it read, or the unit is no longer  *)
(* one that can succeed.                                                   *)
InputSent ==
    method # "tcp" =>
        /\ stdin = "sent" => reader = "eof"
        /\ stdin = "done" /\ reader # "eof" => state \notin {"Running", "Succeeded"}

(* EOF without a cut is the end of the log, and a log that ended without   *)
(* an error is that of a container that has ended.                         *)
LogDone ==
    method = "reconnect" =>
        /\ logger = "eof" /\ ~cut =>
              pod # "running" /\ (pos = logged \/ (tail = logged /\ tail # 0))
        /\ logger = "done" /\ ~stdoutErr /\ ~stdinErr /\ ~logFailed /\ ctx =>
              exited /\ (cut \/ size = logged)
        /\ main = "finish" /\ ~logFailed => exited /\ (cut \/ size = logged)

(* The result comes last.                                                  *)
Ended ==
    method # "tcp" =>
        /\ main = "finish" => stdin \in {"skipped", "done"} /\ logger = "done"
        /\ state = "Succeeded" =>
              main = "done" /\ stdin \in {"none", "skipped", "done"} /\ logger \in {"none", "done"}

(* Cancel ends the context before it enters its result.                    *)
Cancelled ==
    /\ caller # "idle" \/ cancelled => ~ctx
    /\ method # "tcp" /\ main = "finish" /\ cancelled => state # "Running"

Control == Places /\ PodHasRun /\ InputSent /\ Ended /\ Cancelled

Log == Numbers /\ FileIsLog /\ NextLine

Result == LogDone /\ SucceededIsTrue

(* The inductive invariant.                                                *)
IInv == Control /\ Log /\ Result

(* A step that adds lines of the log to the file, or none.                 *)
Grows ==
    /\ logged' = logged
    /\ \/ file' = file
       \/ \E n \in Nat : Len(file) < n /\ n <= logged /\ file' = Count(n)

(* Count(n) is a sequence of n lines.                                      *)
LEMMA CountSeq ==
    ASSUME NEW n \in Nat
    PROVE  Count(n) \in Seq(Nat) /\ Len(Count(n)) = n /\ \A i \in 1 .. n : Count(n)[i] = i
BY DEF Count

(* The first k of n lines are k lines.                                     *)
LEMMA CountPrefix ==
    ASSUME NEW n \in Nat, NEW k \in 0 .. n
    PROVE  SubSeq(Count(n), 1, k) = Count(k)
BY CountSeq DEF Count

(* The line after the first n makes n + 1 lines.                           *)
LEMMA CountAppend ==
    ASSUME NEW n \in Nat
    PROVE  Append(Count(n), n + 1) = Count(n + 1)
BY CountSeq DEF Count

(* Writing a line where it is already changes nothing.                     *)
LEMMA CountRewrite ==
    ASSUME NEW n \in Nat, NEW k \in 1 .. n
    PROVE  [Count(n) EXCEPT ![k] = k] = Count(n)
BY DEF Count

(* Writing the line after the writer's place keeps the file a part of the  *)
(* log: it is there already, or it is the next one (STDoutWriter.Write).   *)
LEMMA WriteNext ==
    ASSUME Numbers, FileIsLog, size < logged, WriteLine(size + 1), logged' = logged
    PROVE  /\ size' = size + 1 /\ size' <= logged
           /\ FileIsLog' /\ Len(file') \in Nat
           /\ Grows
<1> PICK n \in Nat : n = Len(file)
  BY DEF Numbers
<1>1. /\ file = Count(n) /\ n <= logged /\ size <= n /\ size \in Nat /\ logged \in Nat
      /\ size' = size + 1
  BY DEF FileIsLog, Numbers, WriteLine
<1>2. CASE size < n
  <2>1. file' = [Count(n) EXCEPT ![size + 1] = size + 1]
    BY <1>1, <1>2 DEF WriteLine
  <2>2. size + 1 \in 1 .. n
    BY ONLY <1>1, <1>2
  <2>3. file' = file
    BY <1>1, <2>1, <2>2, CountRewrite
  <2>4. Len(file') = n /\ file' = Count(n)
    BY <1>1, <2>3
  <2> QED BY <1>1, <2>2, <2>3, <2>4 DEF FileIsLog, Grows
<1>3. CASE ~(size < n)
  <2>1. size = n /\ n + 1 <= logged /\ n + 1 \in Nat
    BY ONLY <1>1, <1>3, size < logged, n \in Nat
  <2>2. file' = Append(Count(n), n + 1)
    <3>1. file' = Append(file, size + 1)
      BY <1>1, <1>3, <2>1 DEF WriteLine
    <3> QED BY <1>1, <2>1, <3>1
  <2>3. file' = Count(n + 1)
    BY <2>2, CountAppend
  <2>4. Len(file') = n + 1
    <3>1. Len(Count(n + 1)) = n + 1
      BY ONLY <2>1, CountSeq
    <3> QED BY ONLY <2>3, <3>1, Zenon
  <2>5. file' = Count(Len(file'))
    BY ONLY <2>3, <2>4, Zenon
  <2>6. Grows
    <3>1. n < n + 1 /\ Len(file) = n
      BY ONLY n \in Nat, n = Len(file)
    <3>2. Len(file) < n + 1
      BY ONLY <3>1, Zenon
    <3> QED BY <2>1, <2>3, <3>2 DEF Grows
  <2> QED BY <1>1, <2>1, <2>3, <2>4, <2>5, <2>6 DEF FileIsLog
<1> QED BY <1>2, <1>3

(* The steps of the main goroutine that leave the log and the result alone *)
(* keep the invariant.                                                     *)
LEMMA MainRoutine ==
    ASSUME IInv, Start \/ CreatePod \/ PodCreated \/ RecordPod \/ PodReady \/ PodNotReady \/
                 AbortCancel \/ Resume \/ SkipStdin \/ Attach \/ Join \/ Fail \/ Accept \/
                 OpenFilesFails \/ CopyEnds \/ OpenStdoutFails
    PROVE  IInv'
<1> USE DEF IInv, Control, Log, Result, unit, cluster, input, stream, output, history
<1>1. CASE Start
  <2> USE <1>1 DEF Start, SetState, Return, CancelContext
  <2>1. Control'
    <3>1. Places'
      BY DEF Places, Before, WithTCP, Following
    <3>2. PodHasRun'
      BY DEF Places, PodHasRun, Before
    <3>3. InputSent' /\ Ended' /\ Cancelled'
      BY DEF Places, InputSent, Ended, Cancelled, Before
    <3> QED BY <3>1, <3>2, <3>3
  <2>2. Log'
    BY DEF Places, Numbers, FileIsLog, NextLine, Before, Following
  <2>3. Result'
    BY DEF Places, Numbers, FileIsLog, NextLine, LogDone, PodHasRun, Ended, InputSent,
       SucceededIsTrue,
          Before, WithTCP, Following, Final
  <2> QED BY <2>1, <2>2, <2>3
<1>2. CASE CreatePod
  <2> USE <1>2 DEF CreatePod
  <2>1. Control'
    BY DEF Places, PodHasRun, InputSent, Ended, Cancelled, Before, WithTCP, Following
  <2>2. Log'
    BY DEF Places, Numbers, FileIsLog, NextLine, Before, Following
  <2>3. Result'
    BY DEF Places, Numbers, FileIsLog, NextLine, LogDone, PodHasRun, Ended, InputSent,
       SucceededIsTrue,
          Before, WithTCP, Following, Final
  <2> QED BY <2>1, <2>2, <2>3
<1>3. CASE PodCreated
  <2> USE <1>3 DEF PodCreated, Unaffected
  <2>1. Control'
    BY DEF Places, PodHasRun, InputSent, Ended, Cancelled, Before, WithTCP, Following
  <2>2. Log'
    BY DEF Places, Numbers, FileIsLog, NextLine, Before, Following
  <2>3. Result'
    BY DEF Places, Numbers, FileIsLog, NextLine, LogDone, PodHasRun, Ended, InputSent,
       SucceededIsTrue,
          Before, WithTCP, Following, Final
  <2> QED BY <2>1, <2>2, <2>3
<1>4. CASE RecordPod
  <2> USE <1>4 DEF RecordPod, SetState, Unaffected
  <2>1. Control'
    BY DEF Places, PodHasRun, InputSent, Ended, Cancelled, Before, WithTCP, Following
  <2>2. Log'
    BY DEF Places, Numbers, FileIsLog, NextLine, Before, Following
  <2>3. Result'
    BY DEF Places, Numbers, FileIsLog, NextLine, LogDone, PodHasRun, Ended, InputSent,
       SucceededIsTrue,
          Before, WithTCP, Following, Final
  <2> QED BY <2>1, <2>2, <2>3
<1>5. CASE PodReady
  <2> USE <1>5 DEF PodReady, Unaffected
  <2>1. Control'
    BY DEF Places, PodHasRun, InputSent, Ended, Cancelled, Before, WithTCP, Following
  <2>2. Log'
    BY DEF Places, Numbers, FileIsLog, NextLine, Before, Following
  <2>3. Result'
    BY DEF Places, Numbers, FileIsLog, NextLine, LogDone, PodHasRun, Ended, InputSent,
       SucceededIsTrue,
          Before, WithTCP, Following, Final
  <2> QED BY <2>1, <2>2, <2>3
<1>6. CASE PodNotReady
  <2> USE <1>6 DEF PodNotReady, Unaffected
  <2>1. Control'
    BY DEF Places, PodHasRun, InputSent, Ended, Cancelled, Before, WithTCP, Following
  <2>2. Log'
    BY DEF Places, Numbers, FileIsLog, NextLine, Before, Following
  <2>3. Result'
    BY DEF Places, Numbers, FileIsLog, NextLine, LogDone, PodHasRun, Ended, InputSent,
       SucceededIsTrue,
          Before, WithTCP, Following, Final
  <2> QED BY <2>1, <2>2, <2>3
<1>7. CASE AbortCancel
  <2> USE <1>7 DEF AbortCancel, CancelContext, SetState, PodExists
  <2>1. Control'
    BY DEF Places, PodHasRun, InputSent, Ended, Cancelled, Before, WithTCP, Following
  <2>2. Log'
    BY DEF Places, Numbers, FileIsLog, NextLine, Before, Following
  <2>3. Result'
    BY DEF Places, Numbers, FileIsLog, NextLine, LogDone, PodHasRun, Ended, InputSent,
       SucceededIsTrue,
          Before, WithTCP, Following, Final
  <2> QED BY <2>1, <2>2, <2>3
<1>8. CASE Resume
  <2> USE <1>8 DEF Resume, PodExists, Unaffected
  <2>1. Control'
    BY DEF Places, PodHasRun, InputSent, Ended, Cancelled, Before, WithTCP, Following
  <2>2. Log'
    BY DEF Places, Numbers, FileIsLog, NextLine, Before, Following
  <2>3. Result'
    BY DEF Places, Numbers, FileIsLog, NextLine, LogDone, PodHasRun, Ended, InputSent,
       SucceededIsTrue,
          Before, WithTCP, Following, Final
  <2> QED BY <2>1, <2>2, <2>3
<1>9. CASE SkipStdin
  <2> USE <1>9 DEF SkipStdin, SetState, OpenStdout, StartLogger
  <2>1. Control'
    BY DEF Places, PodHasRun, InputSent, Ended, Cancelled, Before, WithTCP, Following
  <2>2. Log'
    BY DEF Places, Numbers, FileIsLog, NextLine, Before, Following
  <2>3. Result'
    BY DEF Places, Numbers, FileIsLog, NextLine, LogDone, PodHasRun, Ended, InputSent,
       SucceededIsTrue,
          Before, WithTCP, Following, Final
  <2> QED BY <2>1, <2>2, <2>3
<1>10. CASE Attach
  <2> USE <1>10 DEF Attach, Unaffected
  <2>1. Control'
    BY DEF Places, PodHasRun, InputSent, Ended, Cancelled, Before, WithTCP, Following
  <2>2. Log'
    BY DEF Places, Numbers, FileIsLog, NextLine, Before, Following
  <2>3. Result'
    BY DEF Places, Numbers, FileIsLog, NextLine, LogDone, PodHasRun, Ended, InputSent,
       SucceededIsTrue,
          Before, WithTCP, Following, Final
  <2> QED BY <2>1, <2>2, <2>3
<1>11. CASE Join
  <2> USE <1>11 DEF Join, Unaffected
  <2>1. Control'
    BY DEF Places, PodHasRun, InputSent, Ended, Cancelled, Before, WithTCP, Following
  <2>2. Log'
    BY DEF Places, Numbers, FileIsLog, NextLine, Before, Following
  <2>3. Result'
    BY DEF Places, Numbers, FileIsLog, NextLine, LogDone, PodHasRun, Ended, InputSent,
       SucceededIsTrue,
          Before, WithTCP, Following, Final
  <2> QED BY <2>1, <2>2, <2>3
<1>12. CASE Fail
  <2> USE <1>12 DEF Fail, SetState, Return, CancelContext
  <2>1. Control'
    BY DEF Places, PodHasRun, InputSent, Ended, Cancelled, Before, WithTCP, Following
  <2>2. Log'
    BY DEF Places, Numbers, FileIsLog, NextLine, Before, Following
  <2>3. Result'
    BY DEF Places, Numbers, FileIsLog, NextLine, LogDone, PodHasRun, Ended, InputSent,
       SucceededIsTrue,
          Before, WithTCP, Following, Final
  <2> QED BY <2>1, <2>2, <2>3
<1>13. CASE Accept
  <2> USE <1>13 DEF Accept, Return, CancelContext
  <2>1. Control'
    BY DEF Places, PodHasRun, InputSent, Ended, Cancelled, Before, WithTCP, Following
  <2>2. Log'
    BY DEF Places, Numbers, FileIsLog, NextLine, Before, Following
  <2>3. Result'
    BY DEF Places, Numbers, FileIsLog, NextLine, LogDone, PodHasRun, Ended, InputSent,
       SucceededIsTrue,
          Before, WithTCP, Following, Final
  <2> QED BY <2>1, <2>2, <2>3
<1>14. CASE OpenFilesFails
  <2> USE <1>14 DEF OpenFilesFails, GiveUp, Unaffected
  <2>1. Control'
    BY DEF Places, PodHasRun, InputSent, Ended, Cancelled, Before, WithTCP, Following
  <2>2. Log'
    BY DEF Places, Numbers, FileIsLog, NextLine, Before, Following
  <2>3. Result'
    BY DEF Places, Numbers, FileIsLog, NextLine, LogDone, PodHasRun, Ended, InputSent,
       SucceededIsTrue,
          Before, WithTCP, Following, Final
  <2> QED BY <2>1, <2>2, <2>3
<1>15. CASE CopyEnds
  <2> USE <1>15 DEF CopyEnds, Return, CancelContext
  <2>1. Control'
    BY DEF Places, PodHasRun, InputSent, Ended, Cancelled, Before, WithTCP, Following
  <2>2. Log'
    BY DEF Places, Numbers, FileIsLog, NextLine, Before, Following
  <2>3. Result'
    BY DEF Places, Numbers, FileIsLog, NextLine, LogDone, PodHasRun, Ended, InputSent,
       SucceededIsTrue,
          Before, WithTCP, Following, Final
  <2> QED BY <2>1, <2>2, <2>3
<1>16. CASE OpenStdoutFails
  <2> USE <1>16 DEF OpenStdoutFails, GiveUp, Unaffected
  <2>1. Control'
    BY DEF Places, PodHasRun, InputSent, Ended, Cancelled, Before, WithTCP, Following
  <2>2. Log'
    BY DEF Places, Numbers, FileIsLog, NextLine, Before, Following
  <2>3. Result'
    BY DEF Places, Numbers, FileIsLog, NextLine, LogDone, PodHasRun, Ended, InputSent,
       SucceededIsTrue,
          Before, WithTCP, Following, Final
  <2> QED BY <2>1, <2>2, <2>3
<1> QED BY <1>1, <1>2, <1>3, <1>4, <1>5, <1>6, <1>7, <1>8, <1>9, <1>10, <1>11, <1>12, <1>13,
   <1>14, <1>15, <1>16

(* So do the steps of the goroutine that sends stdin.                      *)
LEMMA StdinRoutine ==
    ASSUME IInv, SendStdin \/ StreamRetry \/ StreamDone \/ StreamFails \/ StdinFailed \/
                 StdinSent \/ StdinDone
    PROVE  IInv'
<1> USE DEF IInv, Control, Log, Result, unit, cluster, input, stream, output, history
<1>1. CASE SendStdin
  <2> USE <1>1 DEF SendStdin, SetState, InputUnaffected
  <2>1. Control'
    BY DEF Places, PodHasRun, InputSent, Ended, Cancelled, Before, WithTCP, Following
  <2>2. Log'
    BY DEF Places, Numbers, FileIsLog, NextLine, Before, Following
  <2>3. Result'
    BY DEF Places, Numbers, FileIsLog, NextLine, LogDone, PodHasRun, Ended, InputSent,
       SucceededIsTrue,
          Before, WithTCP, Following, Final
  <2> QED BY <2>1, <2>2, <2>3
<1>2. CASE StreamRetry
  <2> USE <1>2 DEF StreamRetry, InputUnaffected
  <2>1. Control'
    BY DEF Places, PodHasRun, InputSent, Ended, Cancelled, Before, WithTCP, Following
  <2>2. Log'
    BY DEF Places, Numbers, FileIsLog, NextLine, Before, Following
  <2>3. Result'
    BY DEF Places, Numbers, FileIsLog, NextLine, LogDone, PodHasRun, Ended, InputSent,
       SucceededIsTrue,
          Before, WithTCP, Following, Final
  <2> QED BY <2>1, <2>2, <2>3
<1>3. CASE StreamDone
  <2> USE <1>3 DEF StreamDone, InputUnaffected
  <2>1. Control'
    BY DEF Places, PodHasRun, InputSent, Ended, Cancelled, Before, WithTCP, Following
  <2>2. Log'
    BY DEF Places, Numbers, FileIsLog, NextLine, Before, Following
  <2>3. Result'
    BY DEF Places, Numbers, FileIsLog, NextLine, LogDone, PodHasRun, Ended, InputSent,
       SucceededIsTrue,
          Before, WithTCP, Following, Final
  <2> QED BY <2>1, <2>2, <2>3
<1>4. CASE StreamFails
  <2> USE <1>4 DEF StreamFails, InputUnaffected
  <2>1. Control'
    BY DEF Places, PodHasRun, InputSent, Ended, Cancelled, Before, WithTCP, Following
  <2>2. Log'
    BY DEF Places, Numbers, FileIsLog, NextLine, Before, Following
  <2>3. Result'
    BY DEF Places, Numbers, FileIsLog, NextLine, LogDone, PodHasRun, Ended, InputSent,
       SucceededIsTrue,
          Before, WithTCP, Following, Final
  <2> QED BY <2>1, <2>2, <2>3
<1>5. CASE StdinFailed
  <2> USE <1>5 DEF StdinFailed, SetState, InputUnaffected
  <2>1. Control'
    BY DEF Places, PodHasRun, InputSent, Ended, Cancelled, Before, WithTCP, Following
  <2>2. Log'
    BY DEF Places, Numbers, FileIsLog, NextLine, Before, Following
  <2>3. Result'
    BY DEF Places, Numbers, FileIsLog, NextLine, LogDone, PodHasRun, Ended, InputSent,
       SucceededIsTrue,
          Before, WithTCP, Following, Final
  <2> QED BY <2>1, <2>2, <2>3
<1>6. CASE StdinSent
  <2> USE <1>6 DEF StdinSent, SetState, InputUnaffected
  <2>1. Control'
    BY DEF Places, PodHasRun, InputSent, Ended, Cancelled, Before, WithTCP, Following
  <2>2. Log'
    BY DEF Places, Numbers, FileIsLog, NextLine, Before, Following
  <2>3. Result'
    BY DEF Places, Numbers, FileIsLog, NextLine, LogDone, PodHasRun, Ended, InputSent,
       SucceededIsTrue,
          Before, WithTCP, Following, Final
  <2> QED BY <2>1, <2>2, <2>3
<1>7. CASE StdinDone
  <2> USE <1>7 DEF StdinDone, SetState, InputUnaffected
  <2>1. Control'
    BY DEF Places, PodHasRun, InputSent, Ended, Cancelled, Before, WithTCP, Following
  <2>2. Log'
    BY DEF Places, Numbers, FileIsLog, NextLine, Before, Following
  <2>3. Result'
    BY DEF Places, Numbers, FileIsLog, NextLine, LogDone, PodHasRun, Ended, InputSent,
       SucceededIsTrue,
          Before, WithTCP, Following, Final
  <2> QED BY <2>1, <2>2, <2>3
<1> QED BY <1>1, <1>2, <1>3, <1>4, <1>5, <1>6, <1>7

(* So do the steps of the logger that write no line.                       *)
LEMMA LoggerRoutine ==
    ASSUME IInv, GetPod \/ OpenLogFails \/ ReadCanceled \/ ReadFails \/ ContinueAfterEOF
    PROVE  IInv'
<1> USE DEF IInv, Control, Log, Result, unit, cluster, input, stream, output, history
<1>1. CASE GetPod
  <2> USE <1>1 DEF GetPod, PodExists, LogUnaffected
  <2>1. Control'
    BY DEF Places, PodHasRun, InputSent, Ended, Cancelled, Before, WithTCP, Following
  <2>2. Log'
    BY DEF Places, Numbers, FileIsLog, NextLine, Before, Following
  <2>3. Result'
    BY DEF Places, Numbers, FileIsLog, NextLine, LogDone, PodHasRun, Ended, InputSent,
       SucceededIsTrue,
          Before, WithTCP, Following, Final
  <2> QED BY <2>1, <2>2, <2>3
<1>2. CASE OpenLogFails
  <2> USE <1>2 DEF OpenLogFails, SetState, LogUnaffected
  <2>1. Control'
    BY DEF Places, PodHasRun, InputSent, Ended, Cancelled, Before, WithTCP, Following
  <2>2. Log'
    BY DEF Places, Numbers, FileIsLog, NextLine, Before, Following
  <2>3. Result'
    BY DEF Places, Numbers, FileIsLog, NextLine, LogDone, PodHasRun, Ended, InputSent,
       SucceededIsTrue,
          Before, WithTCP, Following, Final
  <2> QED BY <2>1, <2>2, <2>3
<1>3. CASE ReadCanceled
  <2> USE <1>3 DEF ReadCanceled, LogUnaffected, Final
  <2>1. Control'
    BY DEF Places, PodHasRun, InputSent, Ended, Cancelled, Before, WithTCP, Following
  <2>2. Log'
    BY DEF Places, Numbers, FileIsLog, NextLine, Before, Following
  <2>3. Result'
    BY DEF Places, Numbers, FileIsLog, NextLine, LogDone, PodHasRun, Ended, InputSent,
       SucceededIsTrue,
          Before, WithTCP, Following, Final
  <2> QED BY <2>1, <2>2, <2>3
<1>4. CASE ReadFails
  <2> USE <1>4 DEF ReadFails, LogUnaffected
  <2>1. Control'
    BY DEF Places, PodHasRun, InputSent, Ended, Cancelled, Before, WithTCP, Following
  <2>2. Log'
    BY DEF Places, Numbers, FileIsLog, NextLine, Before, Following
  <2>3. Result'
    BY DEF Places, Numbers, FileIsLog, NextLine, LogDone, PodHasRun, Ended, InputSent,
       SucceededIsTrue,
          Before, WithTCP, Following, Final
  <2> QED BY <2>1, <2>2, <2>3
<1>5. CASE ContinueAfterEOF
  <2> USE <1>5 DEF ContinueAfterEOF, LogUnaffected
  <2>1. Control'
    BY DEF Places, PodHasRun, InputSent, Ended, Cancelled, Before, WithTCP, Following
  <2>2. Log'
    BY DEF Places, Numbers, FileIsLog, NextLine, Before, Following
  <2>3. Result'
    BY DEF Places, Numbers, FileIsLog, NextLine, LogDone, PodHasRun, Ended, InputSent,
       SucceededIsTrue,
          Before, WithTCP, Following, Final
  <2> QED BY <2>1, <2>2, <2>3
<1> QED BY <1>1, <1>2, <1>3, <1>4, <1>5

(* So do the steps of Cancel and Release, of the listener, and those of    *)
(* the cluster that write nothing.                                         *)
LEMMA OtherRoutine ==
    ASSUME IInv, Cancel \/ CancelMark \/ CancelDelete \/ PodStarts \/ PodExits \/
                 PodKilled \/ PodConnects \/ AcceptFails
    PROVE  IInv'
<1> USE DEF IInv, Control, Log, Result, unit, cluster, input, stream, output, history
<1>1. CASE Cancel
  <2> USE <1>1 DEF Cancel, CancelContext, CancelUnaffected
  <2>1. Control'
    BY DEF Places, PodHasRun, InputSent, Ended, Cancelled, Before, WithTCP, Following
  <2>2. Log'
    BY DEF Places, Numbers, FileIsLog, NextLine, Before, Following
  <2>3. Result'
    BY DEF Places, Numbers, FileIsLog, NextLine, LogDone, PodHasRun, Ended, InputSent,
       SucceededIsTrue,
          Before, WithTCP, Following, Final
  <2> QED BY <2>1, <2>2, <2>3
<1>2. CASE CancelMark
  <2> USE <1>2 DEF CancelMark, SetState, CancelUnaffected
  <2>1. Control'
    BY DEF Places, PodHasRun, InputSent, Ended, Cancelled, Before, WithTCP, Following
  <2>2. Log'
    BY DEF Places, Numbers, FileIsLog, NextLine, Before, Following
  <2>3. Result'
    BY DEF Places, Numbers, FileIsLog, NextLine, LogDone, PodHasRun, Ended, InputSent,
       SucceededIsTrue,
          Before, WithTCP, Following, Final
  <2> QED BY <2>1, <2>2, <2>3
<1>3. CASE CancelDelete
  <2> USE <1>3 DEF CancelDelete, PodExists, CancelUnaffected
  <2>1. Control'
    BY DEF Places, PodHasRun, InputSent, Ended, Cancelled, Before, WithTCP, Following
  <2>2. Log'
    BY DEF Places, Numbers, FileIsLog, NextLine, Before, Following
  <2>3. Result'
    BY DEF Places, Numbers, FileIsLog, NextLine, LogDone, PodHasRun, Ended, InputSent,
       SucceededIsTrue,
          Before, WithTCP, Following, Final
  <2> QED BY <2>1, <2>2, <2>3
<1>4. CASE PodStarts
  <2> USE <1>4 DEF PodStarts, ClusterUnaffected
  <2>1. Control'
    BY DEF Places, PodHasRun, InputSent, Ended, Cancelled, Before, WithTCP, Following
  <2>2. Log'
    BY DEF Places, Numbers, FileIsLog, NextLine, Before, Following
  <2>3. Result'
    BY DEF Places, Numbers, FileIsLog, NextLine, LogDone, PodHasRun, Ended, InputSent,
       SucceededIsTrue,
          Before, WithTCP, Following, Final
  <2> QED BY <2>1, <2>2, <2>3
<1>5. CASE PodExits
  <2> USE <1>5 DEF PodExits, ClusterUnaffected
  <2>1. Control'
    BY DEF Places, PodHasRun, InputSent, Ended, Cancelled, Before, WithTCP, Following
  <2>2. Log'
    BY DEF Places, Numbers, FileIsLog, NextLine, Before, Following
  <2>3. Result'
    BY DEF Places, Numbers, FileIsLog, NextLine, LogDone, PodHasRun, Ended, InputSent,
       SucceededIsTrue,
          Before, WithTCP, Following, Final
  <2> QED BY <2>1, <2>2, <2>3
<1>6. CASE PodKilled
  <2> USE <1>6 DEF PodKilled, ClusterUnaffected
  <2>1. Control'
    BY DEF Places, PodHasRun, InputSent, Ended, Cancelled, Before, WithTCP, Following
  <2>2. Log'
    BY DEF Places, Numbers, FileIsLog, NextLine, Before, Following
  <2>3. Result'
    BY DEF Places, Numbers, FileIsLog, NextLine, LogDone, PodHasRun, Ended, InputSent,
       SucceededIsTrue,
          Before, WithTCP, Following, Final
  <2> QED BY <2>1, <2>2, <2>3
<1>7. CASE PodConnects
  <2> USE <1>7 DEF PodConnects, Unaffected
  <2>1. Control'
    BY DEF Places, PodHasRun, InputSent, Ended, Cancelled, Before, WithTCP, Following
  <2>2. Log'
    BY DEF Places, Numbers, FileIsLog, NextLine, Before, Following
  <2>3. Result'
    BY DEF Places, Numbers, FileIsLog, NextLine, LogDone, PodHasRun, Ended, InputSent,
       SucceededIsTrue,
          Before, WithTCP, Following, Final
  <2> QED BY <2>1, <2>2, <2>3
<1>8. CASE AcceptFails
  <2> USE <1>8 DEF AcceptFails, SetState, CancelContext
  <2>1. Control'
    BY DEF Places, PodHasRun, InputSent, Ended, Cancelled, Before, WithTCP, Following
  <2>2. Log'
    BY DEF Places, Numbers, FileIsLog, NextLine, Before, Following
  <2>3. Result'
    BY DEF Places, Numbers, FileIsLog, NextLine, LogDone, PodHasRun, Ended, InputSent,
       SucceededIsTrue,
          Before, WithTCP, Following, Final
  <2> QED BY <2>1, <2>2, <2>3
<1> QED BY <1>1, <1>2, <1>3, <1>4, <1>5, <1>6, <1>7, <1>8

(* CreatePod copies what there is of the log of a pod that is not ready:   *)
(* the file becomes all of it.                                             *)
LEMMA AbortLogStep == ASSUME IInv, AbortLog PROVE IInv' /\ Grows
<1> USE DEF IInv, Control, Log, Result, unit, cluster, input, stream, output, history
<1>1. Places' /\ PodHasRun'
  BY DEF AbortLog, SetState, PodExists, Places, PodHasRun, Before, WithTCP, Following
<1>2. InputSent' /\ Ended' /\ Cancelled'
  BY DEF AbortLog, SetState, PodExists, Places, InputSent, Ended, Cancelled, Before, WithTCP,
     Following
<1>3. logger = "none" /\ logger' = "none" /\ main' \in {"abort cancel", "fail"} /\ method' = method
      /\ stream' = stream /\ logged' = logged /\ logged \in Nat
  BY DEF AbortLog, Places, Before, Numbers
<1>4. Numbers' /\ FileIsLog'
  <2>1. CASE size' = logged /\ file' = Count(logged)
    <3>1. Len(file') = logged
      <4>1. Len(Count(logged)) = logged
        BY ONLY <1>3, CountSeq
      <4> QED BY ONLY <2>1, <4>1, Zenon
    <3>2. file' = Count(Len(file'))
      BY ONLY <2>1, <3>1, Zenon
    <3>3. crashes' = crashes /\ pos' = pos /\ tail' = tail /\ since' = since
      BY DEF AbortLog
    <3>4. Numbers'
      BY <1>3, <2>1, <3>1, <3>3 DEF Numbers
    <3>5. Len(file') <= logged' /\ size' <= Len(file')
      <4> HIDE DEF IInv, Control, Log, Result, unit, cluster, input, stream, output, history
      <4>0. logged \in Nat
        BY <1>3
      <4>1. logged <= logged
        BY ONLY <4>0
      <4> QED BY ONLY <1>3, <2>1, <3>1, <4>1, Zenon
    <3> QED BY <3>2, <3>4, <3>5 DEF FileIsLog
  <2>2. CASE UNCHANGED <<size, file>>
    BY <1>3, <2>2 DEF AbortLog, Numbers, FileIsLog
  <2> QED BY <2>1, <2>2 DEF AbortLog, Count
<1>5. NextLine'
  BY <1>3 DEF NextLine, Following
<1>6. LogDone'
  BY <1>3 DEF LogDone
<1>7. SucceededIsTrue'
  <2>1. ~(state' = "Succeeded" /\ method' = "reconnect")
    BY DEF AbortLog, SetState, Ended, Places
  <2> QED BY <2>1 DEF SucceededIsTrue
<1>8. Grows
  <2>1. CASE file' = Count(logged)
    <3>0. logged \in Nat /\ Len(file) \in Nat /\ file = Count(Len(file)) /\ Len(file) <= logged
      BY DEF Numbers, FileIsLog
    <3>1. (Len(file) = logged \/ Len(file) < logged) /\ logged <= logged
      BY ONLY <3>0
    <3>2. CASE Len(file) = logged
      <4>1. file' = file
        BY ONLY <2>1, <3>0, <3>2, Zenon
      <4> QED BY <1>3, <4>1 DEF Grows
    <3>3. CASE Len(file) < logged
      BY <1>3, <2>1, <3>0, <3>1, <3>3 DEF Grows
    <3> QED BY <3>1, <3>2, <3>3
  <2>2. CASE file' = file
    BY <1>3, <2>2 DEF Grows
  <2> QED BY <2>1, <2>2 DEF AbortLog, Count
<1> QED BY <1>1, <1>2, <1>4, <1>5, <1>6, <1>7, <1>8

(* The goroutines start with a writer at the start of the file and no      *)
(* sinceTime.                                                              *)
LEMMA AwaitContainerStep == ASSUME IInv, AwaitContainer PROVE IInv'
<1> USE DEF IInv, Control, Log, Result, unit, cluster, input, stream, output, history
<1>1. Places' /\ PodHasRun'
  BY DEF AwaitContainer, OpenStdout, StartLogger, Places, PodHasRun, Before, WithTCP, Following
<1>2. InputSent' /\ Ended' /\ Cancelled'
  BY DEF AwaitContainer, OpenStdout, StartLogger, Places, InputSent, Ended, Cancelled, Before,
     WithTCP, Following
<1>3. /\ logger = "none" /\ logged' = logged /\ file' = file /\ pos' = pos /\ tail' = tail
      /\ since' = since /\ wrote' = wrote
      /\ method' = method /\ crashes' = crashes /\ since = 0
  BY DEF AwaitContainer, Places, Before, NextLine
<1>4. /\ size' = 0 \/ size' = size
      /\ logger' \in {"none", "open", "get"} /\ main' # "finish"
      /\ (logger' \in {"open", "get"} => size' = 0)
      /\ (method = "plain" => logger' # "get")
  BY <1>3 DEF AwaitContainer, OpenStdout, StartLogger
<1>5. Numbers' /\ FileIsLog'
  BY <1>3, <1>4 DEF Numbers, FileIsLog
<1>6. NextLine'
  BY <1>3, <1>4 DEF NextLine, Following
<1>7. LogDone'
  BY <1>4 DEF LogDone
<1>8. SucceededIsTrue'
  <2>1. ~(state' = "Succeeded" /\ method' = "reconnect")
    BY DEF AwaitContainer, Ended, Places
  <2> QED BY <2>1 DEF SucceededIsTrue
<1> QED BY <1>1, <1>2, <1>5, <1>6, <1>7, <1>8

(* The unit is said to have succeeded only after the goroutines: the log   *)
(* has been copied up to its end, unless the last stream was cut.          *)
LEMMA FinishStep == ASSUME IInv, Finish PROVE IInv'
<1> USE DEF IInv, Control, Log, Result, unit, cluster, input, stream, output, history
<1> USE DEF Finish, SetState, Unaffected
<1>1. Control'
  BY DEF Places, PodHasRun, InputSent, Ended, Cancelled, Before, WithTCP, Following
<1>2. Log'
  BY DEF Places, Numbers, FileIsLog, NextLine, Before, Following
<1>3. LogDone'
  BY DEF Places, LogDone, Ended
<1>4. SucceededIsTrue'
  <2> HIDE DEF Finish, SetState, Unaffected
  <2>1. /\ main = "finish" /\ method' = method /\ logFailed' = logFailed /\ exited' = exited
        /\ cut' = cut /\ file' = file /\ logged' = logged /\ reader' = reader
        /\ stdin' = stdin
    BY DEF Finish, Unaffected
  <2>2. SUFFICES ASSUME method = "reconnect", ~logFailed, state' = "Succeeded"
                 PROVE  exited /\ (stdin = "done" => reader = "eof")
                               /\ (cut \/ Len(file) = logged)
    BY <2>1 DEF SucceededIsTrue
  <2>3. exited /\ (cut \/ size = logged)
    BY <2>1, <2>2 DEF LogDone
  <2>4. logged \in Nat /\ Len(file) \in Nat /\ size \in Nat /\ size <= Len(file)
        /\ Len(file) <= logged
    BY DEF Numbers, FileIsLog
  <2>5. size = logged => Len(file) = logged
    BY ONLY <2>4
  <2>6. stdin = "done" => reader = "eof"
    <3>1. state = "Running" \/ state = "Succeeded"
      BY <2>2 DEF Finish, SetState
    <3> QED BY <2>2, <3>1 DEF InputSent
  <2> QED BY <2>3, <2>5, <2>6
<1> QED BY <1>1, <1>2, <1>3, <1>4

(* runWorkUsingTCP opens its writer at the start of the file.              *)
LEMMA OpenFilesStep == ASSUME IInv, OpenFiles PROVE IInv'
<1> USE DEF IInv, Control, Log, Result, unit, cluster, input, stream, output, history
<1>1. Places' /\ PodHasRun'
  BY DEF OpenFiles, OpenStdout, SetState, Places, PodHasRun, Before, WithTCP, Following
<1>2. InputSent' /\ Ended' /\ Cancelled'
  BY DEF OpenFiles, OpenStdout, SetState, Places, InputSent, Ended, Cancelled, Before, WithTCP,
     Following
<1>3. /\ method = "tcp" /\ method' = "tcp" /\ logger = "none" /\ logger' = "none" /\ size' = 0
      /\ stream' = stream /\ logged' = logged /\ file' = file /\ crashes' = crashes
  BY DEF OpenFiles, OpenStdout, Places, WithTCP
<1>4. Numbers' /\ FileIsLog'
  BY <1>3 DEF Numbers, FileIsLog
<1>5. NextLine'
  BY <1>3 DEF NextLine, Following
<1>6. LogDone' /\ SucceededIsTrue'
  BY <1>3 DEF LogDone, SucceededIsTrue
<1> QED BY <1>1, <1>2, <1>4, <1>5, <1>6

(* runWorkUsingTCP copies the line after the writer's place.               *)
LEMMA CopyStdoutStep == ASSUME IInv, CopyStdout PROVE IInv' /\ Grows
<1> USE DEF IInv, Control, Log, Result, unit, cluster, input, stream, output, history
<1>1. Places' /\ PodHasRun'
  BY DEF CopyStdout, Places, PodHasRun, Before, WithTCP, Following
<1>2. InputSent' /\ Ended' /\ Cancelled'
  BY DEF CopyStdout, Places, InputSent, Ended, Cancelled, Before, WithTCP, Following
<1>3. /\ method = "tcp" /\ method' = "tcp" /\ logger = "none" /\ logger' = "none"
      /\ stream' = stream /\ logged' = logged /\ crashes' = crashes /\ size < logged
  BY DEF CopyStdout, Places, WithTCP
<1>4. size' = size + 1 /\ FileIsLog' /\ Len(file') \in Nat /\ Grows
  BY <1>3, WriteNext DEF CopyStdout
<1>5. Numbers'
  BY <1>3, <1>4 DEF Numbers
<1>6. NextLine'
  BY <1>3 DEF NextLine, Following
<1>7. LogDone' /\ SucceededIsTrue'
  BY <1>3 DEF LogDone, SucceededIsTrue
<1> QED BY <1>1, <1>2, <1>4, <1>5, <1>6, <1>7

(* What runWorkUsingTCP enters is not claimed to be true.                  *)
LEMMA FinishTCPStep == ASSUME IInv, FinishTCP PROVE IInv'
<1> USE DEF IInv, Control, Log, Result, unit, cluster, input, stream, output, history
<1>1. Places' /\ PodHasRun'
  BY DEF FinishTCP, SetState, Return, CancelContext, Places, PodHasRun, Before, WithTCP, Following
<1>2. InputSent' /\ Ended' /\ Cancelled'
  BY DEF FinishTCP, SetState, Return, CancelContext, Places, InputSent, Ended, Cancelled,
     Before, WithTCP, Following
<1>3. Log'
  BY DEF FinishTCP, Numbers, FileIsLog, NextLine, Following
<1>4. Result'
  BY DEF FinishTCP, Places, WithTCP, LogDone, SucceededIsTrue
<1> QED BY <1>1, <1>2, <1>3, <1>4

(* runWorkUsingTCP sends stdin, or ends the context.                       *)
LEMMA SendTCPStep == ASSUME IInv, SendTCP PROVE IInv'
<1> USE DEF IInv, Control, Log, Result, unit, cluster, input, stream, output, history
<1>1. /\ method = "tcp" /\ method' = "tcp" /\ main' = main /\ logger = "none" /\ logger' = "none"
      /\ stdin' \in {"tcp sent", "done"} /\ caller' = caller /\ cancelled' = cancelled
      /\ main \notin Before
  BY DEF SendTCP, Places, Before
<1>2. Places' /\ PodHasRun'
  BY <1>1 DEF SendTCP, Places, PodHasRun, Before, WithTCP, Following
<1>3. InputSent' /\ Ended' 
  BY <1>1 DEF InputSent, Ended
<1>4. Cancelled'
  <2>1. ctx' = ctx \/ ~ctx'
    BY DEF SendTCP, CancelContext
  <2>2. caller # "idle" \/ cancelled => ~ctx
    BY DEF Cancelled
  <2>3. caller' # "idle" \/ cancelled' => ~ctx'
    BY ONLY <1>1, <2>1, <2>2, Zenon
  <2> QED BY <1>1, <2>3 DEF Cancelled
<1>5. Log'
  BY <1>1 DEF SendTCP, Numbers, FileIsLog, NextLine, Following
<1>6. Result'
  BY <1>1 DEF LogDone, SucceededIsTrue
<1> QED BY <1>2, <1>3, <1>4, <1>5, <1>6

(* A stream that is opened starts no later than after the last line that   *)
(* was copied.                                                             *)
LEMMA OpenLogStep == ASSUME IInv, OpenLog PROVE IInv'
<1> USE DEF IInv, Control, Log, Result, unit, cluster, input, stream, output, history
<1>1. Places' /\ PodHasRun'
  BY DEF OpenLog, LogUnaffected, Places, PodHasRun, Before, WithTCP, Following
<1>2. InputSent' /\ Ended' /\ Cancelled'
  BY DEF OpenLog, LogUnaffected, Places, InputSent, Ended, Cancelled, Before, WithTCP, Following
<1>3. /\ logger = "open" /\ logger' = "read" /\ size' = size /\ tail' = 0 /\ since' = since
      /\ crashes' = crashes
      /\ logged' = logged /\ file' = file /\ method' = method /\ ~wrote'
      /\ main' = main
  BY DEF OpenLog, LogUnaffected
<1>4. since \in Nat /\ logged \in Nat /\ since <= logged
  BY DEF Numbers, NextLine
<1>5. pos' \in Nat /\ pos' <= since /\ (method = "plain" => pos' = 0)
  <2>1. CASE method = "plain"
    BY <1>4, <2>1 DEF OpenLog
  <2>2. CASE method # "plain"
    <3>1. pos' \in 0 .. since
      BY <2>2 DEF OpenLog
    <3> QED BY ONLY <1>4, <2>2, <3>1
  <2> QED BY <2>1, <2>2
<1>6. Numbers' /\ FileIsLog'
  BY <1>3, <1>5 DEF Numbers, FileIsLog
<1>7. NextLine'
  <2>1. pos' <= logged' /\ tail' <= logged' /\ since' <= logged'
    BY ONLY <1>3, <1>4, <1>5
  <2> QED BY <1>3, <1>5, <2>1 DEF NextLine, Following
<1>8. LogDone'
  BY <1>3 DEF OpenLog, LogUnaffected, LogDone, Places, Following
<1>9. SucceededIsTrue'
  BY DEF OpenLog, LogUnaffected, SucceededIsTrue
<1> QED BY <1>1, <1>2, <1>6, <1>7, <1>8, <1>9

(* A line that is not skipped is the next one of the file: the one after   *)
(* sinceTime or, once one was written, the next of the stream              *)
(* (ProcessLogLine).                                                       *)
LEMMA ReadLineStep == ASSUME IInv, ReadLine PROVE IInv' /\ Grows
<1> USE DEF IInv, Control, Log, Result, unit, cluster, input, stream, output, history
<1>1. Places' /\ PodHasRun'
  BY DEF ReadLine, LogUnaffected, Places, PodHasRun, Before, WithTCP, Following
<1>2. InputSent' /\ Ended' /\ Cancelled'
  BY DEF ReadLine, LogUnaffected, Places, InputSent, Ended, Cancelled, Before, WithTCP, Following
<1>3. /\ logger = "read" /\ pos < logged /\ pos' = pos + 1 /\ tail' = tail /\ logged' = logged
      /\ method' = method /\ crashes' = crashes /\ main = "join" /\ main' = main /\ state' = state
      /\ method \in {"plain", "reconnect"}
  BY DEF ReadLine, LogUnaffected, Places, Following
<1>4. logged \in Nat /\ pos \in Nat /\ since \in Nat /\ size \in Nat /\ tail \in Nat
  BY DEF Numbers
<1>5. tail <= logged /\ since <= logged
  BY DEF NextLine
<1>6. SucceededIsTrue'
  <2>1. ~(state' = "Succeeded" /\ method' = "reconnect")
    BY <1>3 DEF Ended
  <2> QED BY <2>1 DEF SucceededIsTrue
<1>7. CASE method = "reconnect" /\ ShouldSkip(pos + 1)
  <2>1. /\ since' = since /\ wrote' = wrote /\ logger' = logger /\ size' = size /\ file' = file
        /\ pos + 1 <= since /\ ~wrote
    BY <1>7 DEF ReadLine, ShouldSkip
  <2>2. pos' <= logged' /\ tail' <= logged' /\ since' <= logged' /\ pos' <= since'
    BY ONLY <1>3, <1>4, <1>5, <2>1
  <2>3. Numbers' /\ FileIsLog'
    BY <1>3, <1>4, <2>1 DEF Numbers, FileIsLog
  <2>4. NextLine'
    BY <1>3, <1>7, <2>1, <2>2 DEF NextLine, Following
  <2>5. LogDone'
    BY <1>3, <2>1 DEF LogDone
  <2>6. Grows
    BY <1>3, <2>1 DEF Grows
  <2> QED BY <1>1, <1>2, <1>6, <2>3, <2>4, <2>5, <2>6
<1>8. CASE ~(method = "reconnect" /\ ShouldSkip(pos + 1))
  <2>1. pos = size
    <3>1. CASE method = "plain"
      BY <1>3, <3>1 DEF NextLine
    <3>2. CASE method = "reconnect"
      <4>1. since = size /\ pos <= since /\ (wrote => pos = since)
        BY <1>3, <3>2 DEF NextLine, Following
      <4>2. wrote \/ ~(pos + 1 <= since)
        BY <1>8, <3>2 DEF ShouldSkip
      <4> QED BY ONLY <1>4, <4>1, <4>2
    <3> QED BY <1>3, <3>1, <3>2
  <2>2. since' = pos + 1
    BY <1>8 DEF ReadLine
  <2>3. CASE writer
    <3>1. WriteLine(pos + 1) /\ wrote' = TRUE /\ logger' = logger
      BY <1>8, <2>3 DEF ReadLine
    <3>2. size' = size + 1 /\ FileIsLog' /\ Len(file') \in Nat /\ Grows
      BY <1>3, <2>1, <3>1, WriteNext
    <3>3. Numbers'
      BY <1>3, <1>4, <2>2, <3>2 DEF Numbers
    <3>4. pos' <= logged' /\ tail' <= logged' /\ since' <= logged' /\ pos' = since'
          /\ since' = size' /\ pos' <= since'
      BY ONLY <1>3, <1>4, <1>5, <2>1, <2>2, <3>2
    <3>5. NextLine'
      BY <1>3, <3>1, <3>4 DEF NextLine, Following
    <3>6. LogDone'
      BY <1>3, <3>1 DEF LogDone
    <3> QED BY <1>1, <1>2, <1>6, <3>2, <3>3, <3>5, <3>6
  <2>4. CASE ~writer
    <3>1. stdoutErr' = TRUE /\ logger' = "done" /\ size' = size /\ file' = file /\ wrote' = wrote
      BY <1>8, <2>4 DEF ReadLine
    <3>2. Numbers' /\ FileIsLog'
      BY <1>3, <1>4, <2>2, <3>1 DEF Numbers, FileIsLog
    <3>4. pos' <= logged' /\ tail' <= logged' /\ since' <= logged'
      BY ONLY <1>3, <1>4, <1>5, <2>2
    <3>5. NextLine'
      BY <1>3, <3>1, <3>4 DEF NextLine, Following
    <3>6. LogDone'
      BY <1>3, <3>1 DEF LogDone
    <3>7. Grows
      BY <1>3, <3>1 DEF Grows
    <3> QED BY <1>1, <1>2, <1>6, <3>2, <3>5, <3>6, <3>7
  <2> QED BY <2>3, <2>4
<1> QED BY <1>7, <1>8

(* EOF is the end of the log, with or without an unfinished last line, or  *)
(* a cut.                                                                  *)
LEMMA ReadEOFStep == ASSUME IInv, ReadEOF PROVE IInv' /\ Grows
<1> USE DEF IInv, Control, Log, Result, unit, cluster, input, stream, output, history
<1>1. Places' /\ PodHasRun'
  BY DEF ReadEOF, LogUnaffected, Places, PodHasRun, Before, WithTCP, Following
<1>2. InputSent' /\ Ended' /\ Cancelled'
  BY DEF ReadEOF, LogUnaffected, Places, InputSent, Ended, Cancelled, Before, WithTCP, Following
<1>3. /\ logger = "read" /\ pos' = pos /\ since' = since /\ logged' = logged /\ wrote' = wrote
      /\ method' = method /\ crashes' = crashes /\ main = "join" /\ main' = main /\ state' = state
      /\ method \in {"plain", "reconnect"} /\ pod' = pod
      /\ logger' = IF method = "plain" THEN "done" ELSE "eof"
      /\ cut' = (pod = "running" \/ (pos # logged /\ tail' = 0))
  BY DEF ReadEOF, LogUnaffected, Places, Following
<1>4. logged \in Nat /\ pos \in Nat /\ since \in Nat /\ size \in Nat
  BY DEF Numbers
<1>5. pos <= logged /\ since <= logged
  BY DEF NextLine
<1>6. \/ tail' = 0
      \/ tail' = logged /\ pos + 1 = logged /\ pod # "running"
  BY DEF ReadEOF
<1>7. tail' \in Nat /\ tail' <= logged
      /\ (tail' # 0 => tail' = pos + 1 /\ tail' = logged /\ pod # "running")
  BY ONLY <1>4, <1>6
<1>8. Numbers' /\ FileIsLog' /\ Grows
  <2>1. CASE method = "plain" /\ tail' # 0 /\ writer
    <3>1. pos = size
      BY <1>3, <2>1 DEF NextLine
    <3>2. tail' = size + 1 /\ size < logged
      BY ONLY <1>4, <1>7, <2>1, <3>1
    <3>3. WriteLine(size + 1)
      BY <2>1, <3>2 DEF ReadEOF, WriteLine
    <3>4. size' = size + 1 /\ FileIsLog' /\ Len(file') \in Nat /\ Grows
      BY <1>3, <3>2, <3>3, WriteNext
    <3> QED BY <1>3, <1>4, <1>7, <3>4 DEF Numbers
  <2>2. CASE ~(method = "plain" /\ tail' # 0 /\ writer)
    <3>1. file' = file /\ size' = size
      BY <2>2 DEF ReadEOF
    <3> QED BY <1>3, <1>7, <3>1 DEF Numbers, FileIsLog, Grows
  <2> QED BY <2>1, <2>2
<1>9. NextLine'
  <2>1. pos' <= logged' /\ tail' <= logged' /\ since' <= logged'
        /\ (tail' # 0 => tail' = pos' + 1)
    BY ONLY <1>3, <1>5, <1>7
  <2>2. method = "reconnect" =>
          size' = size /\ since = size /\ pos <= since /\ (wrote => pos = since)
    BY <1>3 DEF NextLine, Following, ReadEOF
  <2> QED BY <1>3, <2>1, <2>2 DEF NextLine, Following
<1>10. LogDone'
  <2>1. ~cut' => pod' # "running" /\ (pos' = logged' \/ (tail' = logged' /\ tail' # 0))
    BY <1>3, <1>7
  <2> QED BY <1>3, <2>1 DEF LogDone
<1>11. SucceededIsTrue'
  <2>1. ~(state' = "Succeeded" /\ method' = "reconnect")
    BY <1>3 DEF Ended
  <2> QED BY <2>1 DEF SucceededIsTrue
<1> QED BY <1>1, <1>2, <1>8, <1>9, <1>10, <1>11

(* The unfinished last line is written unless the file has it already; a   *)
(* container that has not ended by itself is an error.                     *)
LEMMA FinishAfterEOFStep == ASSUME IInv, FinishAfterEOF PROVE IInv' /\ Grows
<1> USE DEF IInv, Control, Log, Result, unit, cluster, input, stream, output, history
<1>1. Places' /\ PodHasRun'
  BY DEF FinishAfterEOF, LogUnaffected, Places, PodHasRun, Before, WithTCP, Following
<1>2. InputSent' /\ Ended' /\ Cancelled'
  BY DEF FinishAfterEOF, LogUnaffected, Places, InputSent, Ended, Cancelled, Before, WithTCP,
     Following
<1>3. /\ logger = "eof" /\ logger' = "done" /\ pos' = pos /\ since' = since /\ tail' = tail
      /\ logged' = logged
      /\ method' = method /\ crashes' = crashes /\ main = "join" /\ main' = main /\ state' = state
      /\ method = "reconnect" /\ pod' = pod /\ exited' = exited
      /\ cut' = cut /\ pod \in {"exited", "killed"}
  BY DEF FinishAfterEOF, LogUnaffected, Places, Following
<1>4. logged \in Nat /\ pos \in Nat /\ since \in Nat /\ size \in Nat /\ tail \in Nat
  BY DEF Numbers
<1>5. pos <= logged /\ since <= logged /\ tail <= logged /\ since = size /\ pos <= since
      /\ (wrote => pos = since)
      /\ (tail # 0 => tail = pos + 1)
  BY <1>3 DEF NextLine, Following
<1>6. ~cut => pos = logged \/ (tail = logged /\ tail # 0)
  BY <1>3 DEF LogDone
<1>7. pod = "exited" => exited
  BY DEF PodHasRun
<1>8. NextLine'
  BY <1>3, <1>5 DEF NextLine, Following
<1>9. SucceededIsTrue'
  <2>1. ~(state' = "Succeeded" /\ method' = "reconnect")
    BY <1>3 DEF Ended
  <2> QED BY <2>1 DEF SucceededIsTrue
<1>10. CASE tail = 0 \/ ShouldSkip(tail)
  <2>1. stdoutErr' = (pod = "killed") /\ file' = file /\ size' = size
    BY <1>10 DEF FinishAfterEOF
  <2>2. Numbers' /\ FileIsLog' /\ Grows
    BY <1>3, <2>1 DEF Numbers, FileIsLog, Grows
  <2>3. ~cut => size = logged
    <3>1. ~cut => since = logged
      <4>1. tail = 0 \/ tail <= since
        BY <1>10 DEF ShouldSkip
      <4> QED BY ONLY <1>4, <1>5, <1>6, <4>1
    <3> QED BY <1>5, <3>1
  <2>4. LogDone'
    BY <1>3, <1>7, <2>1, <2>3 DEF LogDone
  <2> QED BY <1>1, <1>2, <1>8, <1>9, <2>2, <2>4
<1>11. CASE ~(tail = 0 \/ ShouldSkip(tail)) /\ writer
  <2>1. tail = pos + 1 /\ tail # 0 /\ (wrote \/ ~(tail <= since))
    BY <1>5, <1>11 DEF ShouldSkip
  <2>2. pos = size /\ size < logged /\ tail = size + 1
    BY ONLY <1>4, <1>5, <2>1
  <2>3. stdoutErr' = (pod = "killed") /\ WriteLine(size + 1)
    BY <1>11, <2>2 DEF FinishAfterEOF
  <2>4. size' = size + 1 /\ FileIsLog' /\ Len(file') \in Nat /\ Grows
    BY <1>3, <2>2, <2>3, WriteNext
  <2>5. Numbers'
    BY <1>3, <1>4, <2>4 DEF Numbers
  <2>6. ~cut => size' = logged
    BY ONLY <1>4, <1>6, <2>2, <2>4
  <2>7. LogDone'
    BY <1>3, <1>7, <2>3, <2>6 DEF LogDone
  <2> QED BY <1>1, <1>2, <1>8, <1>9, <2>4, <2>5, <2>7
<1>12. CASE ~(tail = 0 \/ ShouldSkip(tail)) /\ ~writer
  <2>1. stdoutErr' = TRUE /\ file' = file /\ size' = size
    BY <1>12 DEF FinishAfterEOF
  <2>2. Numbers' /\ FileIsLog' /\ Grows
    BY <1>3, <2>1 DEF Numbers, FileIsLog, Grows
  <2>3. LogDone'
    BY <1>3, <2>1 DEF LogDone
  <2> QED BY <1>1, <1>2, <1>8, <1>9, <2>2, <2>3
<1> QED BY <1>10, <1>11, <1>12

(* After a restart a unit is resumed with a pod that has run, or ends.     *)
LEMMA CrashRestartStep == ASSUME IInv, CrashRestart PROVE IInv'
<1> USE DEF IInv, Control, Log, Result, unit, cluster, input, stream, output, history
<1>1. Places' /\ PodHasRun'
  BY DEF CrashRestart, PodExists, Final, Places, PodHasRun, Before, WithTCP, Following
<1>2. InputSent' /\ Ended' /\ Cancelled'
  BY DEF CrashRestart, PodExists, Final, Places, InputSent, Ended, Cancelled, Before, WithTCP,
     Following
<1>3. /\ logger' = "none" /\ size' = 0 /\ pos' = 0 /\ tail' = 0 /\ since' = 0
      /\ crashes' = crashes + 1
      /\ logged' = logged /\ file' = file /\ method' = method
      /\ main' \in {"done", "resume"} /\ exited' = exited
  BY DEF CrashRestart
<1>4. Numbers' /\ FileIsLog'
  BY <1>3 DEF Numbers, FileIsLog
<1>5. NextLine'
  BY <1>3, <1>4 DEF Numbers, NextLine, Following
<1>6. LogDone'
  BY <1>3 DEF LogDone
<1>7. SucceededIsTrue'
  <2>1. stdin' = "none"
    BY DEF CrashRestart
  <2>2. state' = "Succeeded" => state = "Succeeded" /\ (~logFailed' => ~logFailed)
        /\ (cut => cut')
    BY DEF CrashRestart, Final
  <2> QED BY <1>3, <2>1, <2>2 DEF SucceededIsTrue
<1> QED BY <1>1, <1>2, <1>4, <1>5, <1>6, <1>7

(* A pod that still writes is none of a unit that has ended in success.    *)
LEMMA PodWritesStep == ASSUME IInv, PodWrites PROVE IInv'
<1> USE DEF IInv, Control, Log, Result, unit, cluster, input, stream, output, history
<1>1. Places' /\ PodHasRun'
  BY DEF PodWrites, ClusterUnaffected, Places, PodHasRun, Before, WithTCP, Following
<1>2. InputSent' /\ Ended' /\ Cancelled'
  BY DEF PodWrites, ClusterUnaffected, Places, InputSent, Ended, Cancelled, Before, WithTCP,
     Following
<1>4. Numbers'
  BY DEF PodWrites, ClusterUnaffected, Numbers
<1>5. logged \in Nat /\ logged' = logged + 1 /\ Len(file) \in Nat /\ pos \in Nat
      /\ tail \in Nat /\ since \in Nat
  BY DEF PodWrites, Numbers
<1>6. FileIsLog'
  <2>1. file' = file /\ size' = size
    BY DEF PodWrites, ClusterUnaffected
  <2> QED BY <1>5, <2>1 DEF FileIsLog
<1>7. NextLine'
  <2>1. logger' = logger /\ since' = since /\ method' = method /\ size' = size /\ pos' = pos
        /\ wrote' = wrote /\ tail' = tail
    BY DEF PodWrites, ClusterUnaffected
  <2>2. NextLine
    OBVIOUS
  <2> QED BY ONLY <1>5, <2>1, <2>2 DEF NextLine, Following
<1>8. LogDone'
  BY DEF PodWrites, ClusterUnaffected, Places, LogDone, PodHasRun, Ended, Before, Following
<1>9. SucceededIsTrue'
  BY DEF PodWrites, ClusterUnaffected, PodHasRun, SucceededIsTrue
<1> QED BY <1>1, <1>2, <1>4, <1>6, <1>7, <1>8, <1>9

(* A new unit satisfies the invariant.                                     *)
LEMMA InitIInv == Init => IInv
<1> SUFFICES ASSUME Init PROVE IInv
  OBVIOUS
<1>1. method \in {"tcp", "plain", "reconnect"}
  BY DEF Init, Methods
<1>2. Control
  BY <1>1 DEF Init, Control, Places, PodHasRun, InputSent, Ended, Cancelled, Before, WithTCP,
     Following
<1>3. file = Count(0) /\ Len(file) = 0
  BY DEF Init, Count
<1>4. Log
  <2>1. file = Count(Len(file))
    BY ONLY <1>3, Zenon
  <2> QED BY <1>3, <2>1 DEF Init, Log, Numbers, FileIsLog, NextLine, Following
<1>5. Result
  BY DEF Init, Result, LogDone, SucceededIsTrue
<1> QED BY <1>2, <1>4, <1>5 DEF IInv

(* Every step keeps it.                                                    *)
LEMMA StepIInv == IInv /\ [Next]_vars => IInv'
<1> SUFFICES ASSUME IInv, [Next]_vars PROVE IInv'
  OBVIOUS
<1>1. CASE Main
  BY <1>1, MainRoutine, AbortLogStep, AwaitContainerStep, FinishStep, OpenFilesStep,
     CopyStdoutStep,
     FinishTCPStep DEF Main
<1>2. CASE Stdin
  BY <1>2, StdinRoutine, SendTCPStep DEF Stdin
<1>3. CASE Logger
  BY <1>3, LoggerRoutine, OpenLogStep, ReadLineStep, ReadEOFStep, FinishAfterEOFStep DEF Logger
<1>4. CASE Caller
  BY <1>4, OtherRoutine DEF Caller
<1>5. CASE Cluster
  BY <1>5, OtherRoutine, PodWritesStep DEF Cluster
<1>6. CASE CrashRestart
  BY <1>6, CrashRestartStep
<1>7. CASE UNCHANGED vars
  <2> USE <1>7 DEF vars, unit, cluster, input, stream, output, history, IInv
  <2>1. Control'
    BY DEF Control, Places, PodHasRun, InputSent, Ended, Cancelled
  <2>2. Log'
    BY DEF Log, Numbers, FileIsLog, NextLine
  <2>3. Result'
    BY DEF Result, LogDone, SucceededIsTrue
  <2> QED BY <2>1, <2>2, <2>3
<1>8. CASE Done
  BY <1>7, <1>8 DEF Done
<1>9. CASE Listener
  BY <1>9, OtherRoutine DEF Listener
<1> QED BY <1>1, <1>2, <1>3, <1>4, <1>5, <1>6, <1>7, <1>8, <1>9 DEF Next

(* The invariant holds in every state of the unit, for a log of any length *)
(* and any number of crashes.                                              *)
THEOREM Invariance == Spec => []IInv
BY InitIInv, StepIInv, PTL DEF Spec

(* When a unit followed with reconnection is said to have succeeded, its   *)
(* container has ended by itself, an input to be sent was read to its end  *)
(* (not: has reached the pod, see InputArrives), and its output is         *)
(* complete unless the API server cut the last stream                      *)
(* (RunWorkUsingLogger).                                                   *)
THEOREM SucceededTrue == Spec => []SucceededIsTrue
<1>1. IInv => SucceededIsTrue
  BY DEF IInv, Result
<1> QED BY <1>1, Invariance, PTL

-----------------------------------------------------------------------------
(* Only the ends of RunWorkUsingLogger and runWorkUsingTCP enter           *)
(* Succeeded.                                                              *)
LEMMA OnlyFinishSucceeds ==
    ASSUME IInv, Next, state # "Succeeded", state' = "Succeeded"
    PROVE  Finish \/ FinishTCP
<1> USE DEF SetState, unit
<1>1. CASE Main
  BY <1>1 DEF Main, Start, CreatePod, PodCreated, RecordPod, PodReady, PodNotReady, AbortLog,
     AbortCancel, Resume, SkipStdin, OpenStdoutFails, Attach, AwaitContainer, Join, Fail, Accept,
     OpenFiles, OpenFilesFails, CopyStdout, CopyEnds
<1>2. CASE Stdin
  BY <1>2 DEF Stdin, SendStdin, StreamRetry, StreamDone, StreamFails, StdinFailed, StdinSent,
     SendTCP, StdinDone
<1>3. CASE Logger
  BY <1>3 DEF Logger, GetPod, OpenLog, OpenLogFails, ReadLine, ReadCanceled, ReadFails, ReadEOF,
     ContinueAfterEOF, FinishAfterEOF
<1>4. CASE Caller
  BY <1>4 DEF Caller, Cancel, CancelMark, CancelDelete
<1>5. CASE Cluster
  BY <1>5 DEF Cluster, ClusterUnaffected, PodStarts, PodWrites, PodExits, PodKilled
<1>6. CASE CrashRestart
  BY <1>6 DEF CrashRestart
<1>7. CASE Done
  BY <1>7 DEF Done, vars
<1>8. CASE Listener
  BY <1>8 DEF Listener, PodConnects, AcceptFails, Unaffected, CancelContext
<1> QED BY <1>1, <1>2, <1>3, <1>4, <1>5, <1>6, <1>7, <1>8 DEF Next

(* Once Cancel has entered its result the unit never counts as succeeded   *)
(* while the node is up: by then the context is done, so Join does not     *)
(* lead to Finish, and a Finish that was on its way finds the state no     *)
(* longer Running.                                                         *)
THEOREM CanceledStays == Spec => CancelNeverSucceeds
<1>1. IInv /\ [Next]_vars =>
        [method # "tcp" /\ cancelled /\ state # "Succeeded" => state' # "Succeeded"]_vars
  <2> SUFFICES ASSUME IInv, Next, method # "tcp", cancelled, state # "Succeeded",
                      state' = "Succeeded"
               PROVE  FALSE
    OBVIOUS
  <2>1. CASE Finish
    BY <2>1 DEF Finish, IInv, Control, Cancelled
  <2>2. CASE FinishTCP
    BY <2>2 DEF FinishTCP, IInv, Control, Places, WithTCP
  <2> QED BY <2>1, <2>2, OnlyFinishSucceeds
<1> QED BY <1>1, Invariance, PTL DEF Spec, CancelNeverSucceeds

-----------------------------------------------------------------------------
(* The steps that change the log or the file.                              *)
LEMMA OthersLeaveLog ==
    ASSUME Next
    PROVE  \/ UNCHANGED <<logged, file>>
           \/ PodWrites \/ AbortLog \/ CopyStdout \/ ReadLine \/ ReadEOF \/ FinishAfterEOF
<1> USE DEF cluster, output, Unaffected, InputUnaffected, LogUnaffected, CancelUnaffected,
            ClusterUnaffected
<1>1. CASE Main
  BY <1>1 DEF Main, Start, CreatePod, PodCreated, RecordPod, PodReady, PodNotReady,
     AbortCancel, Resume, SkipStdin, OpenStdoutFails, Attach, AwaitContainer, Join, Finish, Fail,
     Accept,
     OpenFiles, OpenFilesFails, CopyEnds, FinishTCP
<1>2. CASE Stdin
  BY <1>2 DEF Stdin, SendStdin, StreamRetry, StreamDone, StreamFails, StdinFailed, StdinSent,
     SendTCP, StdinDone
<1>3. CASE Logger
  BY <1>3 DEF Logger, GetPod, OpenLog, OpenLogFails, ReadCanceled, ReadFails, ContinueAfterEOF
<1>4. CASE Caller
  BY <1>4 DEF Caller, Cancel, CancelMark, CancelDelete
<1>5. CASE Cluster
  BY <1>5 DEF Cluster, PodStarts, PodExits, PodKilled
<1>6. CASE CrashRestart
  BY <1>6 DEF CrashRestart
<1>7. CASE Done
  BY <1>7 DEF Done, vars
<1>8. CASE Listener
  BY <1>8 DEF Listener, PodConnects, AcceptFails, Unaffected, CancelContext
<1> QED BY <1>1, <1>2, <1>3, <1>4, <1>5, <1>6, <1>7, <1>8 DEF Next

(* They are steps of Relay: a line of the pod is produced, and what is     *)
(* written passes on the lines after the last.                             *)
LEMMA StepRelay ==
    IInv /\ [Next]_vars => [LogRelay!Next]_<<[i \in 1 .. logged |-> i], file>>
<1> SUFFICES ASSUME IInv, [Next]_vars
             PROVE  [LogRelay!Next]_<<[i \in 1 .. logged |-> i], file>>
  OBVIOUS
<1>1. Count(logged) = [i \in 1 .. logged |-> i] /\ Count(logged)' = [i \in 1 .. logged |-> i]'
  BY DEF Count
<1>2. /\ logged \in Nat /\ Len(file) \in Nat /\ file = Count(Len(file)) /\ Len(file) <= logged
  BY DEF IInv, Log, Numbers, FileIsLog
<1>3. CASE UNCHANGED <<logged, file>>
  BY <1>3
<1>4. CASE PodWrites
  <2>1. logged' = logged + 1 /\ file' = file
    BY <1>4 DEF PodWrites, ClusterUnaffected, output
  <2>2. /\ Len(Count(logged + 1)) > Len(Count(logged))
        /\ SubSeq(Count(logged + 1), 1, Len(Count(logged))) = Count(logged)
    BY ONLY <1>2, CountSeq, CountPrefix
  <2>3. Count(logged)' = Count(logged + 1)
    BY <2>1
  <2>4. LogRelay!Produce
    BY <1>1, <2>1, <2>2, <2>3 DEF LogRelay!Produce
  <2> QED BY <2>4 DEF LogRelay!Next
<1>5. CASE Grows
  <2>1. SUFFICES ASSUME NEW n \in Nat, Len(file) < n, n <= logged, file' = Count(n),
                        logged' = logged
                 PROVE  LogRelay!PassOn
    BY <1>3, <1>5 DEF Grows, LogRelay!Next
  <2>2. n \in Len(file) + 1 .. Len(Count(logged)) /\ Count(n) = SubSeq(Count(logged), 1, n)
    <3>1. Len(Count(logged)) = logged
      BY ONLY <1>2, CountSeq
    <3>2. n \in 0 .. logged /\ n \in Len(file) + 1 .. logged
      BY ONLY <1>2, <2>1, n \in Nat
    <3>3. Count(n) = SubSeq(Count(logged), 1, n)
      BY ONLY <1>2, <3>2, CountPrefix
    <3> QED BY ONLY <3>1, <3>2, <3>3, Zenon
  <2> QED BY <1>1, <2>1, <2>2 DEF LogRelay!PassOn
<1>6. CASE UNCHANGED vars
  BY <1>3, <1>6 DEF vars, cluster, output
<1> QED BY <1>3, <1>4, <1>5, <1>6, OthersLeaveLog, AbortLogStep, CopyStdoutStep, ReadLineStep,
           ReadEOFStep, FinishAfterEOFStep

(* The stdout file is a growing prefix of the pod's log through every      *)
(* reconnection, retry and restart (KubeLoggingWithReconnect,              *)
(* ProcessLogLine): the unit implements Relay.                             *)
THEOREM LogRelayed == Spec => LogIsRelayed
<1>1. Init => LogRelay!Init
  BY DEF Init, LogRelay!Init
<1> QED BY <1>1, StepRelay, Invariance, PTL DEF Spec, LogIsRelayed, LogRelay!Spec
=============================================================================
