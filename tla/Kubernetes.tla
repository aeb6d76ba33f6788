----------------------------- MODULE Kubernetes -----------------------------
(***************************************************************************)
(* One unit of Kubernetes work: pkg/workceptor/kubernetes.go with the      *)
(* reader and writer of stdio_utils.go.                                    *)
(*                                                                         *)
(* The threads are the main goroutine (RunWorkUsingLogger, or              *)
(* runWorkUsingTCP), the one that sends stdin, the one that copies the     *)
(* log, and a caller of Cancel or Release.  The cluster starts, runs, ends *)
(* or kills the pod, cuts streams and fails calls at any time; the node    *)
(* may crash and restart the unit.                                         *)
(*                                                                         *)
(* The log is a sequence of lines 1, 2, ... whose timestamps differ, read  *)
(* whole or not at all.  A loop that only retries a call is one step that  *)
(* succeeds or gives up.  Of the status the state and PodName are kept.    *)
(***************************************************************************)
EXTENDS Integers, Sequences

CONSTANTS
    Lines,        \* bound on the lines the pod writes
    RetrySetting, \* RECEPTOR_KUBE_RETRY_COUNT, 0 if it is not a number
    MaxCrashes    \* bound on the crashes of the node

ASSUME KubernetesAssumption ==
    /\ Lines \in Nat
    /\ RetrySetting \in Int
    /\ MaxCrashes \in Nat

VARIABLES
    method,    \* ShouldUseReconnect: "reconnect" or "plain"; "tcp" is streamMethod
    state,     \* the unit's state; "gone" once it is released
    named,     \* ExtraData.PodName is set
    pod,       \* the pod in the cluster
    kwPod,     \* kw.Pod names the pod
    ctx,       \* the unit's context is live
    main,      \* the main goroutine
    stdin,     \* the goroutine that sends stdin
    stdinErr,
    reader,    \* lasterr of the STDinReader: "open", "eof" or "error"
    lost,      \* a failed attempt has taken a part of the payload with it
    logger,    \* the goroutine that copies the log
    stdoutErr,
    writer,    \* the STDoutWriter's file is open
    logged,    \* lines the pod has written
    file,      \* lines in the stdout file
    size,      \* lines written by this STDoutWriter
    pos,       \* lines read from the current log stream
    tail,      \* the unfinished line that came with EOF, or 0
    since,     \* sinceTime: the timestamp of the last line
    wrote,     \* successfulWrite
    retry,     \* retryGetLogStream
    caller,    \* the caller of Cancel or Release
    crashes,
    exited,    \* history: the container has ended by itself
    cut,       \* history: the log stream ended before the log
    logFailed, \* history: the log stream could not be opened
    cancelled  \* history: Cancel has entered its result, in this life of the node

unit == <<method, state, named>>
cluster == <<pod, logged, exited>>
input == <<stdin, stdinErr, reader, lost>>
stream == <<pos, tail, since, wrote, retry>>
output == <<logger, stdoutErr, writer, file, size>>
history == <<crashes, cut, logFailed, cancelled>>
vars == <<unit, cluster, kwPod, ctx, main, input, stream, output, caller, history>>

Final == {"Succeeded", "Failed"}   \* IsComplete
PodExists == pod \in {"pending", "running", "exited", "killed"}

-----------------------------------------------------------------------------
(* GetKubeRetryCount: the default for what is no count, and a maximum.     *)
Retries == CASE RetrySetting < 1   -> 5
             [] RetrySetting > 100 -> 100
             [] OTHER              -> RetrySetting

(* Versions <<major, minor, patch>>, in the order of semantic versions.    *)
AtLeast(v, w) ==
    \/ v[1] > w[1]
    \/ v[1] = w[1] /\ v[2] > w[2]
    \/ v[1] = w[1] /\ v[2] = w[2] /\ v[3] >= w[3]

(* The version from which on a log can be followed by timestamps; the fix  *)
(* is in some releases of the minor versions 23 to 25.                     *)
IsCompatibleK8S(v) ==
    AtLeast(v, CASE v[2] = 23 -> <<1, 23, 14>>
                 [] v[2] = 24 -> <<1, 24, 8>>
                 [] v[2] = 25 -> <<1, 25, 4>>
                 [] v[2] > 25 -> <<v[1], v[2], 0>>
                 [] OTHER     -> <<v[1], v[2], 9999>>)

NoVersion == <<0, 0, 0>>   \* the server does not say, or cannot be understood

(* RECEPTOR_KUBE_SUPPORT_RECONNECT decides when it is set.                 *)
ShouldUseReconnect(setting, v) ==
    \/ setting \in {"enabled", "auto"}
    \/ setting = "unset" /\ v # NoVersion /\ IsCompatibleK8S(v)

(* How the unit talks to its pod; "tcp" is a streamMethod of its own.      *)
Methods ==
    {"tcp"} \cup
    {IF ShouldUseReconnect(setting, v) THEN "reconnect" ELSE "plain" :
        setting \in {"unset", "enabled", "disabled", "auto", "other"},
        v \in {NoVersion} \cup ({1} \X (22 .. 26) \X (0 .. 15))}

(* Parameters of a submission.                                             *)
Params == {"command", "image", "params", "namespace", "config", "pod",
           "pod_name", "timeout"}

(* The setting that permits a parameter at run time.                       *)
Permission == [p \in Params |->
    CASE p \in {"command", "image"}    -> "allowRuntimeCommand"
      [] p \in {"params", "timeout"}   -> "allowRuntimeParams"
      [] p \in {"namespace", "config"} -> "allowRuntimeAuth"
      [] OTHER                         -> "allowRuntimePod"]
Permissions == {Permission[p] : p \in Params}

(* SetFromParams accepts the parameters given; configured are the ones the *)
(* worker type itself has a value for.                                     *)
Accepts(auth, permissions, configured, given) ==
    /\ \A p \in given : Permission[p] \in permissions
    /\ auth = "runtime" => "config" \in given \cup configured
    /\ "pod_name" \in given =>
         /\ given \cap {"pod", "params", "command", "image", "timeout"} = {}
         /\ auth = "incluster" => "namespace" \in given \cup configured
    /\ "pod" \in given => given \cap {"params", "command", "image"} = {}

(* What the configured worker type is checked for when it is registered.   *)
Prepared(auth, permissions, configured) ==
    /\ "namespace" \in configured \/ auth = "kubeconfig" \/ "allowRuntimeAuth" \in permissions
    /\ "config" \in configured => auth = "kubeconfig"
    /\ "pod" \in configured => configured \cap {"image", "command", "params"} = {}
    /\ \/ configured \cap {"pod", "image"} # {}
       \/ permissions \cap {"allowRuntimeCommand", "allowRuntimePod"} # {}

(* The submission names an existing pod, which is then adopted.            *)
AdoptModes ==
    {("pod_name" \in given) : given \in
        {g \in SUBSET Params :
            \E auth \in {"kubeconfig", "incluster", "runtime"}, permissions \in SUBSET Permissions,
               configured \in SUBSET {"namespace", "config", "pod", "image"} :
                /\ Prepared(auth, permissions, configured)
                /\ Accepts(auth, permissions, configured, g)}}

Init ==
    /\ method \in Methods
    /\ state = "Pending"
    /\ named \in AdoptModes
    /\ pod = IF named THEN "running" ELSE "none"
    /\ kwPod = FALSE
    /\ ctx = TRUE
    /\ main = "start"
    /\ stdin = "none"
    /\ stdinErr = FALSE
    /\ reader = "open"
    /\ lost = FALSE
    /\ logger = "none"
    /\ stdoutErr = FALSE
    /\ writer = FALSE
    /\ logged = 0
    /\ file = <<>>
    /\ size = 0
    /\ pos = 0
    /\ tail = 0
    /\ since = 0
    /\ wrote = FALSE
    /\ retry = Retries
    /\ caller = "idle"
    /\ crashes = 0
    /\ exited = FALSE
    /\ cut = FALSE
    /\ logFailed = FALSE
    /\ cancelled = FALSE

-----------------------------------------------------------------------------
(* UpdateBasicStatus and UpdateFullStatus; without effect after Release.   *)
SetState(new) == state' = IF state = "gone" THEN "gone" ELSE new

(* The context and, with it, the files the goroutines hold.                *)
CancelContext == ctx' = FALSE /\ writer' = FALSE

(* runWorkUsingTCP cancels the context on every return.                    *)
Return ==
    /\ main' = "done"
    /\ IF method = "tcp" THEN CancelContext ELSE UNCHANGED <<ctx, writer>>

(* The main goroutine gives up: UpdateBasicStatus(Failed), return.         *)
Fail ==
    /\ main = "fail"
    /\ SetState("Failed")
    /\ Return
    /\ UNCHANGED <<method, named, cluster, kwPod, input, stream, logger, stdoutErr,
                   file, size, caller, history>>

GiveUp(from) ==
    /\ main = from
    /\ main' = "fail"

Unaffected == <<method, cluster, input, stream, output, ctx, caller, history>>

(* Start: connectToKube; for tcp, open the listener, and look whether the  *)
(* unit was cancelled meanwhile.                                           *)
Start ==
    /\ main = "start"
    /\ SetState("Pending")
    /\ \/ /\ method = "tcp" => ctx
          /\ main' = IF named /\ method # "tcp" THEN "resume" ELSE "create"
          /\ UNCHANGED <<ctx, writer>>
       \/ main' = "fail" /\ UNCHANGED <<ctx, writer>>
       \/ method = "tcp" /\ ~ctx /\ Return
    /\ UNCHANGED <<method, named, cluster, kwPod, input, stream, logger, stdoutErr,
                   file, size, caller, history>>

(* CreatePod: the API call.  It fails without effect, or its answer is     *)
(* lost with the context.                                                  *)
CreatePod ==
    /\ main = "create"
    /\ \/ ctx /\ pod' = "pending" /\ kwPod' = TRUE /\ main' = "created"
       \/ ~ctx /\ pod' = "pending" /\ kwPod' = kwPod /\ main' = "fail"
       \/ UNCHANGED <<pod, kwPod>> /\ main' = "fail"
    /\ UNCHANGED <<unit, ctx, logged, exited, input, stream, output, caller, history>>

(* A call that was cancelled meanwhile is not followed up.                 *)
PodCreated ==
    /\ main = "created"
    /\ main' = IF ctx THEN "record" ELSE "fail"
    /\ UNCHANGED <<Unaffected, state, named, kwPod>>

RecordPod ==
    /\ main = "record"
    /\ SetState("Pending")
    /\ named' = (named \/ state # "gone")
    /\ main' = "wait"
    /\ UNCHANGED <<Unaffected, kwPod>>

(* podRunningAndReady and what CreatePod makes of its answer: the pod is   *)
(* ready, or has run to completion already.                                *)
PodReady ==
    /\ main = "wait"
    /\ \/ pod = "running" /\ main' = IF method = "tcp" THEN "accept" ELSE "attach"
       \/ pod = "exited" /\ main' = IF method = "tcp" THEN "fail" ELSE "skip"
    /\ UNCHANGED <<Unaffected, state, named, kwPod>>

(* The pod failed or is gone, its image cannot be pulled, or time is up;   *)
(* with an exit code, or without any event, it is left alone.              *)
PodNotReady ==
    /\ main = "wait"
    /\ main' \in {"abort", "fail"}
    /\ UNCHANGED <<Unaffected, state, named, kwPod>>

(* What there is of the log is copied first; if that fails, so does the    *)
(* unit, and without a file to copy it to there is no Cancel.              *)
AbortLog ==
    /\ main = "abort"
    /\ \/ /\ PodExists
          /\ size' = logged
          /\ file' = [i \in 1 .. logged |-> i]
          /\ main' = "abort cancel"
          /\ UNCHANGED state
       \/ SetState("Failed") /\ main' \in {"abort cancel", "fail"} /\ UNCHANGED <<size, file>>
    /\ UNCHANGED <<method, named, cluster, kwPod, ctx, input, stream, logger, stdoutErr,
                   writer, caller, history>>

(* kw.Cancel by CreatePod itself.                                          *)
AbortCancel ==
    /\ main = "abort cancel"
    /\ CancelContext
    /\ SetState("Canceled")
    /\ \/ PodExists /\ kwPod /\ pod' = "deleted"
       \/ pod' = pod
    /\ main' = "fail"
    /\ UNCHANGED <<method, named, logged, exited, kwPod, input, stream, logger, stdoutErr,
                   file, size, caller, history>>

(* A unit with a PodName: get that pod.                                    *)
Resume ==
    /\ main = "resume"
    /\ \/ ~ctx /\ main' = "done" /\ kwPod' = kwPod
       \/ ctx /\ PodExists /\ main' = "skip" /\ kwPod' = TRUE
       \/ ctx /\ main' = "fail" /\ kwPod' = kwPod
    /\ UNCHANGED <<Unaffected, state, named>>

-----------------------------------------------------------------------------
(* RunWorkUsingLogger once there is a pod.                                 *)

(* NewStdoutWriter: the file is neither truncated nor appended to.         *)
OpenStdout ==
    /\ writer' = ctx
    /\ size' = 0

StartLogger ==
    /\ logger' = IF method = "plain" THEN "open" ELSE "get"
    /\ main' = "join"

(* The pod was not created here, has completed already, or stdin is empty. *)
SkipStdin ==
    /\ main = "skip"
    /\ SetState("Running")
    /\ OpenStdout
    /\ StartLogger
    /\ stdin' = "skipped"
    /\ UNCHANGED <<method, named, cluster, kwPod, ctx, stdinErr, reader, lost, stream, stdoutErr,
                   file, caller, history>>

OpenStdoutFails ==
    /\ GiveUp("skip")
    /\ UNCHANGED <<Unaffected, state, named, kwPod>>

(* The executor, and whether stdin is empty.                               *)
Attach ==
    /\ main = "attach"
    /\ main' \in {"skip", "pod loop", "fail"}
    /\ UNCHANGED <<Unaffected, state, named, kwPod>>

(* podLoop: wait until the container runs.                                 *)
AwaitContainer ==
    /\ main = "pod loop"
    /\ \/ /\ pod = "running"
          /\ OpenStdout
          /\ StartLogger
          /\ stdin' = "send"
       \/ main' = "fail" /\ UNCHANGED <<writer, size, logger, stdin>>
    /\ UNCHANGED <<unit, cluster, kwPod, ctx, stdinErr, reader, lost, stream, stdoutErr,
                   file, caller, history>>

-----------------------------------------------------------------------------
(* The stdin goroutine.                                                    *)
InputUnaffected == <<method, named, cluster, kwPod, ctx, main, stream, logger, stdoutErr,
                     file, size, caller, history>>

SendStdin ==
    /\ stdin = "send"
    /\ SetState("Pending")
    /\ stdin' = "stream"
    /\ UNCHANGED <<InputUnaffected, writer, stdinErr, reader, lost>>

(* streamStdinWithRetry: an attempt fails, and the next one goes on where  *)
(* the reader stands; what was read before is not sent again.              *)
StreamRetry ==
    /\ stdin = "stream"
    /\ Retries > 1
    /\ ~lost
    /\ lost' = TRUE
    /\ UNCHANGED <<InputUnaffected, writer, state, stdin, stdinErr, reader>>

(* Without an error of the stream, the reader's own tells whether it was   *)
(* read to its end.                                                        *)
StreamDone ==
    /\ stdin = "stream"
    /\ \/ ctx /\ pod = "running" /\ reader' = "eof" /\ stdin' = "sent"
       \/ reader' \in {"open", "error"} /\ stdin' = "failing"
    /\ UNCHANGED <<InputUnaffected, writer, state, stdinErr, lost>>

StreamFails ==
    /\ stdin = "stream"
    /\ stdinErr' = TRUE
    /\ stdin' = "failing"
    /\ UNCHANGED <<InputUnaffected, writer, state, reader, lost>>

(* stdinErrChan closes the stdout file.                                    *)
StdinFailed ==
    /\ stdin = "failing"
    /\ SetState("Failed")
    /\ stdin' = "done"
    /\ writer' = FALSE
    /\ UNCHANGED <<InputUnaffected, stdinErr, reader, lost>>

StdinSent ==
    /\ stdin = "sent"
    /\ SetState("Running")
    /\ stdin' = "done"
    /\ UNCHANGED <<InputUnaffected, writer, stdinErr, reader, lost>>

-----------------------------------------------------------------------------
(* The log.                                                                *)
LogUnaffected == <<method, named, cluster, ctx, main, input, writer, caller,
                   crashes, cancelled>>

(* The top of mainLoop.                                                    *)
GetPod ==
    /\ logger = "get"
    /\ \/ stdinErr /\ logger' = "done" /\ UNCHANGED <<stdoutErr, kwPod>>
       \/ ~stdinErr /\ PodExists /\ ctx /\ logger' = "open" /\ UNCHANGED <<stdoutErr, kwPod>>
       \/ ~stdinErr /\ logger' = "done" /\ stdoutErr' = TRUE /\ kwPod' = FALSE
    /\ UNCHANGED <<LogUnaffected, state, stream, file, size, cut, logFailed>>

(* kubeLoggingConnectionHandler: the stream starts at the second of        *)
(* sinceTime, so with some lines that are there already.                   *)
OpenLog ==
    /\ logger = "open"
    /\ ctx
    /\ PodExists
    /\ pos' \in IF method = "plain" THEN {0} ELSE 0 .. since
    /\ wrote' = FALSE
    /\ tail' = 0
    /\ logger' = "read"
    /\ UNCHANGED <<LogUnaffected, state, since, retry, stdoutErr, kwPod, file, size, cut, logFailed>>

(* Faulty variant: it is tried again for ever.                             *)
OpenLogForever ==
    /\ logger = "open"
    /\ SetState("Failed")
    /\ logFailed' = TRUE
    /\ UNCHANGED <<LogUnaffected, logger, stream, stdoutErr, kwPod, file, size, cut>>

(* Whoever called it returns, without an error of its own.                 *)
OpenLogFails ==
    /\ logger = "open"
    /\ SetState("Failed")
    /\ logFailed' = TRUE
    /\ logger' = "done"
    /\ UNCHANGED <<LogUnaffected, stream, stdoutErr, kwPod, file, size, cut>>

(* Faulty variant: the line of sinceTime itself is new.                    *)
ShouldSkipLess(line) == line < since /\ ~wrote

(* ProcessLogLine: a line no later than the last one, until one is new.    *)
ShouldSkip(line) == line <= since /\ ~wrote

(* Write into the file at the writer's offset.                             *)
WriteLine(line) ==
    /\ size' = size + 1
    /\ file' = IF size < Len(file) THEN [file EXCEPT ![size + 1] = line] ELSE Append(file, line)

ReadLine ==
    /\ logger = "read"
    /\ pos < logged
    /\ pos' = pos + 1
    /\ IF method = "reconnect" /\ ShouldSkip(pos + 1)
       THEN UNCHANGED <<since, wrote, retry, logger, stdoutErr, size, file>>
       ELSE /\ since' = pos + 1
            /\ IF writer
               THEN /\ WriteLine(pos + 1)
                    /\ wrote' = TRUE
                    /\ retry' = Retries
                    /\ UNCHANGED <<logger, stdoutErr>>
               ELSE /\ stdoutErr' = TRUE
                    /\ logger' = "done"
                    /\ UNCHANGED <<wrote, retry, size, file>>
    /\ UNCHANGED <<LogUnaffected, state, tail, kwPod, cut, logFailed>>

(* The read fails because the context is done.                             *)
ReadCanceled ==
    /\ logger = "read"
    /\ ~ctx
    /\ logger' = "done"
    /\ stdoutErr' = (stdoutErr \/ method = "plain" \/ state \notin Final \cup {"Canceled"})
    /\ UNCHANGED <<LogUnaffected, state, stream, kwPod, file, size, cut, logFailed>>

(* An error that is not EOF; Retries of them without a line between are    *)
(* too many.                                                               *)
ReadFails ==
    /\ logger = "read"
    /\ ctx
    /\ retry' = retry - 1
    /\ IF retry' > 0 /\ method = "reconnect"
       THEN logger' = "get" /\ UNCHANGED stdoutErr
       ELSE logger' = "done" /\ stdoutErr' = TRUE
    /\ UNCHANGED <<LogUnaffected, state, pos, tail, since, wrote, kwPod, file, size, cut, logFailed>>

(* EOF: the log is at its end, or the API server has closed the stream.    *)
ReadEOF ==
    /\ logger = "read"
    /\ ctx
    /\ tail' \in {0} \cup IF pos + 1 = logged /\ pod # "running" THEN {logged} ELSE {}
    /\ cut' = (pod = "running" \/ (pos # logged /\ tail' = 0))
    /\ logger' = IF method = "plain" THEN "done" ELSE "eof"
    /\ IF method = "plain" /\ tail' # 0 /\ writer
       THEN WriteLine(tail')
       ELSE UNCHANGED <<file, size>>
    /\ UNCHANGED <<LogUnaffected, state, pos, since, wrote, retry, stdoutErr, kwPod, logFailed>>

(* The state of the container decides what EOF meant.                      *)
ContinueAfterEOF ==
    /\ logger = "eof"
    /\ \/ logger' = "get" /\ UNCHANGED stdoutErr    \* still running, or not to be got
       \/ logger' = "done" /\ stdoutErr' = TRUE     \* it has no such container
    /\ UNCHANGED <<LogUnaffected, state, stream, kwPod, file, size, cut, logFailed>>

(* Faulty variant: why the container has ended does not matter.            *)
FinishAfterAnyEnd ==
    /\ logger = "eof"
    /\ pod \in {"exited", "killed"}
    /\ ctx
    /\ logger' = "done"
    /\ IF tail = 0 \/ ShouldSkip(tail)
       THEN UNCHANGED <<stdoutErr, file, size>>
       ELSE IF writer
            THEN UNCHANGED stdoutErr /\ WriteLine(tail)
            ELSE stdoutErr' = TRUE /\ UNCHANGED <<file, size>>
    /\ UNCHANGED <<LogUnaffected, state, stream, kwPod, cut, logFailed>>

(* EOF at the end of the container; what was interrupted is an error.      *)
FinishAfterEOF ==
    /\ logger = "eof"
    /\ pod \in {"exited", "killed"}
    /\ ctx
    /\ logger' = "done"
    /\ IF tail = 0 \/ ShouldSkip(tail)
       THEN stdoutErr' = (pod = "killed") /\ UNCHANGED <<file, size>>
       ELSE IF writer
            THEN stdoutErr' = (pod = "killed") /\ WriteLine(tail)
            ELSE stdoutErr' = TRUE /\ UNCHANGED <<file, size>>
    /\ UNCHANGED <<LogUnaffected, state, stream, kwPod, cut, logFailed>>

-----------------------------------------------------------------------------
(* streamWait.Wait and what follows.                                       *)
Join ==
    /\ main = "join"
    /\ stdin \in {"skipped", "done"}
    /\ logger = "done"
    /\ main' = IF ~ctx THEN "done"
               ELSE IF stdinErr \/ stdoutErr THEN "fail" ELSE "finish"
    /\ UNCHANGED <<Unaffected, state, named, kwPod>>

(* Faulty variant: the state is not looked at.                             *)
FinishBlindly ==
    /\ main = "finish"
    /\ SetState("Succeeded")
    /\ main' = "done"
    /\ UNCHANGED <<Unaffected, named, kwPod>>

Finish ==
    /\ main = "finish"
    /\ IF state = "Running" THEN SetState("Succeeded") ELSE UNCHANGED state
    /\ main' = "done"
    /\ UNCHANGED <<Unaffected, named, kwPod>>

-----------------------------------------------------------------------------
(* runWorkUsingTCP once there is a pod.                                    *)

(* The main goroutine waits for the context or a connection, and for       *)
(* nothing else: neither the end of the pod nor a timeout.                 *)
Accept ==
    /\ main = "accept"
    /\ ~ctx
    /\ Return
    /\ UNCHANGED <<unit, cluster, kwPod, input, stream, logger, stdoutErr, file, size,
                   caller, history>>

(* The pod has connected, before the context was done.                     *)
PodConnects ==
    /\ main = "accept"
    /\ main' = "tcp open"
    /\ UNCHANGED <<Unaffected, state, named, kwPod>>

(* The goroutine with the listener: Accept or Close returns an error.      *)
AcceptFails ==
    /\ method = "tcp"
    /\ main \in {"create", "created", "record", "wait", "accept"}
    /\ ctx
    /\ SetState("Failed")
    /\ CancelContext
    /\ UNCHANGED <<method, named, cluster, kwPod, main, input, stream, logger, stdoutErr, file,
                   size, caller, history>>

(* Both files; an empty stdin is an error here.                            *)
OpenFiles ==
    /\ main = "tcp open"
    /\ OpenStdout
    /\ SetState("Pending")
    /\ main' = "copy"
    /\ stdin' = "tcp send"
    /\ UNCHANGED <<method, named, cluster, kwPod, ctx, stdinErr, reader, lost, stream,
                   logger, stdoutErr, file, caller, history>>

OpenFilesFails ==
    /\ GiveUp("tcp open")
    /\ UNCHANGED <<Unaffected, state, named, kwPod>>

(* All of stdin is read and sent, or not.                                  *)
SendTCP ==
    /\ stdin = "tcp send"
    /\ \/ reader' = "eof" /\ stdin' = "tcp sent" /\ UNCHANGED <<state, ctx, writer>>
       \/ ctx /\ SetState("Failed") /\ CancelContext /\ stdin' = "done" /\ UNCHANGED reader
       \/ ~ctx /\ stdin' = "done" /\ UNCHANGED <<state, ctx, writer, reader>>
    /\ UNCHANGED <<method, named, cluster, kwPod, main, stdinErr, lost, stream, logger,
                   stdoutErr, file, size, caller, history>>

(* The goroutine that waits for stdin.Done or the context: with both there *)
(* it may take either.                                                     *)
StdinDone ==
    /\ stdin = "tcp sent"
    /\ \/ SetState("Running")
       \/ ~ctx /\ UNCHANGED state
    /\ stdin' = "done"
    /\ UNCHANGED <<InputUnaffected, writer, stdinErr, reader, lost>>

CopyStdout ==
    /\ main = "copy"
    /\ size < logged
    /\ writer
    /\ WriteLine(size + 1)
    /\ UNCHANGED <<unit, cluster, kwPod, ctx, main, input, stream, logger, stdoutErr,
                   writer, caller, history>>

(* The connection ends, in an error or not.                                *)
CopyEnds ==
    /\ main = "copy"
    /\ \/ ~ctx /\ Return /\ cut' = cut
       \/ ctx /\ main' = "tcp finish" /\ cut' = (pod = "running" \/ size # logged)
              /\ UNCHANGED <<ctx, writer>>
       \/ ctx /\ main' = "fail" /\ cut' = cut /\ UNCHANGED <<ctx, writer>>
    /\ UNCHANGED <<unit, cluster, kwPod, input, stream, logger, stdoutErr, file, size,
                   caller, crashes, logFailed, cancelled>>

FinishTCP ==
    /\ main = "tcp finish"
    /\ SetState("Succeeded")
    /\ Return
    /\ UNCHANGED <<method, named, cluster, kwPod, input, stream, logger, stdoutErr, file,
                   size, caller, history>>

-----------------------------------------------------------------------------
(* Cancel, which Release begins with.                                      *)
CancelUnaffected == <<method, named, kwPod, main, input, stream, logger, stdoutErr, file, size,
                      logged, exited, crashes, cut, logFailed>>

Cancel ==
    /\ caller = "idle"
    /\ caller' \in {"cancel", "release"}
    /\ CancelContext
    /\ UNCHANGED <<CancelUnaffected, state, pod, cancelled>>

CancelMark ==
    /\ caller \in {"cancel", "release"}
    /\ SetState("Canceled")
    /\ cancelled' = TRUE
    /\ caller' = IF caller = "cancel" THEN "delete" ELSE "delete, release"
    /\ UNCHANGED <<CancelUnaffected, ctx, writer, pod>>

(* The pod is deleted if kw.Pod is known, errors are only logged.          *)
CancelDelete ==
    /\ caller \in {"delete", "delete, release"}
    /\ \/ PodExists /\ kwPod /\ pod' = "deleted"
       \/ pod' = pod
    /\ state' = IF caller = "delete" THEN state ELSE "gone"
    /\ caller' = "done"
    /\ UNCHANGED <<CancelUnaffected, ctx, writer, cancelled>>

-----------------------------------------------------------------------------
(* The node crashes and, when it is back, calls Restart; scanForUnit       *)
(* enters Failed if that returns an error.                                 *)
CrashRestart ==
    /\ crashes < MaxCrashes
    /\ state # "gone"
    /\ crashes' = crashes + 1
    /\ caller' = "idle"
    /\ kwPod' = FALSE
    /\ ctx' = TRUE
    /\ stdin' = "none" /\ stdinErr' = FALSE /\ reader' = "open" /\ lost' = FALSE
    /\ logger' = "none" /\ stdoutErr' = FALSE /\ writer' = FALSE /\ size' = 0
    /\ pos' = 0 /\ tail' = 0 /\ since' = 0 /\ wrote' = FALSE /\ retry' = Retries
    /\ cut' = (cut /\ state \in Final) /\ logFailed' = (logFailed /\ state \in Final)
    /\ \/ state \in Final /\ main' = "done" /\ UNCHANGED <<state, pod>>
       \/ state = "Running" /\ method # "tcp" /\ main' = "resume" /\ UNCHANGED <<state, pod>>
       \/ /\ state \notin Final
          /\ state # "Running" \/ method = "tcp"
          /\ main' = "done"
          /\ state' = "Failed"
          /\ \/ PodExists /\ named /\ pod' = "deleted"
             \/ pod' = pod            \* not so configured, or the call fails
    /\ cancelled' = FALSE
    /\ UNCHANGED <<method, named, logged, exited, file>>

-----------------------------------------------------------------------------
(* The cluster.                                                            *)
ClusterUnaffected == <<unit, kwPod, ctx, main, input, stream, output, caller, history>>

PodStarts ==
    /\ pod = "pending"
    /\ pod' = "running"
    /\ UNCHANGED <<ClusterUnaffected, logged, exited>>

PodWrites ==
    /\ pod = "running"
    /\ logged < Lines
    /\ logged' = logged + 1
    /\ UNCHANGED <<ClusterUnaffected, pod, exited>>

PodExits ==
    /\ pod = "running"
    /\ pod' = "exited"
    /\ exited' = TRUE
    /\ UNCHANGED <<ClusterUnaffected, logged>>

(* Out of memory, evicted, never started.                                  *)
PodKilled ==
    /\ pod \in {"pending", "running"}
    /\ pod' = "killed"
    /\ UNCHANGED <<ClusterUnaffected, logged, exited>>

-----------------------------------------------------------------------------
Main == \/ Start \/ CreatePod \/ PodCreated \/ RecordPod \/ PodReady \/ PodNotReady
        \/ AbortLog \/ AbortCancel \/ Resume \/ SkipStdin \/ OpenStdoutFails \/ Attach
        \/ AwaitContainer
        \/ Join \/ Finish \/ Fail
        \/ Accept \/ OpenFiles \/ OpenFilesFails \/ CopyStdout \/ CopyEnds \/ FinishTCP

Stdin == SendStdin \/ StreamRetry \/ StreamDone \/ StreamFails \/ StdinFailed \/ StdinSent
         \/ SendTCP \/ StdinDone

Logger == GetPod \/ OpenLog \/ OpenLogFails \/ ReadLine \/ ReadCanceled \/ ReadFails \/ ReadEOF
          \/ ContinueAfterEOF \/ FinishAfterEOF

Listener == PodConnects \/ AcceptFails

Caller == Cancel \/ CancelMark \/ CancelDelete

Cluster == PodStarts \/ PodWrites \/ PodExits \/ PodKilled

Done ==
    /\ main = "done" /\ stdin \in {"none", "skipped", "done"} /\ logger \in {"none", "done"}
    /\ UNCHANGED vars

Next == Main \/ Stdin \/ Logger \/ Listener \/ Caller \/ CrashRestart \/ Cluster \/ Done

(* Every goroutine goes on, a pod starts and ends in the end, and the      *)
(* cluster does not fail for ever: an EOF is followed by a look at the     *)
(* container.  A pod need not connect to the listener, and nobody needs to *)
(* call Cancel.                                                            *)
Fairness ==
    /\ WF_vars(Main)
    /\ WF_vars(Stdin)
    /\ WF_vars(Logger)
    /\ SF_vars(FinishAfterEOF)
    /\ SF_vars(ReadLine)
    /\ WF_vars(CancelMark \/ CancelDelete)
    /\ WF_vars(PodStarts)
    /\ WF_vars(PodExits)

Spec == Init /\ [][Next]_vars /\ Fairness

-----------------------------------------------------------------------------
(* Types, and the stages a goroutine can be in while another is at work.   *)
TypeOK ==
    /\ method \in Methods
    /\ state \in {"Pending", "Running", "Succeeded", "Failed", "Canceled", "gone"}
    /\ named \in BOOLEAN /\ kwPod \in BOOLEAN /\ ctx \in BOOLEAN
    /\ pod \in {"none", "pending", "running", "exited", "killed", "deleted"}
    /\ main \in {"start", "create", "created", "record", "wait", "abort", "abort cancel",
                 "resume", "skip", "attach", "pod loop", "join", "finish", "fail", "done",
                 "accept", "tcp open", "copy", "tcp finish"}
    /\ stdin \in {"none", "send", "stream", "failing", "sent", "tcp send", "tcp sent",
                  "skipped", "done"}
    /\ stdinErr \in BOOLEAN /\ lost \in BOOLEAN
    /\ reader \in {"open", "eof", "error"}
    /\ logger \in {"none", "get", "open", "read", "eof", "done"}
    /\ stdoutErr \in BOOLEAN /\ writer \in BOOLEAN /\ wrote \in BOOLEAN
    /\ logged \in 0 .. Lines /\ size \in 0 .. Lines
    /\ pos \in 0 .. Lines /\ tail \in 0 .. Lines /\ since \in 0 .. Lines
    /\ file \in Seq(1 .. Lines)
    /\ retry \in 0 .. Retries
    /\ caller \in {"idle", "cancel", "release", "delete", "delete, release", "done"}
    /\ crashes \in 0 .. MaxCrashes
    /\ exited \in BOOLEAN /\ cut \in BOOLEAN /\ logFailed \in BOOLEAN /\ cancelled \in BOOLEAN

(* The stdout file is the pod's log up to some line, whatever the number   *)
(* of reconnections and restarts: no line twice, none left out             *)
(* (KubeLoggingWithReconnect, ProcessLogLine).                             *)
LogRelay == INSTANCE Relay WITH source <- [i \in 1 .. logged |-> i], sink <- file
LogIsRelayed == LogRelay!Spec

(* When a unit whose log was followed with reconnection is said to have    *)
(* succeeded, its container has ended by itself, its input, if it was to   *)
(* be sent, was read to its end, and its output is complete unless the API *)
(* server closed the last stream early (RunWorkUsingLogger; a log that     *)
(* could not be opened is another matter).  That all of the input reached  *)
(* the pod is InputArrives, and does not follow.                           *)
SucceededIsTrue ==
    state = "Succeeded" /\ method = "reconnect" /\ ~logFailed =>
        /\ exited
        /\ stdin = "done" => reader = "eof"
        /\ cut \/ Len(file) = logged

(* The payload of a unit that has succeeded was sent to its pod, also when *)
(* the stream failed and was tried again (streamStdinWithRetry "sends the  *)
(* work unit's payload to the pod, retrying a failed stream").  This does  *)
(* not hold: the next attempt reads on where the failed one had stopped.   *)
InputArrives == state = "Succeeded" /\ ~logFailed => ~lost

(* Once Cancel has entered its result, the unit never counts as succeeded  *)
(* while the node is up (RunWorkUsingLogger checks the context, and the    *)
(* state under the lock).                                                  *)
CancelNeverSucceeds ==
    [][method # "tcp" /\ cancelled /\ state # "Succeeded" => state' # "Succeeded"]_vars

(* The unit comes to an end once its pod does, and then has a final state  *)
(* unless a Cancel raced with it (no goroutine waits for ever for another).*)
(* With streamMethod tcp it may instead wait for ever, until it is         *)
(* cancelled, for a pod that never connects (runWorkUsingTCP).             *)
Settles ==
    <>[](\/ main = "done" /\ (method # "tcp" /\ ~cancelled => state \in Final)
         \/ main = "accept" /\ ctx)
=============================================================================
