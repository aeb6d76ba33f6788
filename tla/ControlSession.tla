--------------------------- MODULE ControlSession ---------------------------
(***************************************************************************)
(* One session of the control service (pkg/controlsvc/controlsvc.go) with  *)
(* a client, and the stream of a unit's results that "work results" starts *)
(* (GetResults of pkg/workceptor/workceptor.go, WriteToConn).              *)
(*                                                                         *)
(* A request is one line; of its text only the kind is kept.  Standard     *)
(* output is a sequence of chunks 1, 2, ...  The client may stop sending,  *)
(* or go away, at any time.                                                *)
(***************************************************************************)
EXTENDS Naturals, Sequences

CONSTANTS
    MaxRequests,   \* bound on the lines a client sends
    Total          \* chunks of standard output the unit produces in all

ControlSessionAssumption == MaxRequests \in Nat /\ Total \in Nat

(* A blank line; a command answered at once, refused, or not known; JSON   *)
(* that is malformed or has no command; the two commands that use the      *)
(* connection themselves.                                                  *)
Requests == {"blank", "simple", "refused", "unknown", "bad json", "submit", "results"}

VARIABLES
    inbox,      \* lines on their way to the session
    sent,       \* the number of lines sent
    eof,        \* the client sends no more
    gone,       \* the client has closed the connection: writing fails
    at,         \* the session
    ctx,        \* the command's context is live
    unit,       \* the unit's state: "running", "complete" or "canceled"
    released,   \* it is no longer known
    file,       \* its stdout file exists
    produced,   \* chunks in it
    recorded,   \* StdoutSize of its status
    stream,     \* the goroutine of GetResults
    filePos,
    failures,   \* of the goroutine that looks after the file
    passed      \* chunks written to the client

client == <<inbox, sent, eof, gone>>
session == <<at, ctx>>
work == <<unit, released, file, produced, recorded>>
results == <<stream, filePos, failures, passed>>
vars == <<client, session, work, results>>

Init ==
    /\ inbox = <<>> /\ sent = 0 /\ eof = FALSE /\ gone = FALSE
    /\ at = "setup" /\ ctx = TRUE
    /\ unit = "running" /\ released = FALSE /\ file \in BOOLEAN /\ produced = 0 /\ recorded = 0
    /\ stream = "none" /\ filePos = 0 /\ failures = 0 /\ passed = <<>>

-----------------------------------------------------------------------------
(* The client; it asks for results once.                                   *)
Send(request) ==
    /\ ~eof
    /\ sent < MaxRequests
    /\ request = "results" => stream = "none" /\ \A i \in DOMAIN inbox : inbox[i] # "results"
    /\ inbox' = Append(inbox, request)
    /\ sent' = sent + 1
    /\ UNCHANGED <<eof, gone, session, work, results>>

CloseWrite == ~eof /\ eof' = TRUE /\ UNCHANGED <<inbox, sent, gone, session, work, results>>

GoAway ==
    /\ ~gone
    /\ gone' = TRUE /\ eof' = TRUE
    /\ UNCHANGED <<inbox, sent, session, work, results>>

-----------------------------------------------------------------------------
(* RunControlSession.  Its return closes the connection and cancels the    *)
(* contexts of all commands, which their deferred calls do only then.      *)
ReturnOnly == at' = "closed" /\ UNCHANGED ctx   \* faulty variant: no cancel

Return == at' = "closed" /\ ctx' = FALSE

(* Something is written to the client; if it cannot be, the session ends.  *)
Write(then) == IF gone THEN Return ELSE at' = then /\ UNCHANGED ctx

(* SetupConnection: the TLS handshake, if there is one, which a client     *)
(* fails or lets time out; the connection is closed then.                  *)
SetupConnection ==
    /\ at = "setup"
    /\ \/ ~gone /\ at' = "greet" /\ UNCHANGED ctx
       \/ Return
    /\ UNCHANGED <<client, work, results>>

Greet == at = "greet" /\ Write("read") /\ UNCHANGED <<client, work, results>>

(* readCommandBytes finds no more lines, or the connection broken.         *)
ReadEnd ==
    /\ at = "read"
    /\ (inbox = <<>> /\ eof) \/ gone
    /\ Return
    /\ UNCHANGED <<client, work, results>>

(* readCommandBytes, parseCommand, the lookup in controlTypes and the      *)
(* command.  An error in JSON is answered, and then the empty command is   *)
(* not known, which is answered as well.                                   *)
Command ==
    /\ at = "read"
    /\ inbox # <<>>
    /\ inbox' = Tail(inbox)
    /\ LET request == Head(inbox) IN
       \/ request = "blank" /\ UNCHANGED <<at, ctx, results>>
       \/ request \in {"simple", "refused", "unknown"} /\ Write("read") /\ UNCHANGED results
       \/ request = "bad json" /\ Write("unknown") /\ UNCHANGED results
       \/ request = "submit" /\ Write("submit") /\ UNCHANGED results
       \/ request = "results" /\ released /\ Write("read") /\ UNCHANGED results
       \/ /\ request = "results" /\ ~released
          /\ Write("results")
          /\ stream' = "open"
          /\ UNCHANGED <<filePos, failures, passed>>
    /\ UNCHANGED <<sent, eof, gone, work>>

UnknownCommand == at = "unknown" /\ Write("read") /\ UNCHANGED <<client, work, results>>

(* ReadFromConn: everything up to EOF is the unit's input.                 *)
Submit ==
    /\ at = "submit"
    /\ \/ inbox # <<>> /\ inbox' = Tail(inbox) /\ UNCHANGED <<at, ctx>>
       \/ inbox = <<>> /\ eof /\ Write("read") /\ UNCHANGED inbox
    /\ UNCHANGED <<sent, eof, gone, work, results>>

(* WriteToConn takes what the goroutine offers, or finds the channel       *)
(* closed and goes back to reading commands.                               *)
PassOn ==
    /\ at = "results"
    /\ stream = "offer"
    /\ stream' = "read"
    /\ Write("results")
    /\ passed' = IF gone THEN passed ELSE Append(passed, filePos)
    /\ UNCHANGED <<client, work, filePos, failures>>

ResultsEnd ==
    /\ at = "results"
    /\ stream \in {"closed", "complete"}
    /\ at' = "read"
    /\ UNCHANGED <<client, ctx, work, results>>

-----------------------------------------------------------------------------
(* GetResults.  The channel is closed as "complete" or, for another        *)
(* reason, as "closed".                                                    *)
StreamTo(where) ==
    /\ stream' = where
    /\ UNCHANGED <<client, session, work, filePos, failures, passed>>

OpenStdout == stream = "open" /\ file /\ StreamTo("read")

NoStdout == stream = "open" /\ ~file /\ unit = "complete" /\ StreamTo("closed")

StreamDone == stream \in {"open", "read", "offer"} /\ ~ctx /\ StreamTo("closed")

(* The file was missing more than three times in a row.                    *)
StatFails ==
    /\ stream = "read"
    /\ ~file
    /\ failures < 3
    /\ failures' = failures + 1
    /\ UNCHANGED <<client, session, work, stream, filePos, passed>>

StatGivesUp == stream = "read" /\ ~file /\ failures = 3 /\ StreamTo("closed")

(* Faulty variant: the position is taken from the size of the file.        *)
ReadToEnd ==
    /\ stream = "read" /\ ctx
    /\ filePos < produced
    /\ filePos' = produced
    /\ stream' = "offer"
    /\ UNCHANGED <<client, session, work, failures, passed>>

(* The position is advanced before the chunk is handed over.               *)
Read ==
    /\ stream = "read" /\ ctx
    /\ filePos < produced
    /\ filePos' = filePos + 1
    /\ stream' = "offer"
    /\ UNCHANGED <<client, session, work, failures, passed>>

(* Faulty variant: end of file is the end once the unit is complete.       *)
EndOfFileIsEnd == stream = "read" /\ filePos >= produced /\ unit = "complete" /\ StreamTo("complete")

(* End of file, and all that the status tells of was read.                 *)
EndOfFile ==
    /\ stream = "read"
    /\ filePos >= produced
    /\ unit = "complete"
    /\ filePos >= recorded
    /\ StreamTo("complete")

-----------------------------------------------------------------------------
(* The unit.  The status of a remote unit is complete, with its full       *)
(* StdoutSize, before all output has been fetched.                         *)
UnitWrites ==
    /\ unit \in {"running", "complete"} /\ ~released
    /\ produced < Total
    /\ produced' = produced + 1
    /\ file' = TRUE
    /\ UNCHANGED <<client, session, unit, released, recorded, results>>

UnitRecords ==
    /\ unit = "running"
    /\ recorded' = produced
    /\ UNCHANGED <<client, session, unit, released, file, produced, results>>

UnitEnds ==
    /\ unit = "running"
    /\ unit' \in {"complete", "canceled"}
    /\ recorded' = IF unit' = "complete" THEN Total ELSE recorded
    /\ UNCHANGED <<client, session, released, file, produced, results>>

(* Another session releases the unit, whose object GetResults still holds. *)
Release ==
    /\ ~released
    /\ released' = TRUE
    /\ unit' = IF unit = "running" THEN "canceled" ELSE unit
    /\ file' = FALSE
    /\ UNCHANGED <<client, session, produced, recorded, results>>

-----------------------------------------------------------------------------
Client == CloseWrite \/ GoAway \/ \E request \in Requests : Send(request)
Session == SetupConnection \/ Greet \/ ReadEnd \/ Command \/ UnknownCommand \/ Submit
           \/ PassOn \/ ResultsEnd
Stream == OpenStdout \/ NoStdout \/ StreamDone \/ StatFails \/ StatGivesUp \/ Read \/ EndOfFile
Unit == UnitWrites \/ UnitRecords \/ UnitEnds \/ Release

Next == Client \/ Session \/ Stream \/ Unit

(* The session and the goroutine go on, and output that is announced comes.*)
Fairness == WF_vars(Session) /\ WF_vars(Stream) /\ WF_vars(unit = "complete" /\ UnitWrites)

Spec == Init /\ [][Next]_vars /\ Fairness

-----------------------------------------------------------------------------
(* The client gets the unit's standard output in order, without gaps and   *)
(* without anything twice, whatever becomes of unit, session and client    *)
(* (GetResults, WriteToConn): the session implements a Relay.              *)
ResultsRelay == INSTANCE Relay WITH source <- [i \in 1 .. produced |-> i], sink <- passed
ResultsAreRelayed == ResultsRelay!Spec

(* A stream that was closed because it is complete has passed on all that  *)
(* the unit will ever write, also if the status was ahead of the output    *)
(* (the test of StdoutSize in GetResults).                                 *)
CompleteIsComplete == stream = "complete" => filePos = Total

(* A session whose client sends no more comes to its end, and the stream   *)
(* it started with it, unless it waits for the results of a unit that does *)
(* not complete (RunControlSession, GetResults).                           *)
SessionEnds ==
    eof ~> \/ at = "closed" /\ stream \in {"none", "closed", "complete"}
           \/ at = "results" /\ unit # "complete"
=============================================================================
