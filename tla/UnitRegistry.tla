---------------------------- MODULE UnitRegistry ----------------------------
(***************************************************************************)
(* The register of work units: activeUnits of pkg/workceptor/workceptor.go *)
(* with its lock, the unit directories, BaseWorkUnit.Release, and the work *)
(* commands of controlsvc.go that use them.                                *)
(*                                                                         *)
(* Clients send commands at the same time; one work type is registered     *)
(* late, which rescans the directories.  Lock and RLock are those of Go: a *)
(* writer that waits keeps new readers out.  A section that waits for      *)
(* nothing is one step.  A command that is refused for its parameters or   *)
(* signature changes nothing.                                              *)
(***************************************************************************)
EXTENDS Naturals

CONSTANTS
    Clients,     \* control sessions
    Registrar,   \* the goroutine that registers the late work type
    Units        \* unit IDs

UnitRegistryAssumption ==
    /\ Registrar \notin Clients
    /\ "free" \notin Clients \cup {Registrar}
    /\ Units # {}

Processes == Clients \cup {Registrar}
Free == "free"                          \* held by nobody

VARIABLES
    dir,         \* the unit directory: "none", "empty" or "saved" (a status file)
    late,        \* the unit's work type is the one registered late
    active,      \* activeUnits: "none", "worker" or "unknown" (unknownUnit)
    known,       \* the late work type is in workTypes
    readers,     \* activeUnitsLock: the read locks each process holds
    writer,      \* who holds it for writing
    waiting,     \* who waits for that
    statusLock,  \* who holds the statusLock of a unit object
    job,         \* what a process is at: see Jobs
    todo,        \* units the registrar has still to scan
    mine,        \* units a client has been given by submit
    left,        \* history: a forced release, or one for an earlier unit of that ID,
                 \* has left the directory behind
    stale        \* history: processes whose unit has been replaced by a new one

lock == <<readers, writer, waiting>>
store == <<dir, late, active, known>>
history == <<mine, left, stale>>
vars == <<store, lock, statusLock, job, todo, history>>

(* "status" stands for every command that only looks up a unit: status,    *)
(* list, cancel, results.                                                  *)
Commands == {"status", "release", "force-release"}
Places == {"idle", "submit", "allocate", "save", "found", "use", "scan", "checked", "load",
           "insert", "scan end", "release", "remove", "forget", "register", "unknown units",
           "register scan"}
Objects == {"none", "worker", "unknown"}
Jobs == [at : Places, cmd : Commands \cup {"submit", "none"}, unit : Units, object : Objects]
Idle == [at |-> "idle", cmd |-> "none", unit |-> CHOOSE u \in Units : TRUE, object |-> "none"]

-----------------------------------------------------------------------------
(* sync.RWMutex.                                                           *)
CanRead == writer = Free /\ waiting = {}
RLock(p) == CanRead /\ readers' = [readers EXCEPT ![p] = @ + 1]
RUnlock(p) == readers' = [readers EXCEPT ![p] = @ - 1]
CanWrite == writer = Free /\ \A p \in Processes : readers[p] = 0

Goto(p, where) ==
    job' = [job EXCEPT ![p] = IF where = "idle" THEN Idle ELSE [@ EXCEPT !.at = where]]

-----------------------------------------------------------------------------
(* A unit on disk at the start has been found by the first scan.           *)
Init ==
    /\ dir \in [Units -> {"none", "saved"}]
    /\ late \in [Units -> BOOLEAN]
    /\ \A u \in Units : dir[u] = "none" => ~late[u]
    /\ active = [u \in Units |-> IF dir[u] = "none" THEN "none"
                                 ELSE IF late[u] THEN "unknown" ELSE "worker"]
    /\ known = FALSE
    /\ readers = [p \in Processes |-> 0]
    /\ writer = Free
    /\ waiting = {}
    /\ statusLock = [o \in Units \X {"worker", "unknown"} |-> Free]
    /\ job = [p \in Processes |-> Idle]
    /\ todo = {}
    /\ mine = [p \in Clients |-> {}]
    /\ left = [u \in Units |-> FALSE]
    /\ stale = {}

-----------------------------------------------------------------------------
(* work submit, adopt: AllocateUnit and AllocateRemoteUnit.  The unit ID   *)
(* is the client's choice, or a random one that nobody else has chosen.  A *)
(* command whose signature is refused comes no further than the session,   *)
(* and is none of these.                                                   *)
Submit(p, u) ==
    /\ job[p].at = "idle"
    /\ job' = [job EXCEPT ![p] = [at |-> "submit", cmd |-> "submit", unit |-> u, object |-> "none"]]
    /\ waiting' = waiting \cup {p}
    /\ UNCHANGED <<store, readers, writer, statusLock, todo, history>>

AllocateLock(p) ==
    /\ job[p].at = "submit"
    /\ CanWrite
    /\ writer' = p
    /\ waiting' = waiting \ {p}
    /\ Goto(p, "allocate")
    /\ UNCHANGED <<store, readers, statusLock, todo, history>>

(* generateUnitID: an ID in use is refused; while an active unit has no    *)
(* directory, the loop goes on.                                            *)
GenerateUnitID(p) ==
    LET u == job[p].unit IN
    /\ job[p].at = "allocate"
    /\ \/ dir[u] # "none" /\ writer' = Free /\ Goto(p, "idle") /\ UNCHANGED <<dir, late>>
       \/ /\ dir[u] = "none" /\ active[u] = "none"
          /\ dir' = [dir EXCEPT ![u] = "empty"]
          /\ late' = [late EXCEPT ![u] = FALSE]
          /\ Goto(p, "save")
          /\ UNCHANGED writer
    /\ UNCHANGED <<active, known, readers, waiting, statusLock, todo, history>>

(* Bad parameters leave the directory behind; a remote unit may be refused *)
(* after it was entered.                                                   *)
Save(p) ==
    LET u == job[p].unit IN
    /\ job[p].at = "save"
    /\ writer' = Free
    /\ Goto(p, "idle")
    /\ \/ UNCHANGED <<dir, active, mine, stale>>
       \/ /\ dir' = [dir EXCEPT ![u] = "saved"]
          /\ active' = [active EXCEPT ![u] = "worker"]
          /\ stale' = stale \cup {q \in Processes : job[q].unit = u /\ job[q].object # "none"}
          /\ \/ mine' = [mine EXCEPT ![p] = @ \cup {u}]
             \/ mine' = mine
    /\ UNCHANGED <<late, known, readers, waiting, statusLock, todo, left>>

-----------------------------------------------------------------------------
(* findUnit.                                                               *)
Find(p, u, c) ==
    /\ job[p].at = "idle"
    /\ RLock(p)
    /\ job' = [job EXCEPT ![p] = [at |-> IF active[u] # "none" THEN "found" ELSE "scan",
                                  cmd |-> c, unit |-> u, object |-> active[u]]]
    /\ stale' = stale \ {p}
    /\ UNCHANGED <<store, writer, waiting, statusLock, todo, mine, left>>

(* The unit is there: the read lock is given up, then its status read.     *)
Found(p) ==
    /\ job[p].at = "found"
    /\ RUnlock(p)
    /\ Goto(p, "use")
    /\ UNCHANGED <<store, writer, waiting, statusLock, todo, history>>

Use(p) ==
    /\ job[p].at = "use"
    /\ statusLock[<<job[p].unit, job[p].object>>] = Free
    /\ \/ job[p].cmd \in {"release", "force-release"} /\ Goto(p, "release")
       \/ Goto(p, "idle")      \* done, or refused for its signature
    /\ UNCHANGED <<store, lock, statusLock, todo, history>>

-----------------------------------------------------------------------------
(* scanForUnit, called by findUnit with the read lock held and by          *)
(* scanForUnits without it.                                                *)
ScanEnds(p) ==
    IF p = Registrar
    THEN Goto(p, "register scan") /\ UNCHANGED readers
    ELSE RUnlock(p) /\ Goto(p, "idle")      \* "unknown work unit"

ScanNoDir(p) ==
    /\ job[p].at = "scan"
    /\ dir[job[p].unit] = "none"
    /\ ScanEnds(p)
    /\ UNCHANGED <<store, writer, waiting, statusLock, todo, history>>

ScanCheck(p) ==
    /\ job[p].at = "scan"
    /\ dir[job[p].unit] # "none"
    /\ RLock(p)
    /\ Goto(p, "checked")
    /\ UNCHANGED <<store, writer, waiting, statusLock, todo, history>>

ScanChecked(p) ==
    /\ job[p].at = "checked"
    /\ RUnlock(p)
    /\ Goto(p, IF active[job[p].unit] = "none" THEN "load" ELSE "scan end")
    /\ UNCHANGED <<store, writer, waiting, statusLock, todo, history>>

ScanEnd(p) ==
    /\ job[p].at = "scan end"
    /\ ScanEnds(p)
    /\ UNCHANGED <<store, writer, waiting, statusLock, todo, history>>

(* A directory without a status file is passed over, any other unit is     *)
(* loaded and restarted.                                                   *)
ScanLoad(p) ==
    LET u == job[p].unit IN
    /\ job[p].at = "load"
    /\ IF dir[u] = "saved"
       THEN /\ waiting' = waiting \cup {p}
            /\ job' = [job EXCEPT ![p].at = "insert",
                                  ![p].object = IF late[u] /\ ~known THEN "unknown" ELSE "worker"]
       ELSE Goto(p, "scan end") /\ UNCHANGED waiting
    /\ UNCHANGED <<store, readers, writer, statusLock, todo, history>>

ScanInsert(p) ==
    LET u == job[p].unit IN
    /\ job[p].at = "insert"
    /\ CanWrite
    /\ waiting' = waiting \ {p}
    /\ active' = [active EXCEPT ![u] = job[p].object]
    /\ Goto(p, "scan end")
    /\ UNCHANGED <<dir, late, known, readers, writer, statusLock, todo, history>>

-----------------------------------------------------------------------------
(* BaseWorkUnit.Release.                                                   *)
ReleaseLock(p) ==
    LET o == <<job[p].unit, job[p].object>> IN
    /\ job[p].at = "release"
    /\ statusLock[o] = Free
    /\ statusLock' = [statusLock EXCEPT ![o] = p]
    /\ Goto(p, "remove")
    /\ UNCHANGED <<store, lock, todo, history>>

(* Faulty variant: an error leaves the status lock held.                   *)
RemoveFailsLocked(p) ==
    /\ job[p].at = "remove"
    /\ dir[job[p].unit] # "none"
    /\ Goto(p, "idle")
    /\ UNCHANGED <<store, lock, statusLock, todo, history>>

(* Faulty variant: the unit is deleted although its directory is there.    *)
RemoveFailsForgets(p) ==
    /\ job[p].at = "remove"
    /\ dir[job[p].unit] # "none"
    /\ waiting' = waiting \cup {p}
    /\ Goto(p, "forget")
    /\ UNCHANGED <<store, readers, writer, statusLock, todo, history>>

(* Removing the directory fails in every attempt, or works.                *)
RemoveFails(p) ==
    /\ job[p].at = "remove"
    /\ dir[job[p].unit] # "none"
    /\ IF job[p].cmd = "force-release"
       THEN /\ waiting' = waiting \cup {p}
            /\ left' = [left EXCEPT ![job[p].unit] = TRUE]
            /\ Goto(p, "forget")
            /\ UNCHANGED statusLock
       ELSE /\ statusLock' = [statusLock EXCEPT ![<<job[p].unit, job[p].object>>] = Free]
            /\ Goto(p, "idle")
            /\ UNCHANGED <<waiting, left>>
    /\ UNCHANGED <<store, readers, writer, todo, mine, stale>>

Remove(p) ==
    LET u == job[p].unit IN
    /\ job[p].at = "remove"
    /\ dir' = [dir EXCEPT ![u] = "none"]
    /\ left' = [left EXCEPT ![u] = FALSE]
    /\ mine' = [c \in Clients |-> mine[c] \ {u}]
    /\ waiting' = waiting \cup {p}
    /\ Goto(p, "forget")
    /\ UNCHANGED <<late, active, known, readers, writer, statusLock, todo, stale>>

Forget(p) ==
    LET u == job[p].unit IN
    /\ job[p].at = "forget"
    /\ CanWrite
    /\ waiting' = waiting \ {p}
    /\ active' = [active EXCEPT ![u] = "none"]
    /\ left' = [left EXCEPT ![u] = @ \/ (p \in stale /\ dir[u] = "saved")]
    /\ statusLock' = [statusLock EXCEPT ![<<u, job[p].object>>] = Free]
    /\ Goto(p, "idle")
    /\ UNCHANGED <<dir, late, known, readers, writer, todo, mine, stale>>

-----------------------------------------------------------------------------
(* RegisterWorker for the late work type.                                  *)
Register ==
    /\ job[Registrar].at = "idle"
    /\ ~known
    /\ known' = TRUE
    /\ waiting' = waiting \cup {Registrar}
    /\ Goto(Registrar, "register")
    /\ UNCHANGED <<dir, late, active, readers, writer, statusLock, todo, history>>

RegisterLock ==
    /\ job[Registrar].at = "register"
    /\ CanWrite
    /\ writer' = Registrar
    /\ waiting' = waiting \ {Registrar}
    /\ todo' = {u \in Units : active[u] = "unknown"}
    /\ Goto(Registrar, "unknown units")
    /\ UNCHANGED <<store, readers, statusLock, history>>

(* The Status of each unknown unit is read with the lock held.             *)
DropUnknown(u) ==
    /\ job[Registrar].at = "unknown units"
    /\ u \in todo
    /\ statusLock[<<u, "unknown">>] = Free
    /\ todo' = todo \ {u}
    /\ active' = [active EXCEPT ![u] = "none"]
    /\ UNCHANGED <<dir, late, known, lock, statusLock, job, history>>

RegisterUnlock ==
    /\ job[Registrar].at = "unknown units"
    /\ todo = {}
    /\ writer' = Free
    /\ todo' = {u \in Units : dir[u] # "none"}     \* os.ReadDir
    /\ Goto(Registrar, "register scan")
    /\ UNCHANGED <<store, readers, waiting, statusLock, history>>

(* scanForUnits.                                                           *)
RegisterScan ==
    /\ job[Registrar].at = "register scan"
    /\ IF todo = {}
       THEN Goto(Registrar, "idle") /\ UNCHANGED todo
       ELSE \E u \in todo :
                /\ todo' = todo \ {u}
                /\ job' = [job EXCEPT ![Registrar].at = "scan", ![Registrar].unit = u]
    /\ UNCHANGED <<store, lock, statusLock, history>>

-----------------------------------------------------------------------------
Command(p) == \E u \in Units : Submit(p, u) \/ \E c \in Commands : Find(p, u, c)

Scan(p) == ScanNoDir(p) \/ ScanCheck(p) \/ ScanChecked(p) \/ ScanEnd(p) \/ ScanLoad(p) \/ ScanInsert(p)

Proceed(p) ==
    \/ AllocateLock(p) \/ GenerateUnitID(p) \/ Save(p)
    \/ Found(p) \/ Use(p) \/ Scan(p)
    \/ ReleaseLock(p) \/ Remove(p) \/ RemoveFails(p) \/ Forget(p)

Registering ==
    \/ RegisterLock \/ RegisterUnlock \/ RegisterScan \/ Scan(Registrar)
    \/ \E u \in Units : DropUnknown(u)

Next ==
    \/ \E p \in Clients : Command(p) \/ Proceed(p)
    \/ Register \/ Registering

(* Whoever can go on does.                                                 *)
Spec == Init /\ [][Next]_vars /\ WF_vars(Registering) /\ \A p \in Clients : WF_vars(Proceed(p))

-----------------------------------------------------------------------------
(* activeUnits is written by one process at a time, and while nobody reads *)
(* it; the other variables have their types.                               *)
TypeOK ==
    /\ dir \in [Units -> {"none", "empty", "saved"}]
    /\ active \in [Units -> {"none", "worker", "unknown"}]
    /\ late \in [Units -> BOOLEAN] /\ known \in BOOLEAN
    /\ readers \in [Processes -> 0 .. 2]
    /\ writer \in Processes \cup {Free}
    /\ waiting \subseteq Processes
    /\ statusLock \in [Units \X {"worker", "unknown"} -> Processes \cup {Free}]
    /\ job \in [Processes -> Jobs]
    /\ todo \subseteq Units
    /\ writer # Free => \A p \in Processes : readers[p] = 0

(* A unit ID is given to one submitter at a time, however many ask for it  *)
(* (AllocateUnit holds activeUnitsLock from the check to the entry).       *)
OneUnitPerID ==
    \A p, q \in Clients : p # q => mine[p] \cap mine[q] = {}

(* A unit with a status file is in activeUnits, unless its work type is    *)
(* just being registered, a forced release could not remove the files, or  *)
(* a release was for an earlier unit of that ID.                           *)
SavedIsActive ==
    \A u \in Units : dir[u] = "saved" /\ active[u] = "none" =>
        job[Registrar].at # "idle" \/ left[u]

(* The ways for processes to block each other for ever: a scan by findUnit *)
(* wants a lock whose read side it holds, for reading while a writer waits *)
(* or for writing; an ID without a directory that is still active is asked *)
(* for; RegisterWorker and Release take two locks in opposite order.       *)
Jam ==
    \/ \E p \in Clients : readers[p] > 0 /\ (job[p].at = "insert" \/ (job[p].at = "scan" /\ waiting # {}))
    \/ \E p \in Clients : job[p].at = "allocate" /\ dir[job[p].unit] = "none" /\ active[job[p].unit] # "none"
    \/ \E p \in Clients : job[p].at \in {"remove", "forget"} /\ job[p].object = "unknown"
                          /\ job[Registrar].at = "unknown units"

(* What a process waits for where it is, if it waits, is to be had.        *)
Ready(p) ==
    LET j == job[p] IN
    /\ j.at # "idle"
    /\ j.at \in {"submit", "insert", "forget", "register"} => CanWrite
    /\ j.at = "scan" => dir[j.unit] = "none" \/ CanRead
    /\ j.at = "allocate" => dir[j.unit] # "none" \/ active[j.unit] = "none"
    /\ j.at \in {"use", "release"} => statusLock[<<j.unit, j.object>>] = Free
    /\ j.at = "unknown units" => todo = {} \/ \E u \in todo : statusLock[<<u, "unknown">>] = Free

(* Processes that all wait for each other are in such a jam: nothing else  *)
(* can make findUnit, AllocateUnit, Release and RegisterWorker wait for    *)
(* ever.                                                                   *)
OnlyJamsBlock ==
    (\E p \in Processes : job[p].at # "idle") => Jam \/ \E p \in Processes : Ready(p)

(* Whoever has what it waits for does go on: generateUnitID, findUnit,     *)
(* scanForUnit and Release leave no case without a way out.                *)
ReadyGoesOn ==
    /\ \A p \in Clients : Ready(p) => ENABLED Proceed(p)
    /\ Ready(Registrar) => ENABLED Registering

(* "if not in active units, rescan work unit dir and recheck": a lookup    *)
(* comes back.                                                             *)
LookupReturns == \A p \in Clients : job[p].at = "scan" ~> readers[p] = 0
=============================================================================
