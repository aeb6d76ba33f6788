# A TLA+ verification of receptor

Receptor is an overlay network ("netceptor") that connects nodes over TCP, UDP
or websocket sessions, routes datagrams between them, carries QUIC streams on
top, and runs work units ("workceptor") locally, as commands or pods, and
remotely on other nodes. This directory models the parts of it whose
correctness depends on interleavings, failures and ordering, checks them with
TLC on small instances and proves the main properties with TLAPS for every
instance. All paths below are relative to the repository.

## 1. Inventory

| Component | State | Operations | Interacts with |
|---|---|---|---|
| Sessions (`pkg/netceptor/netceptor.go` runProtocol) | `connections`, own row of `knownConnectionCosts`, per session `established`, `remoteEstablished`, `remoteNodeID`, a context | start, first update, accept or reject, establish, tear down, idle timeout, clean-up | backends hand sessions over; routing, data messages and advertisements are handled in its loop |
| Link-state routing (makeRoutingUpdate, sendRoutingUpdate, handleRoutingUpdate, flood) | `epoch`, `sequence`, `knownNodeInfo`, `knownConnectionCosts`, `seenUpdates` | make and flood an update, apply and pass on, ignore, detect a duplicate name | tick runners call it, sessions deliver to it, asks for a new routing table |
| Routing table (updateRoutingTable) | `routingTable`, `routingPathCosts` | recompute, look up | read by forwarding, published through a broker |
| Data messages (handleMessageData, forwardMessage, reserved services) | `listenerRegistry`, `firewallRules`, messages in the mesh | send, forward, deliver, answer a ping, report an unreachable destination | routing table, sessions, listeners |
| Datagram connections (`packetconn.go`) | `recvChan`, deadlines, subscriptions to notices | listen, read, write, close, subscribe | data messages, brokers |
| Stream connections (`conn.go`) | ephemeral service, contexts, done channels, QUIC connection and stream | dial, listen, accept, close, notice an unreachable peer | datagram connections, brokers |
| Service advertisements | `serviceAdsReceived`, advertised listeners | advertise, repeat, cancel, flood | listeners, sessions, tick runner |
| Backends (`pkg/backends`, `external_backend.go`, AddBackend, CancelBackends) | contexts, sockets, the UDP session registry, `backendWaitGroup`, redial timers | dial, redial, listen, accept, hand over, cancel | sessions, reload |
| Framer (`pkg/framer`) | the bytes not yet taken out | frame, receive a piece, take out a message | TCP and external backends |
| Broker, tick runner, bridge (`pkg/utils`, `pkg/tickrunner`) | subscribers, next run time, two connections | publish, subscribe; run; copy both ways | everything above |
| Job context (`pkg/utils/job_context.go`) | context, WaitGroup, running flag | NewJob, WorkerDone, Wait, Cancel | remote work |
| Work unit registry (`pkg/workceptor/workceptor.go`) | `activeUnits`, `workTypes`, unit directories and two kinds of locks | allocate, scan, find, register a type, release, results | control service, work units |
| Work unit status (`workunitbase.go`, `stdio_utils.go`) | status file and its copy in memory, stdin and stdout files | load, save, update, monitor | the detached command runner shares the file |
| Command work (`command.go`), Python work | process, status | start, restart, cancel, release | status file |
| Kubernetes work (`kubernetes.go`) | pod, position in the log, the errors of stdin and stdout, context | start, restart, create the pod, send stdin, follow the log, tcp method, cancel, release | status file, cluster |
| Remote work (`remote_work.go`) | remote unit ID, local and remote status, a job context | start, restart, monitor, cancel, release, expire | control service of another node |
| Control service (`pkg/controlsvc`) | command sessions, `cfgNotReloadable` | status, ping, traceroute, connect, work, reload | all of the above |
| Proxy services (`pkg/services`) | maps from addresses to connections, known and kernel routes | accept and bridge (TCP, Unix, command), pass datagrams (UDP), route packets (IP router) | stream and datagram connections, advertisements |
| Firewall rules, TLS, certificates, command line, logging, receptorctl | configuration, I/O | | |

What is hard here: every session has a reader, a writer, a greeting and a
protocol goroutine, and the tables they share are keyed by the *name* of the
peer; locks are given up and taken again within one decision; routing updates
are made under a lock and sent by goroutines that overtake each other; nodes
compute their routing tables independently; nodes restart; work units are
driven from control connections, timers, monitors and a detached process at
once; brokers and listeners hand messages over through channels without a
buffer; everything that is opened for a dial or a reload has to be undone
wherever it fails; and receptor itself may die between any two of its steps.

What makes the components correct:

* a session that fails at any point leaves nothing that keeps its peer out, and
  every session is established or over in the end;
* once connections stop changing, all nodes come to know all connections;
  nobody believes news that its subject did not send;
* the routing table is the table of shortest paths, and its computation ends;
* a message travels no further than its hops, does not multiply, and its sender
  hears of it at most once;
* jobs on one job context do not overlap, and a cancelled one ends;
* the status of a command unit tells the truth: no mixture of two processes'
  updates makes a success of a failure, a cancelled unit stays cancelled, the
  pid is not lost, and a dead worker does not read Running for ever;
* a remote unit is started at most once whatever is retried, success is not
  invented, its files are not removed here while they are there, its result and
  output arrive, and a cancelled job ends;
* a Kubernetes unit's stdout file is its pod's log, through reconnections and
  restarts; it gets its payload, success is true, a cancelled unit does not become
  successful, and the unit ends when its pod does;
* a unit ID belongs to one unit, directories and `activeUnits` agree, and
  commands on units do not block each other;
* a client of `work results` gets all of the output once and in order, and its
  session ends;
* after the flood of an advertisement everyone has the latest one;
* a reload starts the new backends when the old ones are gone, it does not hang,
  and a backend that redials does so;
* a dial that fails leaves nothing behind, everything a listener accepted is
  closed with it, and a bridge carries both directions and ends;
* a datagram proxy does not mix up its clients; the IP router's kernel routes
  follow the mesh.

## 2. Modules

| Module | Code | Run | Proofs |
|---|---|---|---|
| `RoutingTable`, `MCRoutingTable` | updateRoutingTable, PathCost | `routing_table` | `RoutingTableProofs` |
| `Routing`, `MCRouting` | greetings, updates, flooding, tear-down, restart across nodes | `routing` | `RoutingProofs` |
| `Forwarding` | data messages, ping, notices | `mesh` | `MeshProofs` |
| `Session` | runProtocol and its helpers at one node | `mesh`, `session_replacement` | `MeshProofs` |
| `ServiceAds` | advertisements, their repetition, cancellation and flooding | `mesh` | `MeshProofs` |
| `Notices` | `broker.go`, StartUnreachable and SubscribeUnreachable of `packetconn.go` | `mesh` | |
| `Backends` | AddBackend, CancelBackends, `pkg/backends`, `reload.go` | `services` | `ServicesProofs` |
| `Link` | protoWriter, protoReader and the sessions of `tcp.go`, `udp.go`, `websockets.go` | `services` | `ServicesProofs` |
| `Framing` | `framer.go` as TCP sessions and the external backend use it | `services` | `ServicesProofs` |
| `Streams` | `conn.go` | `services` | `ServicesProofs` |
| `Proxy` | `tcp_proxy.go`, `unix_proxy.go`, `command.go` (services), `connect.go`, `bridge.go` | `services` | `ServicesProofs` |
| `DatagramProxy` | `udp_proxy.go` | `services` | `ServicesProofs` |
| `IPRouter` | `ip_router.go` | `services` | |
| `JobContext` | `pkg/utils/job_context.go` | `control`, `job_context_new_job` | `ControlProofs` |
| `UnitRegistry` | `activeUnits` and its locks, unit directories, Release, work commands | `control`, `unit_registry_lookup` | `ControlProofs` |
| `ControlSession` | RunControlSession, GetResults, WriteToConn | `control` | `ControlProofs` |
| `CommandWork` | `command.go` and the status file of `workunitbase.go` | `control` | `CommandWorkProofs` |
| `RemoteWork` | `remote_work.go`, submit and adopt of `pkg/workceptor/controlsvc.go` | `remote_work`, `remote_work_files` | `RemoteWorkProofs` |
| `Kubernetes` | `kubernetes.go`, `stdio_utils.go` | `kubernetes`, `kubernetes_input` | `KubernetesProofs` |
| `Relay` | abstract: what a component that carries a stream promises | | |
| `MCMesh`, `MCServices`, `MCControl` | compositions for TLC | `mesh`, `services`, `control` | |

The modules fit together by what each leaves open. `Backends` hands sessions to
the protocol and sees only that they end, `Link` carries their messages;
`Session` looks at one node and lets an established session end at any time;
`Routing` takes connections as established or not, and says what nodes then
know; `RoutingTable` takes what a node knows as any graph; `Forwarding` takes
the routing tables as arbitrary, so what it shows holds for stale and
contradictory tables too; `Notices` takes a notice where `Forwarding` publishes
it. `Proxy` uses a stream connection of which `Streams` shows that it can be
made and is released. `RemoteWork` takes from `JobContext` that jobs do not
overlap, and shows of its workers what `JobContext` assumes: that a cancelled
one stops; for the other node it uses what `UnitRegistry` and `ControlSession`
do with its commands.

**Abstraction and refinement.** `Relay` is the promise of everything that
carries a stream: what came out is a prefix of what went in, only grows, and is
never ahead. Five modules are shown to implement it, each with its own mapping
(`INSTANCE Relay WITH source <- ..., sink <- ...`): `Kubernetes` (log lines to
the stdout file), `ControlSession` (stdout to the client), `Link` (messages
through a session and its goroutines), `Framing` (messages over bytes cut into
pieces) and `Proxy` (each direction of a bridge).

**Side by side.** `MCMesh`, `MCServices` and `MCControl` put modules that share
no variables beside each other. The variable `part`, chosen in the initial state,
says which of them a behaviour belongs to; the others keep their initial state.
This is sound because the modules meet only in what each treats as arbitrary,
and it keeps the product of their states out of the runs. Properties are those of
the parts.

**JobContext.** A job is named by the number of NewJob calls that had succeeded,
so the three fields that NewJob replaces under the lock are "those of job
`cur`". Sections under RunningLock are steps; reads of `mw.Wg` and
`mw.JcCancel` outside it are steps of their own that see whatever is current.

**RoutingTable.** One step per turn of each loop. The queue keeps the priority
an element was first inserted with, which is what the library does with an
Insert of a present element; hence nodes are popped out of order and again. A
missing key of `cost` reads 0, as in Go. The result is compared with the ways in
`Walks`, sequences of nodes with the length so far. `WalksAssumption` asks of that
constant only that no way without repetition is missing; all sequences of nodes
and lengths satisfy it, and so does the finite set of the run, which TLC checks.

**Forwarding.** A message is in the hands of the node that handles it next. The
next hop is any other node, the firewall does anything, the listener may close.
`id`, `travelled`, `budget` and `about` are bookkeeping. Links are taken not to
duplicate messages (UDP could).

**Session.** `pc` follows runProtocol through its selects and critical
sections; `conns` and `ownRow` are the two tables; the context, the greeting
goroutine and the idle monitor are separate actors.

**Routing.** Updates are `[node, stamp, conns]`; making one and flooding it are
two steps; the messages under way are a set, since one goroutine per connection
and update makes the order arbitrary, except that greetings come before
everything else on their link. Costs, `seenUpdates` (which never changes the
outcome of the test that follows it) and duplicate node names are left out. The
ghosts `made` and `settled` state the properties. A node reaches another one if
it is in every set with the first that no connection leaves.

**CommandWork.** One unit, the server's threads that touch it (submission,
reaper, monitor, a caller of Cancel or Release) and the detached runner with
its command. `file` is the status file, `mem` and `rmem` are the copies of the
server and the runner. An update under the lock file is one step; a crash of the
server or of the host may fall between its truncation and its write and leave
the file `empty`. After a crash the server is started again: scanForUnit and
Restart are the actions Load, LoadUnknown, LoadFails and Recover. Of a status
the state, the pid and whether the type is known are kept. Reuse of process
numbers is left out, and so are failures of the file system other than a unit
directory that is gone. `torn`, `recorded` and `stuck` are bookkeeping.

**RemoteWork.** One unit and the unit it stands for on another node. `job`, `at`,
`live` and `sync` are topJC and its only worker: connecting, the exchange of
StartRemoteUnit or cancelOrReleaseRemoteUnit message by message, monitoring or
removal. `sync` is whose call still waits for the first attempt, because only
that call hears of an error. `smon`, `omon` and `sub` are the two monitors and
their own job context. Around them are the control session, the timer of
setExpiration, and callers that follow cancelOrRelease through Cancel, Wait and
NewJob, with the unlocked read of the WaitGroup. A connection may break at any
point of an exchange; a failed poll is no step. The remote unit is external:
what the same program does there with submit, status, results, cancel and
release, and somebody else may release it. A poll and the update that saves it
are one step. A monitor may also meet an error that it does not try again and give
up. `starts`, `success`, `early`, `forced` and `gaveUp` are bookkeeping.

**Kubernetes.** The main goroutine, the one that sends stdin, the one that
copies the log, the listener of the tcp method and a caller of Cancel or Release;
the cluster is external. The payload is the state of its reader: open, at its end
or failed, and whether a failed attempt has taken a part of it (`lost`). The
log is a sequence of lines with distinct timestamps; a log that is reopened
starts at the time of the last line, which is sent again, and ProcessLogLine
decides what is skipped. IsCompatibleK8S, ShouldUseReconnect, SetFromParams and
the retry count are operators over small versions and parameters. A loop that
only retries an API call is one step that succeeds or gives up. `exited`, `cut`,
`lost`, `logFailed` and `cancelled` are bookkeeping.

**UnitRegistry.** Clients and a work type that is registered late. The lock of
`activeUnits` is Go's RWMutex: a waiting writer keeps new readers out, which is
what makes nested read locks dangerous. Directories are `none`, made or saved;
removal may fail and leave files. `Jam` names the ways in which the code can
block for ever.

**ControlSession.** One client: the set-up of its connection, greeting, one line
at a time, the commands by their kind, and for `work results` the goroutines of
GetResults with the file, the status and the check for a file that was removed.

**Backends.** For each backend its own goroutine (dialer, TCP listener, UDP
reader, websocket server or external) and the loop of AddBackend, joined by a
channel without buffer; the wait group counts both. Reload checks the
non-reloadable items, cancels, waits and starts the new configuration, and any of
its steps may fail.

**Link.** One direction of a session for each kind of backend: WriteChan,
protoWriter, the wire (in order or not, lossy or not), recvChannelizer or the UDP
listener's reader, protoReader, and runProtocol at the end of it. Contexts of
session and backend are separate, because a rejected session returns without
cancelling its own.

**ServiceAds.** One service of one node, opened and closed again; the time stamp
and whether it is a cancellation. Messages on their way are a set, since each
connection gets a goroutine of its own.

**Notices.** The broker of a node, one broker and two goroutines per PacketConn,
and the readers, with every hand-over over an unbuffered channel as a rendezvous.

**Streams.** DialContext step by step with its two clean-up goroutines and the
monitor of unreachable notices; the accept loop, the goroutine per connection that
waits a minute for Accept, Close and CloseConnection. QUIC is external.

**Framing.** A byte has `Base` values and the length two bytes, low byte first,
so that messages of three bytes use both.

**Proxy, DatagramProxy, IPRouter.** `Proxy` follows one connection from Accept
through dial to the two halves of the bridge; a mesh connection's Close shuts only
its writing side, that of a TCP or Unix connection both. `DatagramProxy` keeps
every datagram ever sent, so that each may arrive late and again, and tags it with
the client it is for. `IPRouter` has the watcher with updateKnownRoutes and
reconcileRoutingTable, which spares routes that begin in the local network or
fe80::/10 (`Spared`), and the choice of a next node for a packet.

## 3. Runs

| Run | Bounds | Shows |
|---|---|---|
| `routing_table` | 4 nodes, all graphs from the row sets in `MCRoutingTable` (cheap detours of 2 and 3 hops, absent rows, one-sided links) | shortest paths, termination |
| `routing` | triangle, from nothing or established; at most 3 updates in all besides greetings, 2 lives of a node, 2 link changes | what is known was once true and is never ahead of its subject, nobody else changes a node's own row, and convergence; a triangle gives updates two ways, 3 updates are one of each node, or a stale one that two fresh ones overtake |
| `remote_work` | 1 unit, 1 caller with any number of calls, 1 crash, 2 chunks of output | the work is started at most once, success is true, no orphan after an unforced release that knew of the remote unit, complete output, cancelled jobs end and results arrive; 2 chunks allow a stream that breaks in the middle, and callers beside each other are covered by the proofs |
| `kubernetes` | 1 unit, 2 lines of log, 2 retries, 1 crash | the stdout file is relayed from the log, success is that of the container and of an input read to its end, Cancel is not followed by success, everything settles or waits over tcp for a pod that does not connect; 2 lines are one already written and one to come when a stream is cut |
| `mesh` | 3 nodes, 1 call and 3 hops; 2 sessions with 2 peers; a service on a triangle and 4 times; 2 PacketConns | hop budget, one outcome; leftover entries are replaceable and every session settles; a quiet mesh has the last advertisement; messages and notices end. Calls do not interact, so one is enough, and three hops go round a loop. 4 times do not reach an advertisement after a cancellation; the proof covers it |
| `services` | 6 backends of all kinds in 3 configurations, 1 peer, 1 reload; 3 messages through a session with room for 2, and 3 in frames; 1 dial and its listener; 2 pieces each way; 2 UDP clients, 2 services, 3 ports, a stranger; 2 routers with nested networks and one inside the local network, 3 changes | a clean reload that returns, redialling; goroutines of cancelled sessions end; sessions, frames and bridges relay and bridges end; failed dials leave nothing, dials return and listeners release; answers go to the asker; routes follow the mesh |
| `control` | 2 callers and 3 jobs of up to 2 workers; 2 clients, a late work type, 1 unit; 3 requests, 2 chunks; 1 unit of command work, 2 crashes | no overlap of jobs and their end; one unit per ID and saved units known; only the named jams block and whoever has what it waits for can go on; a complete stream is complete, relayed, and the session ends; a command's success is true, its pid survives, Canceled sticks, no dead unit reads Running for ever, Cancel ends the command. 2 crashes are a crash and another one during recovery |
| `job_context_new_job` | 2 callers, 3 calls, 1 worker | **violated**: NewJob can wait for ever on a job it did not cancel |
| `session_replacement` | 2 sessions | **violated**: late clean-up deletes the replacement's entry |
| `remote_work_files` | 1 unit, 1 caller, no crash | **violated**: a release during the start removes the files here and leaves the remote unit running |
| `unit_registry_lookup` | 1 client, 1 unit, a late work type | **violated**: a lookup that rescans waits for ever for a lock it holds |
| `kubernetes_input` | 1 unit, 2 lines of log, 2 retries, 1 crash | **violated**: a stream of the payload that is tried again does not send what the failed attempt had read, and the unit may succeed |

The five violations are what the code does; `PROJECT.json` quotes for each the
line of the repository that says otherwise. `KnowledgeIsTrue` treats the
establishment of a connection as one step; the window inside it is the subject
of `Session`.

Some properties say less than one might wish, because the code does less:

* `Convergence`: applying an update deletes its sender from the rows of nodes it
  does not list, so an old update that arrives late removes a link that exists
  until the other end's next periodic update. All nodes agree once every
  connected node has made an update while nothing older was under way
  (`settled`).
* `QuietIsCurrent` is about a quiet mesh. Nobody remembers a cancellation of a
  service that it does not know, so in a mesh with a cycle one may circulate.
* `OnlyJamsBlock` excepts the three jams of `Jam`: a rescan under the read lock,
  an explicit ID asked for while its unit is being released, and the opposite
  order of locks in RegisterWorker and Release.
* `ControlGoesOn` excepts units that never complete; a cancelled unit is one,
  since IsComplete does not count Canceled.
* `SucceededIsTrue` of `Kubernetes` is about the log with reconnection, and
  excepts a log that could not be opened and a last stream that the API server
  closed early. It says that the payload was read to its end, not that the pod got
  all of it: streamStdinWithRetry tries again with the reader as the failed attempt
  left it, and a unit may succeed without a part of its payload. `lost` records
  that, and `InputArrives`, which is violated, is about it.
* `Settles` of `Kubernetes`: a cancelled unit may end as Running or Pending, and over
  tcp a unit waits for ever, until it is cancelled, for a pod that never connects
  (`kubernetes.go:1454`); nobody looks at the pod meanwhile.
* `RoutesFollow` excepts what reconcileRoutingTable never removes: a kernel route
  whose base address lies in the local network or in fe80::/10 (`ip_router.go:167`)
  stays there after whoever advertised it has gone.
* `OutputComplete` and `JobsFinish`: a monitor of a remote unit that meets an ERROR
  other than an unknown unit, a status that is no JSON, a file it cannot open or a
  signature it cannot make gives up. The unit then keeps its state until receptor
  is started again; both except that (`gaveUp`), but not the end of a cancelled
  job.
* `CancelReturns` claims no end of the protoReader of a websocket or a UDP
  listener's session: it calls Recv again after each timeout without looking at
  its context, and nobody may be left to hand it an error.
* `ReloadIsClean` is about loops and sessions; a TCP listener's socket may still
  be open when CancelBackends returns, and the reload then fails.

Deadlock is checked in `kubernetes`. The other systems may stop: all callers may
be done, the computation is over, all sessions have ended, the bounds on updates
are used up, or, in the compositions, one part is at its end; where that must not
happen a liveness property, or `OnlyJamsBlock`, says so.

### Fairness

* JobContext: goroutines that can run do, and a worker whose context is
  cancelled stops, which the type's comment asks of workers. A worker that is
  not cancelled may run for ever, and nobody has to call.
* RoutingTable: one goroutine runs the function to its end.
* Forwarding: whoever holds a message goes on handling it. This assumes that a
  listener reads or closes; a listener that does neither blocks its connection.
* Session: runProtocol takes the steps it can and the greeting gives up after
  its tries (a counter in the code). Neither the peer nor the link has to do
  anything, and a reader need not notice that its session was closed.
* Notices: brokers and goroutines go on, and a socket that nobody reads any more
  is closed by its owner in the end. A reader need not read.
* CommandWork: threads and processes go on when they can, and a crashed server
  is started again by whatever supervises it. Nobody has to send input or
  cancel, and the command may run for ever.
* RemoteWork: the worker of a cancelled job, the monitors and a timer that has
  fired go on, and the other node can be reached again and again, as the
  endless retry of connections expects. An exchange that is not cancelled need
  not be answered, no monitor has to give up, and nobody has to call.
* Kubernetes: goroutines go on, pods start and end, and the API server does not
  fail for ever: a log that can be read again and again is read (strong
  fairness). Nobody has to cancel, and over tcp the pod need not connect.
* Backends: goroutines run, the protocol ends once its context is done, which
  `Session` shows, and a select that can always see its context done does not
  pass it over for ever. Peers and sockets do as they like.
* Link: every goroutine goes on, and a select whose context is done does not
  choose its other branch for ever. Nobody has to send, close or cancel.
* Streams, Proxy: goroutines, timers and clean-ups go on, and a peer whose
  connection was closed towards it closes its own side.
* IPRouter: the watcher wakes up again and again (its ticker). Reconciliation is
  strongly fair: the kernel may refuse a route, but not every time.
* ControlSession: session and stream go on; a unit that is complete has its
  output written in the end. ServiceAds, Framing, DatagramProxy and UnitRegistry
  have only safety properties in the passing runs.

## 4. Proofs

Each proof module defines inductive invariants (`IInv`, or one with the name of
the part it is about), proves that they hold initially and that every action
preserves them, one step per action, and derives the theorems. All of it holds
for every value of the constants that satisfies the named assumptions; the
bounds of the runs play no part. `MeshProofs`, `ServicesProofs`, `ControlProofs`
and `CommandWorkProofs` extend the compositions, so their theorems are about the
very specifications and properties that the runs check; those of the part that a
composition extends are about that part's own specification.

* `ControlProofs`, from `JobContextAssumption`, `UnitRegistryAssumption` and
  `ControlSessionAssumption`.
  * JobContext: type correctness (`TypeCorrect`), `MutualExclusion`,
    `WaitGroupsExact`, `PriorJobOver`. None is inductive alone. The invariant
    adds that jobs above `cur` are untouched, that jobs below it are over, that
    the reaper of the current job exists exactly while it runs, and that a
    reaper waits on its own job's WaitGroup: this is why the unlocked reads are
    harmless, and it rests on `JcRunning` being reset only by the reaper.
  * UnitRegistry: `RegistrySound`. The invariant `RegIInv` says that whoever
    allocates holds the lock, that a unit which was given to a client is saved
    and is nobody else's, that whoever is about to take a unit out of
    `activeUnits` has removed its directory, was forced to leave it or is late
    for a unit of that ID, and that a saved unit which is not active will still
    be met by the scan of RegisterWorker. The last part is what makes
    `SavedIsActive` true after the registration.
  * UnitRegistry: `NothingElseBlocks`. `LockInv` is an account of the locks: how
    many read locks a process holds, that it waits to write, holds the lock to
    write or a status lock, all told from where it is. If nobody can go on and
    nothing is jammed, then nobody holds the lock to write (its holder would be
    ready, spin on an ID or wait for a status lock, which are jams), hence nobody
    holds it to read, hence it can be had and nobody waits for it, hence no
    status lock is held, and nobody is left.
  * ControlSession: `StreamsComplete` and the refinement `ResultsRelayed`. The
    invariant `SessIInv` says that the place in the file is that of the last
    chunk passed on, or one further while a chunk is on offer.
* `MeshProofs`, from `ForwardingAssumption`, `SessionAssumption` and
  `ServiceAdsAssumption`.
  * Forwarding: `TypeCorrect`, `BoundedTravel`, `NoMultiplication`,
    `AtMostOneOutcome`, `NoticesReachSender`, `ExpiryIsExact`. The invariant
    ties messages in the mesh, outcomes and notices of a call together: as long
    as a message of a call is under way that can still tell the sender
    something, nothing has been told.
  * Session: `EntriesReplaceable`. The invariant adds that an entry is not that
    of a session in the middle of its second removal.
  * ServiceAds: `QuietCurrent`, on any connected mesh. The invariant says that
    whoever is next to a node that has the last advertisement has it or has it
    on its way; connectedness, in the form that no set of nodes is closed under
    links, turns that into everyone once nothing is on its way.
* `RoutingProofs`, from `RoutingAssumption`, for every topology.
  * `TypeCorrect`, `KnowledgeTrue`. The invariant says that everything under way,
    or about to be flooded, has been made by the node it is about, that nothing
    that was ever made is ahead of its node, and that sequence numbers are used
    up only by updates.
  * `Converged`, with `Flooding`. `Flood` says that an update which is made and
    not yet flooded is its node's last one and unknown elsewhere, and that
    whoever passes on a last update has taken it. `Settling` says that, once a
    node is settled, nothing under way tells of other connections than those of
    now; that whoever has its last update has told each peer or is about to; and
    that such a node's row differs from the connections at most by peers that do
    not list it. In a quiet mesh the nodes that have the last update of m are
    then closed under connections, so that everyone who reaches m is one of them,
    and their rows are exact.
* `RoutingTableProofs`, from `RoutingTableAssumption` (positive costs below the
  maximum) and, for the last theorem, `WalksAssumption`.
  * `TypeCorrect`, `Settled`, `HopsAreNeighbours`, `WalkTerminates`. The invariant
    says that an edge out of a node that is not queued never improves a cost, and
    that a node costs at least what its predecessor and the edge make. It does
    not mention priorities, which is why stale ones do no harm.
  * `TableIsShortest`, with `WayBack`: a node has a predecessor exactly if its
    cost is finite, the walk back and every entry of the table lie on the chain of
    predecessors of their destination, and the entries are there for the
    destinations done. That no way is shorter than the costs is an induction over
    the steps of a way, that prev leads to a way of just that length one over
    costs; both are done with the least number in a set (`LeastOf`, from the
    library's theorem on minimal elements), since the induction theorems
    themselves are out of the provers' reach.
* `ServicesProofs`, from the assumptions of its parts: backends of different
  kinds are different and finitely many (`BackendsAssumption`), messages are
  bytes whose number fits the length field (`FramingAssumption`), addresses of
  different kinds differ (`DatagramAssumption`), and bounds are numbers.
  * `ReloadClean`: the invariant is that `backendWaitGroup` counts exactly the
    goroutines at work, so that zero means none is left.
  * `FailedDialClean`: where a dial is tells who still closes its connection.
  * `AnswersGoHome`: the maps of both halves are injective, and a datagram
    between two of their addresses is for the client the address stands for.
  * The refinements `BridgeIsRelay`, `LinkIsRelay`, `FramingIsRelay` and their
    conjunction `StreamsRelayed`. What is under way, in goroutines, buffers,
    channels and the network, put behind what has come out, is what went in; for
    `Framing` what is under way are bytes, and the invariant says of them that
    they are the encoding of the messages that have not come out, from the
    point on where the receiver stands.
* `CommandWorkProofs`, for any number of crashes:
  `TypeCorrect`, `TrueSuccess`, `PidKept`, `CanceledForGood`,
  `CurrentAfterReaper`. The invariant extends each claim about the file to the
  copies in memory, since after a torn write a copy becomes the file again. It
  adds that the pid is nowhere before it was recorded, that the file is empty
  only after a torn write, that Cancel on a child writes after the runner's
  exit, and that a reaper exists only once the submission is finished.
* `RemoteWorkProofs`, from `RemoteWorkAssumption`: `TypeCorrect`, `StartedOnce`,
  `TrueSuccess`, `ReleasedInOrder` and the action property `AllOutput`, for any
  number of callers and crashes and any amount of output. The invariant says
  that there is no remote unit before the only submission (which is why it
  cannot be sent twice), that jobs other than the submission and the calls that
  wait for one exist only for work that has started, that a success known here
  comes with the size of the whole output, and that whoever removes the files
  has a reason to: a remote unit that is gone, a forced or an early release.
* `KubernetesProofs`, from `KubernetesAssumption`: `SucceededTrue`, the action
  property `CanceledStays` and the refinement `LogRelayed`, for a log of any
  length, any retry count and any number of crashes. The invariant has three
  parts. `Control` says where the goroutines can be relative to each other, and
  that a pod which was seen running is not started again, so that a unit which
  succeeded cannot find its pod still writing; and that a stdin goroutine which
  ended without its reader at the end has left a state from which Finish does not
  make a success. `Log` says that the file is the
  log up to some line, and that the next line which is not skipped is the one
  after the writer's place: `sinceTime` is the number of lines written, a stream
  starts at or before it, and once a line was written the stream stands there.
  `Result` says what the end of a stream means: without a cut it is the end of
  the log, and a logger that is done without an error has copied all of it.

The theorems about type correctness, and `WaitGroupsExact`, `Settled`,
`NoMultiplication`, `NoticesReachSender`, `ExpiryIsExact` and
`CurrentAfterReaper`, are stated for every instance and are not repeated in the
runs.

Only model-checked: everything under fairness (`CancelledJobEnds`,
`Terminates`, `MessagesEnd`, the two `Settles`, `NotRunningForever`,
`CancelKills`, `JobsFinish`, `CancelReturns`, `Redials`, `StreamsSettle`,
`BridgeReturns`, `RoutesFollow`, `ControlGoesOn`). The last one has a part without
fairness, `ReadyGoesOn`, which uses ENABLED: what `OnlyJamsBlock` calls ready can
move. Every other property that a passing run checks is a theorem.

## 5. Plan

The modelling is complete for the parts listed as modelled in `PROJECT.json`, and
every safety property of the passing runs but `ReadyGoesOn`, a part of
`ControlGoesOn`, is proved. What could follow are the parts of section 6 that have
state: two processes under one node name in `Routing`, and deadlines and full
listeners in datagram connections.

## 6. Not modelled

* Firewall rules: predicates without state made from text; `Forwarding` lets a
  firewall accept, reject or drop anything.
* TLS, certificates, signatures: calls into libraries; a command refused for its
  signature changes nothing.
* Python work: a wrapper that calls command work. Logging, command line, parsing
  of configuration, receptorctl, `status`: text and reads.
* In link-state routing: costs (in `RoutingTable`), two processes under one name,
  and epochs that go back with the clock.
* In datagram connections: deadlines, and the panic of two handlers that close
  one `recvChan`.
* Reuse of process numbers, modification times of files, panics of the process.
