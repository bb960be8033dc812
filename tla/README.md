# A TLA+ verification project for AhdCode

AhdCode is a compiler for the AhdCode language, written in Go: it translates a program to
Go, compiles it to a native executable and runs it, and brings a runtime library (HTTP,
WebSocket, windows, schedules, databases), a development mode that rebuilds on save and a
registry that gives local web projects `.test` names. This project models the parts in which
several actors meet: goroutines, processes, files that two commands share, peers that break off.

Contents: [inventory](#inventory) · [modules](#modules) · [runs](#runs) · [proofs](#proofs) ·
[limits](#limits-and-observations) · [plan](#plan)

## Inventory

Paths are under `cmd/ahdcode/` unless they say otherwise; `runtime/` stands for
`internal/backend/golang/ahdruntime/`.

| Component | State it keeps | Operations | Meets | What makes it correct |
|---|---|---|---|---|
| Dev event loop (`dev.go`) | current child, build flags, waiters, current candidate | run, startBuild, stopDevChild, finishShutdown | build and wait goroutines, control channel, Ctrl-C, through one channel of 8 | never two children or a lost one, no start after a stop, a released stop request finds nothing left, every stop ends, the newest save of the entry is built |
| Source watcher (`devwatch.go`) | snapshots of the tracked files, pending change | run, pollChanges, applyPathSet, setPathsAsync, close | the dev loop (blocking report) and the disk | a save is reported; it never fills the channel for good |
| Dev control and descriptor (`devcontrol.go`, `devfile.go`) | the file `app.dev` | claim, publish, remove, stop, kill | `ahdcode stop`/`kill`, other sessions | a descriptor names a session that answers |
| Route registry (`internal/localdev/routes.go`, `store.go`) | registry file, lock file | Allocate, Release, withLock | all sessions of the user | a granted name is unique and kept; dead owners cost nobody a name; a dead lock holder blocks nobody |
| Local router (`localrouter.go`, `devroute.go`) | listener, table of allowed names | acquireLoop, refresh, lookup, close | registry, all sessions, requests | dead names leave the table; a printed URL keeps working when the serving process ends |
| Run supervisor (`main.go`, `runcontrol.go`, `runfile.go`, `runstop.go`) | child, control listener, `app.run` | runRun, handle, terminateChild, runKill, runStop | the child, commands, Ctrl-C | a published descriptor can be acted on, only the named run is signalled, "stopped" is true, the descriptor goes with the run |
| Run cache (`internal/build/runcache.go`) | directory of executables | lookup, reserve, publish, prune | concurrent runs | a run launches a complete build of its own program; the directory stays bounded |
| WebSocket server (`runtime/websocket.go`, `websocket_conn.go`) | sockets, slots, two channels per socket | reserve, serve, read loop, writer, send, close | peer, HTTP handlers and callbacks under one mutex | the limit is exact, order is kept, queued text precedes a close, both ends hear one code unless the library wrote the frame by itself, every close completes |
| Window helper link and GUI loop (`runtime/helperlink.go`, `gui.go`) | pipe to the helper, pending answer, event queue | call, read, push, wait, shutdown | helper process, user, timeouts | answers reach their requests, no gap in the events, `wait` and shutdown end |
| Cron scheduler (`runtime/cron.go`) | jobs with their next occurrence | add, run, stop | an adjustable wall clock, the tasks | no occurrence twice, none queued up, stop ends the run |
| Cron schedules (`runtime/cron.go`) | – | parse, next | zones that change their clocks | no occurrence is passed over; a schedule that cannot run is refused |
| HTTP server (`runtime/http.go`) | routes, one mutex, upload records and their temporary files | register, start, ServeHTTP, save, release | handlers of concurrent requests | an upload is saved once and never outlives its request; every request is answered |
| HTTP sessions (`runtime/http.go`) | map of sessions | open, set, remove, clear, rotate, destroy, commit | concurrent requests with one cookie, expiry | an identifier given up stays dead, no update is lost, but for sessions of which a handler had two objects |
| WebSocket client (`runtime/websocket_client.go`) | one connection, reader goroutine | connect, send, receive, close | peer, timeouts, transport | messages in order and without loss, then one end; receive ends |
| SQLite link and helper (`runtime/sqlite.go`, `cmd/ahdsqlite`) | helper process, connections, transactions | open, execute, query, begin, commit, rollback, backup, close | helper that dies, other processes | rows are where the program was told, a backup is whole and overwrites nothing |
| PostgreSQL pool (`runtime/postgresql.go`) | pool, list of transactions, a lock each | begin, commit, rollback, execute, query, close | concurrent callers, server | a statement runs inside its transaction, close ends |
| Studio cache (`internal/studio/materialize.go`) | directory, lock file | Materialize | other processes, crashes | the directory that is answered is whole |
| Module graph (`internal/module/compiler.go`, `require.go`) | modules and their state, call stacks | analyze, expandRequires | – | the verdict is that of the graph: cycles, missing files, one copy of each file |
| MySQL runtime, database registry | a flag per handle; a file | – | database/sql; `withLock` | not modelled: nothing of their own beyond what other modules have |
| Lexer, parser, semantic analysis, lowering, IR, Go backend, evaluator, REPL, formatter, language server | trees and documents | – | sequential | not modelled: they need a semantics of the language, not a state machine |
| Library modules, helpers, packaging, Studio, editor extension | data | – | – | not modelled: conversion, drawing, I/O |

`PROJECT.json` has the full list with a reason for each part that is left out, and the list
of hazards with the source line at which each one bites.

The behaviours that are hard here are: results that arrive after they stopped being wanted (a build
that ends after a stop, an exit notification of a replaced child, an answer after its
timeout); files that are checked and then acted on (`app.dev`, `app.run`, the lock, the run
cache, an upload, a backup's destination); processes that die with something in their hands (the lock file, a port, a
descriptor, a transaction); copies that are written back whole (sessions); channels that are full when
somebody must send; locks that are held while foreign code runs; and a clock that moves.

## Modules

| Module | Models | Extends |
|---|---|---|
| `DevWatcher` | the watcher goroutine, the disk, the event channel | |
| `DevSession` | the dev loop with its goroutines, children and clients | `DevWatcher` |
| `RouteRegistry` | sessions around the registry and its lock file | |
| `LocalRouter` | holders, routers, tables and takeover | |
| `RunControl` | `ahdcode run`, `stop`, `kill` around `app.run` | |
| `RunCache` | concurrent runs over the cache directory | |
| `WebSocketServer` | connections of one endpoint | |
| `MessageStream` | *abstract*: what `receive` promises | |
| `WebSocketClient` | one connection of the client; implements `MessageStream` | |
| `HttpServer` | dispatcher, uploads, registration of routes | |
| `HttpSessions` | session store and handlers | |
| `CallLink` | *abstract*: one request at a time, each settled by its own answer or by the end | |
| `HelperLink` | window link, event queue and GUI wait loop; implements `CallLink` | |
| `SqliteSession` | SQLite link and helper; implements `CallLink` | |
| `PostgresPool` | pool, transactions and their end | |
| `StudioCache` | processes that unpack the Studio | |
| `CronScheduler` | jobs, passes, stop, the clock | |
| `CronCalendar` | schedules and the search for the next occurrence | |
| `ModuleGraph` | bring and require | |
| `DevSessionProofs` | theorems | `DevSession` |
| `RouteRegistryProofs` | theorems | `RouteRegistry` |
| `RunControlProofs` | theorems | `RunControl`, `LocalRouter` |
| `WebProofs` | theorems | `WebSocketServer`, `WebSocketClient`, `HttpServer`, `NumberedLines` |
| `LinkProofs` | theorems | `HelperLink`, `SqliteSession`, `NumberedLines` |
| `RuntimeProofs` | theorems | `CronScheduler`, `CronCalendar`, `PostgresPool`, `HttpSessions` |
| `CompilerProofs` | theorems | `ModuleGraph`, `RunCache`, `StudioCache` |
| `NumberedLines` | lemmas on sequences of numbered records, shared by two links | |

Components that share nothing are checked side by side by one TLC run: `MCWeb`, `MCCommands`, `MCDev`,
`MCLinks`, `MCRuntime` and `MCSafety` extend several modules, one variable (`part`, `scene`,
`library`, `kind`) says at the start which of them the behaviour is one of, and the variables of the
others stay as they began. Fairness is that of the part (`ControlFairness` in `MCLinks` and `SessionFairness` in `MCDev` are
the fairness of `RunControl` and `DevSession`, asked for only where that component is looked at).

The other `MC*` modules only give the constants of a run their values. The mutants
(`\* Mutant: …` definitions) are plausible bugs; each property is violated when its
mutant takes the place of the definition after it.

**DevSession, DevWatcher.** Each variable is a field of `devController` or `devWatcher`, or a fact of the
operating system (`procs`, `binaries`, `descriptor`, `disk`). `ctl` says where the event loop
is: `loop` is its `select`; `restarting` and `stopping` are the wait in `stopDevChild`;
`launching` and `launched` are the steps between starting a child and the end of the handler.
One action per event handler; a handler that waits for a child is split at the wait. The
compiler reads one file per step, so saves fall between its reads. A file is its version; a
candidate is its build number; a child is its generation. `ClientFindsNobody` is the control
client whose deadline passed or whose connection was refused. Writing the descriptor and the
candidate succeeds.

**RouteRegistry.** Every session wants the same name; a name is its suffix. `at` is the place
in `withLock` and the closure under it: try, stat, break are three steps, and so are the
liveness tests, one route at a time. Crashes happen anywhere. `mishap` is a ghost that
becomes true when the code's own windows let one session harm another: two starts on one
source that claim it together, `ahdcode stop` giving up on a session that is still ending,
and a waiter that removes the lock of a living process. `RouteKept` is about behaviours in
which none of that happened; `registry_stale` shows what the third one leads to. A lock
only grows old when its owner is dead, since nothing holds it for 30 s. `Prune` has no caller
and Studio's fixed route is not modelled.

**LocalRouter.** A session stands for its name. `refresh` runs as the ticker's goroutine and
as one request goroutine per router, each with its own snapshot, asking one owner per step.
The run has one bindable port, which is what an unprivileged user has on Unix. The age of
a table is not modelled: a request may refresh at any time.

**RunControl.** A run is its token. Ports are reused, so that a stale descriptor may lead to a
supervisor that is somebody else's. `rpc` follows `runRun` and its deferred calls, `cpc` a command, `runFile` is `app.run`, `runChild` the application and
`accepts` whether a control listener answers.
The read and the removal of "our own" descriptor are two steps in each of the places that do
it. Left out: resolving a bare program name and the wire format.

**RunCache.** `dir` maps the names in the directory to what the files hold, `recent` is their order of last use. The key digest is injective,
the byte limit and the count limit are one limit on the number of files, the removals of one
prune are one step. A process killed in the middle of a build is not modelled.

**WebSocketServer.** `pc` is the serving goroutine from handshake to `onClose`, `writer` the writer goroutine,
`holder` the one mutex of the server that callbacks and HTTP handlers share. `closeFrame` is the one close frame this
end wrote, whoever wrote it: the writer goroutine in `conn.Close`, the vendored library over a frame that breaks the protocol (1002,
`ReadBadFrame`), or the library's echo of the peer's code (`ReadClose`). A connection sends one close frame and nothing after it
(`MayWrite`). `SameCodeBothEnds` says when `onClose` hears that frame's code and names both cases in which it does not; that they
occur, against the documentation, is what `first_closer` shows.

**WebSocketClient, MessageStream.** The reader goroutine, the program in `send`, `receive` or `close`, the peer and
the transport; the unbuffered channel is a message the reader offers and a receive takes. `MessageStream` counts the
messages sent and received and says how the end was reported. The refinement maps the
offered message to one that is still to be received, which is what a lost message at a timeout would break.

**HttpServer.** A request is a goroutine that looks at the routes, stores its parts, waits for the mutex, runs its
handler, writes and releases. A handler is any program: it may keep an upload, save its own or another's,
raise, or register a route. Static files, headers and cookies are data.

**HttpSessions.** A Session object is a copy of the stored values; commit writes it back whole. A value stands for the visit
that set it, so a lost update is a missing visit. A Session and a Request are references, so a handler may leave them in a
binding of the module (`kept`): the handlers after it then use the objects as their own and open further ones on the kept
request (`Reach`). Nothing in the code ends an object with its request; it is gone only when no binding holds it (`Drop`,
`Forget`). `doubled` marks the identifiers of sessions that a handler opened while it could use another object of
the same session, by a second `open` or because one was kept; the properties are about the others. An object that was kept alone, and is
used and committed by any number of later handlers, is not an exception: it is what the store holds.

**HelperLink.** The program is one goroutine (`pc`), the reader another; `stdout` is the pipe. A request
may time out while its answer is in the pipe. Graphics windows use the same link. Left out:
headless mode, malformed lines, a `wait` nested in a callback.

**SqliteSession, CallLink.** A request passes through `stage` from the call to the decoded answer; the helper's `switch` is an action per
operation, a backup five steps. The helper may die before and after any of them. `execute` and `query` are one operation, since
the helper steps whatever SQL either is given: a statement that reads (`read`), one that has no effect when it fails (`write`), one that
may keep its row although it was answered with an error (`keepingWrite`: `INSERT OR FAIL`, or an `INSERT ... RETURNING` whose result `query`
cannot represent), and `BEGIN`, `COMMIT` and `ROLLBACK`, which do what the methods do. A failure of any of them may make SQLite roll the
transaction back (`FailureRollsBack`). `promised` are the rows the program was told are committed, `doubtful` those of the request whose
answer was lost, `refused` those of a failed statement that may keep them, `abandoned` the Databases whose transaction a failure ended. `CallLink` counts requests and
answers; both links map their own state to it.

**PostgresPool.** `call` says where each caller is, with the lock of its transaction in `holder`; `remote` is what the server thinks of
a transaction. Every request may fail. A query in a transaction asks for a second connection to look up a type's
category with the lock held; the pool has `MaxConns`.

**StudioCache.** Processes between the first check and the rename. `overtaken` is a ghost for a
lock that was taken from a living holder after ten seconds.

**CronCalendar.** `schedule.next`, a round of its loop per step, in a calendar of a few days with short hours and weeks; the zone changes its
clock once, at a full hour, by up to an hour. `time.Date` answers with either instant where its documentation leaves it
open. What a clock shows is a *reading*; `Matches` says which readings the schedule names, and `Occurrences`, the set of all
minutes that show one, is the reference. The calendar is given by the days on which its months begin. The bound on the number of
rounds, which the code calls far above any search's need, is left out.

**ModuleGraph.** The two recursive walks as explicit stacks of calls. The texts of all files, the missing ones and
those with errors are chosen at the start. The reference (`Compiles`) is stated over the graph of all files: the paths of
brings and requires are the least sets closed under an edge (`Paths`, `Required`, `Brought`), a module is sound by itself if what it
requires is there, has no error and is on no cycle, and it compiles if it and all it brings are.
All files are in one directory.

**CronScheduler.** Time is an integer, even instants are minutes, a schedule is the set of its occurrences,
`Horizon` is the end of the calendar search. `clock` may advance by any amount at any time and be set back
`MaxSetBacks` times. How a schedule's occurrences are found is `CronCalendar`.

## Runs

| Run | Instance | What it shows |
|---|---|---|
| `commands` | dev: one file, two saves, Ctrl-C and a forced kill, channel of 2; run: 2 runs, a stop and a forced kill, Ctrl-C, killed supervisors, 2 ports | one child at a time, stops that can be relied on, the candidate of the held child kept, no start after a stop; descriptors that answer and can be acted on, no wrong run signalled, "stopped" is true |
| `dev` | session: entry and a required file, one save, Ctrl-C, channel of 1; routers: 2 sessions, 1 bindable port; fair | every stop request ends the process, the newest save of the entry is built; dead names leave every table and printed URLs keep being served |
| `registry` | 3 sessions, two of them on one source, 2 names, crashes anywhere, fair | a granted name is kept and is nobody else's, suffixes have a living reason, everybody gets an answer although lock holders die |
| `registry_stale` | 3 sessions, 3 names; violation of `NamesDiffer` | two waiters break one stale lock and both get the preferred name |
| `web` | server: 2 connections for 1 slot, queue of 1, 2 messages each way; client: 3 frames, 4 receives; HTTP: 2 requests of up to 2 parts for 1 upload, 3 saves; fair | exact limit, order and completeness before a close, one code at both ends but for the frames of the library, every close completes; `receive` implements `MessageStream` and ends; an upload is saved once and released, every request is answered |
| `first_closer` | 1 connection; violation of `FirstCloserReported` | the library writes close frames of its own: `onClose` hears another code than the peer was sent |
| `late_route` | 2 requests; violation of `RegistrationRaises` | a route registered in a handler waits for the mutex of its own request |
| `runtime` | cron: 2 jobs, 9 instants, the clock set back once; pool: 3 callers, 2 transactions, 2 connections; fair | no occurrence twice while the clock only advances, nothing queued, stop ends the run; statements stay inside their transaction, close comes to an end |
| `cron_twice` | cron as above; violation of `NeverTwice` | a clock set back makes an occurrence run again |
| `links` | window: queue of 2, 4 requests, 4 events; SQLite: 2 databases, 6 requests, 2 rows; supervisors: 2 runs, a forced kill; fair | both links implement `CallLink`; no gap in the events and exit after the last, wait and shutdown end; rows and backups are what the program was told; a supervisor follows its child and leaves no descriptor |
| `failing_statement` | 1 database, 4 requests; violation of `TransactionKept` | a statement that fails takes the whole transaction with it |
| `safety` | cache: 4 runs of 3 programs, room for 2; sessions: 2 visits, 2 objects in use at a time, kept ones included, 2 identifiers; Studio: 3 processes; calendar: 198 schedules, 17 zones, 6 instants; modules: all programs of 3 files with up to 2 statements, 3 conditions of the files | the right, complete program is launched and the directory ends within bounds; dead identifiers stay dead and no update is lost, unless one handler had two objects of a session; the Studio that is answered is whole; the search finds the first occurrence; the compiler's verdict is the graph's |

Each module also states its type invariant (`TypeOK` or `…Types`). The runs do not list them; the proofs start from them.

*Why the bounds are enough.* The faults need few actors: a race for one resource needs two,
the stale lock needs a dead owner and two waiters, a pruned executable needs one more program than the
directory holds. Limits are set so low that they are hit in most behaviours: the code's
channel of 8 is 1 or 2, its 16 cached executables 2, its 999 suffixes 1 or 2, its queues 1 or 2.
An upload limit of 1 is exceeded by the second part; two transactions take both connections of a
pool of 2. A calendar with hours of two minutes still has every kind of jump: within an hour, over the end of an hour, of a
day, of a month and of a short month. Three files have every shape of cycle and diamond up to names.
Bounds that only cut the search (`MaxSaves`, `MaxSends`, `MaxReads`, `MaxCalls`, `MaxEvents`, `MaxParts`, `MaxFrames`,
`MaxReceives`, `MaxTexts`, `MaxOpens`, `MaxRequests`, `MaxWrites`, `MaxObjects`, `MaxIds`,
`MaxSetBacks`, `Horizon`) are named constants in guards of inputs, never of the code's reactions.
`commands` uses the symmetry of the runs, `safety` that of the visits; no liveness run uses symmetry.

*Fairness.* Weak fairness of a goroutine or process that can go on: the Go and operating
system schedulers. Strong fairness only where many compete for something that is handed out
in turn: sends on a full Go channel (blocked senders are served in order), Go's mutexes in
`WebSocketServer` and `PostgresPool`, and the deadline in `withLock`, which is looked at again on every poll. A child that was
sent SIGKILL ends; requests to PostgreSQL end because each has a timeout; a callback, handler or task of the program returns (the code runs it to its end and
has no way to interrupt it). Never assumed: that a user saves or stops, that the program makes another call, that a child heeds SIGTERM,
that a peer or helper answers.

*Refinement.* `KeepsStream` (`WebSocketClient` implements `MessageStream`) and `BothKeepCallLink` (`HelperLink` and
`SqliteSession` implement `CallLink`) are the abstract specifications under a refinement mapping, checked as properties.
Both abstract specifications are short enough to be read as the contract of the component.

*Deadlock.* Every cfg says `CHECK_DEADLOCK FALSE`, because each of these systems really ends: the
session exits, the runs are over, the window is closed. The liveness properties say
that they do not stop earlier.

## Proofs

Every safety property of a passing run is a theorem for all values of the constants; *only model-checked* is what
stands under fairness. `TLAPS` checks each proof to its last leaf; nothing is assumed but the `ASSUME`s of the modules,
which TLC evaluates in the runs: sets that name processes do not contain the value that stands for nobody, limits
are natural numbers (positive where the code's constants are), and the sets over which something is counted
or searched are finite.

| Module | Theorem | Statement |
|---|---|---|
| `DevSessionProofs` | `TypeCorrect` | `Spec => []TypeOK`, the capacity of the event channel included |
| | `OneChildAlways` | a running process is the child the loop holds |
| | `BuildsNeverOverlapAlways` | at most one build is on its way, and `c.building` says whether |
| | `StopMeansGoneAlways` | a released stop request finds no process, descriptor, route or candidate |
| | `NoStartAfterStopAlways` | no child is started once the shutdown has begun |
| | `BinaryKeptAlways` | the candidate of the held child is in `binDir` |
| `RouteRegistryProofs` | `RouteKeptAlways`, `NamesDifferAlways` | without a mishap a name stays its session's, and no two running sessions have one name |
| | `SuffixHasReasonAlways` | without a mishap only running sessions of other sources cost a session its name |
| `RunControlProofs` | `EndpointAnswersAlways` | `app.run` names an endpoint that answers, unless its writer was killed |
| | `StoppedMeansExitedAlways` | "stopped" is said of an application that has exited, unless its supervisor was killed |
| | `PublishedIsStoppableAlways` | a descriptor is published when there is a child to stop |
| | `OnlyAskedSignalsAlways` | a signal goes to the run whose descriptor was read |
| | `RouterTypesAlways` | no two processes listen on one port, and only one that listens serves |
| | `TablesRegisteredAlways`, `DeadNamesStayOut` | a table holds only registered names, and a dead name that was dropped stays out |
| `WebProofs` | `ConnectionLimitAlways`, `LimitNeverExceeded` | `route.active` counts the slots, which are at most `maxConnections` |
| | `ChannelsNeverExceeded` | a socket's queue is within its limit, and `requestClose` never blocks on its channel |
| | `QueuedBeforeCloseAlways` | order is kept, and queued text precedes the program's close |
| | `SameCodeBothEndsAlways` | `onClose` gets the code of the close frame the peer was sent, but for the library's own 1002 and its echo to a peer that overtook the program's close |
| | `KeepsStreamAlways` | *refinement*: the client implements `MessageStream` |
| | `UploadsKeptAlways` | an upload is stored once, its temporary file does not outlive its users |
| `LinkProofs` | `RowsAsToldAlways`, `BackupKeptAlways` | rows are where the program was told whatever SQL it runs, statements that fail included; a backup is whole and overwrites nothing |
| | `EventsInOrderAlways` | window events in order, without gaps, the end after the last |
| | `QueueNeverExceeded` | a window's queue holds at most its limit of events and the closed notice |
| | `WindowImplementsCallLink`, `SqliteImplementsCallLink` | *refinement*: both links implement `CallLink!Safety` |
| `RuntimeProofs` | `OncePerOccurrenceAlways`, `NotQueuedAlways` | no occurrence twice while the clock advances, none queued however it moves |
| | `StatementInsideAlways` | a statement runs inside its transaction |
| | `OccurrencesRightAlways` | the search for the next occurrence returns the first, and a schedule is refused that has none |
| | `FirstOccurrenceAlways` | the answer is the least occurrence, as `CronScheduler` takes it to be, unless the clock is set back |
| | `DeadStaysDeadAlways`, `UpdateKeptAlways` | identifiers given up stay dead and no update is lost, whoever uses objects kept from earlier requests, unless a handler opened a session while it could use another object of it |
| `CompilerProofs` | `CompilationRightAlways`, `GraphTypesAlways` | the compiler's verdict on every module is the graph's |
| | `RightProgramAlways`, `CacheBoundedAlways` | the right, complete executable; a directory within its bound |
| | `StudioKeptAlways` | the Studio that is answered is whole and stays so |

The type theorems of `RunControlProofs` and `RouteRegistryProofs` are called `TypeAlways`.

### The inductive invariants

No property above is inductive by itself. Each invariant is a conjunction of named parts that is preserved action by
action, with one lemma per action or group of actions and a frame lemma for the steps that do not touch it.

**DevSession**: `SessionInv == TypeOK /\ ChildInv /\ BuildsNeverOverlap /\ ShutdownInv`.
`ChildInv`: a stale exit notification would make the loop forget a
running child; it cannot, because a notification in the channel is about a process that has
been reaped (`ExitNotes`), the held child is the newest generation, and the loop launches
only when nothing runs. `BuildsNeverOverlap`: the goroutine is idle whenever a result is
in the channel. `ShutdownInv`: waiters are released only by `finishShutdown`,
by then no child is held and no build is on its way, and a refused configuration, which
ends the session with its child still held, never has a waiter. `CandidateInv` stands on these for `BinaryKept`: the number of a
build on its way is above that of the running candidate, so what a failed build removes is never what
runs, and a good candidate is in `binDir` from its build to its launch.

**RouteRegistry**: `RegistryInv`. Unless a mishap has happened, the lock file excludes (`LockInv`), there is one session per
source and its descriptor names it (`SourceInv`), a name that was told is in the file *and in every copy from which
somebody else may write the file* (`KeptInv`), and nobody has come into the file of the one inside since it
took the lock (`CompanyInv`).

**RunControl**: `ControlInv` follows each run through its deferred calls (`RunInv`) and each command with the
descriptor it holds (`CommandInv`): a token is read from a descriptor that its own run wrote, so a supervisor that has taken
over the port refuses it.

**LocalRouter**: `RouterInv`. A session waits for a port, or has ended, only while it holds none, and only one that holds a port
refreshes its table and serves (`PortHeld`); what a bind finds free nobody holds, which keeps the ports apart (`PortsDiffer`); and the registry, the
refreshes under way and the tables hold only registered names (`NamesKnown`). A dead name stays out because what a refresh
keeps are names whose session answered.

**WebSocketServer**: `SlotInv` needs that a compare-and-swap adds to a value below the limit. `SocketInv` has one close
request decide the code that everything later carries, and a frame of the library end the read loop with the one result
that goes with it (`CodeInv`), and numbers the texts: written and queued ones are together all that
were accepted until a write fails (`TextInv`). That a request in the channel means that the socket is closing (`CodeInv`) is also why the channel has room
for the first request: the second never comes.

**WebSocketClient**: `StreamInv`. The frames in the link are in order and, while the link is up or not drained, complete (`FlowInv`),
hence the frame the reader offers is number `received + 1`, also after any number of receives that timed out, and a close
frame is read after all texts (`EndInv`). The verdict does not change once it was published (`TellInv`).

**HttpServer**: `HttpInv`. A handler holds the mutex, a record lives as long as its request, and a temporary file has
somebody who will still remove it (`TempOwned`), and what is kept or being saved has not been stored (`NotStoredYet`).

**SqliteSession**: `RowsInv` and `BackupInv`. Responses carry no number; what pairs them with requests is that one
request is under way and that a failure is final. The rows in doubt are exactly those of the request that commits (`DoubtInv`),
and the file is the promise and what failed statements kept, with the doubt added at the moment the helper answers, be it with an
error (`FileInv`). What the program counts on in a transaction is pending there unless SQLite has ended it (`CountInv`).

**HelperLink**: `LinkInv`. The numbers of the events in queue and pipe increase, all of the queue's before all of the pipe's,
and cover everything after the last one handled unless the queue overflowed (`OrderInv`); the reader ends
only after a dead helper's last line (`NoticeInv`). `RoomInv` adds that the closed notice is written once, so that only
one line is ever queued beyond the limit.

**CronScheduler**: `CronInv`. The next occurrence of a job is after the instant at which its last task ended (`AfterEnded`), and, while
the clock was not set back, after everything it ran for (`RanBefore`).

**CronCalendar**: `SearchInv` says at every round, and not only at the end, that no occurrence between the instant and the
candidate was passed over (`Passed`). A jump to a midnight leaves out only readings of the day or month to be left (`Advanced`), since the
clock changes at a full hour and midnight is one (`JumpOver`), unless the midnight is shown twice; the step to the end of an
hour ends with the hour for the same reason. That a refusal is right rests on `LongestMonth` being the length of a month that
exists, and on each day, hour and minute of it being a reading (`ReadingMade`).

**PostgresPool**: `PoolInv` says for each caller what it knows at its place in the code (`CallInv`): whoever runs a statement or an end holds the
transaction's lock, only the one who ends it finds it done, and until it is done it is alive at the server (`HandlesLive`).

**RunCache**: `LaunchInv` (a published name holds a complete build of its own program) and `BoundInv`: somebody is about
to prune, or what the prunes under way leave fits the limit.

**HttpSessions**: `SessionsInv`. One handler at a time, and every object there is lies with it or is kept, so it could use it
(`AllInReach`); hence whoever opens a session is seen to have had another object of it, and of sessions that are not `doubled` there is one
object (`CopiesKnown`). That one holds what is stored except what its users took away (`CopyCurrent`), however many requests after its own
it is used in.

**StudioCache**: `StudioInv`. Unless a living holder was overtaken, the lock excludes and nobody inside
changes a Studio that is whole.

**ModuleGraph**: `GraphInv` relates the two stacks of calls to the graph. The frames of `analyze` are a path of brings and those of
`expandRequires` a path of requires (`FrameInv`, `StackInv`), so a file met again on a stack is a cycle and a reported
cycle is one (`FoundInv`). For the converse, that no cycle is missed: each statement of a merged file waits or was dealt with (`DealtInv`),
and while no cycle was reported a file that was left leads to no file on the stack (`AcyclicInv`), which is why a file that was already merged
need not be walked again. `FailInv` and `BringInv` say that a module has failed only for a reason, and that a bring that is done with
compiles.

### What the proofs changed

- `SuffixHasReason` was stated without a condition. It does not follow from the invariant once a living holder's lock has been
  broken: with four sessions one can then be given a suffix that no running session explains. It now excludes mishaps, as `RouteKept` does.
- `Counts` in `SqliteSession` had a `CASE` with overlapping arms, whose value TLA+ leaves open; the
  arms are now exclusive.
- `RunCache` kept one sequence for names, contents and recency; they are separate now, because the two properties need different ones.
- `HttpSessions` ended every object with its request, and the properties excused two objects in one handler. An object that a
  binding of the module keeps lives on. With it the proof needs that every object is within reach of the handler that runs, and the
  exception became the session that is opened while another object of it is in use.
- `SqliteSession` let only `execute` write, and excused any transaction in which a statement had failed. Both operations now run any
  statement, and only the transactions that SQLite itself has ended are excused.
- `WebSocketServer` knew only the close frames of the writer. With those of the library, `onClose` and the peer may hear different codes;
  the property now says in which cases.
- `CallLink` has its safety part as a specification of its own.
- The reference of `ModuleGraph` computed the reachable files by recursion over a bound. It is now the least set closed
  under the edges, which says the same and can be reasoned about without an induction over data.
- The months of `CronCalendar` were sequences of lengths that a fold added up; they are now the days on which they begin. Its refusal was
  stated over instants: with a clock set forward the only reading that matches may be the one that is skipped, so
  `Possible` does not mean that there is an occurrence. It is now stated over readings, which is what `ahdCronParse` decides. And the property
  now says that the answer is strictly after the instant and that the search gives up only when nothing is left.

### Only model-checked

- Everything under fairness: `StopCompletes`, `EntryIsBuilt`, `RegistryAnswers`, `CloseCompletes`, `ReceiveEnds`, `RequestEnds`, `RunEnds`,
  `RouterKeepsUp`, `StopEndsRun`, `PoolCloses`, `WindowEnds`, and the part of `BothKeepCallLink` that says that every
  request is settled. Fairness is out of the prover's reach.

## Limits and observations

Reading the code for the models showed windows that the properties above exclude or do not
speak of. They are in the models (the actions allow them) and are kept here for the next
reader.

- *Refused rebuild.* When a rebuild turns a plain program into a refused Web configuration, the loop
  finishes without `stopDevChild` (`dev.go:283`): the child of the earlier build outlives the session.
- *Required file saved early.* `applyPathSet` takes the baseline of a newly required file after the
  compiler has read it; a save in between is not noticed (`devwatch.go:127`).
- *Exit notification dropped.* With the channel full, the wait goroutine throws the notification away although the loop
  is alive (`dev.go:81`); the loop then holds a child that has ended until the next event.
- *Stop gives up.* The control client waits 8 s; a stop that arrives during a longer build reads as an
  unreachable session, and its descriptor and then its name are taken away although it is still there. `RouteRegistry` has the client that
  gives up (`StopClientGivesUp`); `RouteKept` counts it as a mishap, so nothing here promises a session its name after that.
- *Claims.* `claimDevFile` and `claimRunFile` check long before the descriptor is written, so two starts at
  the same time both pass; the later descriptor replaces the earlier, whose run goes on but can no longer be found.
  A session or run that removes its own descriptor reads the file and then unlinks it by path; a newer one that was published in
  between goes with it. The models have these steps, and the properties do not promise that a descriptor stays: what holds is that one that is there
  can be trusted.
- *Two ports.* Where both router ports can be bound, three sessions can end with a printed `:80` URL
  that nobody serves, because `acquireLoop` ends with the first port it gets.
- *Cron order.* A pass re-reads the clock after each task, so a long task can make a later job's next minute run
  before an earlier job's.
- *Clock changes.* `next` steps to the end of an hour by real minutes and to a midnight by `time.Date`. Where a zone changes its
  clock within an hour (as Newfoundland did at 00:01 until 2011) or shows a midnight twice, an occurrence may be passed
  over. `CronCalendar` assumes full hours and excuses the repeated midnight.
- *Routes in handlers.* Registering a route in a handler locks a mutex that the handler's own request holds: the
  server answers nothing any more (`late_route`).
- *Sessions.* `commit` (`http.go:1541`) stores a whole copy and looks neither whether the identifier is still that of a session nor
  whether the values have changed since `open`. A handler that opens a session while it can use another object of it, because it opened it twice or
  because an earlier handler left one in a binding of the module, can therefore revive an identifier that was rotated or destroyed, and
  overwrite what others committed. For these sessions `docs/HTTP.md:616` and `:630` ("the old id cannot be reused") do not hold, and
  `DeadStaysDead` and `UpdateKept` except them (`doubled`). Committing an anonymous session twice makes two sessions; a handler that
  rotates and then raises loses the values.
- *WebSocket close codes.* The vendored library writes close frames itself: 1002 over most frames that break the protocol, while `onClose` hears
  1006 or the code of a close the program had requested; and the echo of the peer's code, while `onClose` hears 1000 when the program's close was
  requested a moment later. `docs/WEBSOCKET.md:208` says otherwise (`first_closer`).
- *Closed WebSocket client.* A message that the reader held may still be received after the program's own `close`.
- *SQLite statements.* A failing statement may end the whole transaction (`INSERT OR ROLLBACK`, `RAISE(ROLLBACK)`, a full disk), against
  `docs/SQLITE.md:258` (`failing_statement`); and a statement that was answered with an error may have written: `INSERT OR FAIL`, or `INSERT ...
  RETURNING` of a value that `query` cannot represent (`main.go:264`, `:270`). Statements that delete or change rows, savepoints, and pragmas
  that change how the engine commits are not modelled.
- *Window request.* `call` writes the request before it starts the timer (`helperlink.go:225`): should the pipe to a helper that hangs be full, the
  write waits without a limit. In the model the write is one step, so that every request is settled is shown only as far as the pipe takes it.
- *SQLite backup.* Without hard links the last look and the rename are two steps, and a file created in between is
  overwritten. When the temporary name cannot be removed after the link, an error is reported although the backup is there.
- *PostgreSQL.* A query in a transaction may ask for a second connection while it holds the transaction's lock: when all connections
  are in transactions it times out. A commit whose answer is lost may have happened, and the rollback that follows says nothing.
  The MySQL counterpart of `close` does not roll back.
- *Studio lock.* A live holder's lock can be broken after ten seconds, and two waiters of a dead holder can break each
  other's.
- *Run cache.* A file that `lookup` found may be pruned before it is launched; the run then fails and does not
  build again.

Five disagreements between a document or comment and the code are shown by violation runs
(`registry_stale`, `cron_twice`, `late_route`, `first_closer`, `failing_statement`) and quoted under `findings` in `PROJECT.json`.

## Plan

Done: the modules above, and the proofs of the safety properties.

Next:

1. *Composition*: `RouteRegistry` with `LocalRouter`, so that the router reads a registry that
   sessions write under the lock.

## Not modelled

The repository is for the most part a compiler (lexer, parser, type checker, lowering, Go backend, evaluator, formatter, language
server) and a library of conversions, documents, drawings and numerics with its helper processes. Those parts are sequential
functions over data; what makes them correct is the semantics of the language or of a format, which would have to be
written down first, and their states are not small. They are listed with reasons in `PROJECT.json`. Also left out:
MySQL (`database/sql` holds its pool and its transactions), the database registry (the lock of
`RouteRegistry` around one read and one write), packaging, scaffolding and the editor extension.
