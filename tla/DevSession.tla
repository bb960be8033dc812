----------------------------- MODULE DevSession -----------------------------
(***************************************************************************)
(* One `ahdcode dev` session (cmd/ahdcode/dev.go): the event loop of       *)
(* devController.run, the build goroutine it starts, the children it runs  *)
(* with their wait goroutines, the goroutines that ask it to stop (the     *)
(* control channel of devcontrol.go, Ctrl-C), the clients behind them      *)
(* (`ahdcode stop` and `ahdcode kill`), and the watcher of DevWatcher.     *)
(*                                                                         *)
(* Only the event loop writes the controller's state.  Everybody else      *)
(* sends it events through one channel of capacity Cap.                    *)
(***************************************************************************)
EXTENDS DevWatcher

CONSTANTS
    Stoppers,   \* the requests to stop: control connections and Ctrl-C
    CtrlC,      \* the one that is the interrupt signal
    Forced      \* the ones that are `ahdcode kill` (force-stop)

ASSUME SessionAssumption ==
    /\ IsFiniteSet(Stoppers)
    /\ CtrlC \in Stoppers
    /\ Forced \subseteq Stoppers \ {CtrlC}

VARIABLES
    ctl,             \* where the event loop is
    building, pendingRebuild, shuttingDown,
    child,           \* generation of devController.child, 0 for nil
    currentBinary,   \* the candidate the child runs, 0 for ""
    webAnnounced, webBannerShown,
    localRoute,      \* the session holds a .test name in the registry
    refused,         \* exitStatus 1: a refused web configuration
    stopWaiters,     \* the stop requests waiting for finishShutdown
    builder,         \* the build goroutine: state, files read, result
    buildGeneration,
    builtFrom,       \* per file, the newest version a finished build read
    procs,           \* procs[g]: the process of generation g
    signalled,       \* generations that were sent SIGKILL
    binaries,        \* candidates in binDir
    descriptor,      \* what app.dev says: its childPid, or NoFile
    requester,       \* per stop request: the goroutine that carries it
    verdict          \* per stop request: what its client told the user

loopVars  == <<building, pendingRebuild, shuttingDown, child, currentBinary,
               webAnnounced, webBannerShown, localRoute, refused, stopWaiters>>
buildVars == <<builder, buildGeneration, builtFrom>>
osVars    == <<procs, signalled, binaries, descriptor>>
stopVars  == <<requester, verdict>>
vars == <<diskVars, watcherVars, events, ctl, loopVars, buildVars,
          osVars, stopVars>>

NoFile    == -1
IdleBuild == [state |-> "idle", read |-> [f \in {} |-> 0], paths |-> {},
              ok |-> FALSE, app |-> "plain"]
Alive     == ctl # "gone"      \* the `ahdcode dev` process itself

\* A process: started; ended; reaped by its wait goroutine, which closed
\* `exited`; and its notification sent or thrown away.
ProcStates == {"failed", "running", "ended", "reaped", "reported", "dropped"}

\* Mutant: nobody waits for a child that was told to stop.
NotWaitedFor(g) == TRUE

Exited(g) == procs[g] \in {"reaped", "reported", "dropped"}
Running   == {g \in DOMAIN procs : procs[g] = "running"}

childGeneration == Len(procs)

ChildExited(g)     == [kind |-> "childExited", generation |-> g]
StopRequested(s)   == [kind |-> "stopRequested", done |-> s]
BuildFinished(b)   == [kind |-> "buildFinished", ok |-> b.ok, app |-> b.app,
                       paths |-> b.paths]

-----------------------------------------------------------------------------
(* The build goroutine. *)

\* startBuild: the loop's flag, and a goroutine for candidate number
\* buildGeneration'.
StartBuild ==
    /\ building' = TRUE
    /\ buildGeneration' = buildGeneration + 1
    /\ builder' = [IdleBuild EXCEPT !.state = "reading", !.paths = {Entry}]

\* The compiler reads one more file of the graph: the entry first, which says
\* which others there are.
BuildReads(f) ==
    /\ Alive
    /\ builder.state = "reading"
    /\ f \in builder.paths \ DOMAIN builder.read
    /\ builder' = [builder EXCEPT
           !.read  = [g \in DOMAIN @ \cup {f} |-> IF g = f THEN disk[g] ELSE @[g]],
           !.paths = IF f = Entry /\ disk[f] # 0 THEN @ \cup requires ELSE @]
    /\ UNCHANGED <<diskVars, watcherVars, events, ctl, loopVars,
                   buildGeneration, builtFrom, osVars, stopVars>>

\* BuildProgram returns: an error when a file is missing or the program is
\* wrong, otherwise a candidate that is an ordinary program, a Web one, or a
\* Web one whose configuration checkWebEnvironment refuses.
BuildReturns(ok, app) ==
    /\ Alive
    /\ builder.state = "reading"
    /\ builder.paths = DOMAIN builder.read
    /\ ok => \A f \in builder.paths : builder.read[f] # 0
    /\ builder' = [builder EXCEPT !.state = "sending", !.ok = ok, !.app = app]
    /\ binaries' = IF ok THEN binaries \cup {buildGeneration} ELSE binaries
    /\ builtFrom' = [f \in Files |-> IF f \in builder.paths
                                     THEN builder.read[f] ELSE builtFrom[f]]
    /\ UNCHANGED <<diskVars, watcherVars, events, ctl, loopVars,
                   buildGeneration, procs, signalled, descriptor, stopVars>>

BuildReports ==
    /\ Alive
    /\ builder.state = "sending"
    /\ CanSend
    /\ Enqueue(BuildFinished(builder))
    /\ builder' = IdleBuild
    /\ UNCHANGED <<diskVars, watcherVars, ctl, loopVars, buildGeneration,
                   builtFrom, osVars, stopVars>>

-----------------------------------------------------------------------------
(* Children and their wait goroutines. *)

\* A child ends: by itself, on SIGTERM, or because it was killed.
ChildEnds(g) ==
    /\ procs[g] = "running"
    /\ procs' = [procs EXCEPT ![g] = "ended"]
    /\ UNCHANGED <<diskVars, watcherVars, events, ctl, loopVars, buildVars,
                   signalled, binaries, descriptor, stopVars>>

\* Mutant: the notification is sent, blocking, before `exited` is closed.
ReportsBeforeClosing(g) ==
    /\ Alive
    /\ procs[g] = "ended"
    /\ CanSend
    /\ Enqueue(ChildExited(g))
    /\ procs' = [procs EXCEPT ![g] = "reported"]
    /\ UNCHANGED <<diskVars, watcherVars, ctl, loopVars, buildVars, signalled,
                   binaries, descriptor, stopVars>>

\* cmd.Wait returns and `exited` is closed.
ChildReaped(g) ==
    /\ Alive
    /\ procs[g] = "ended"
    /\ procs' = [procs EXCEPT ![g] = "reaped"]
    /\ UNCHANGED <<diskVars, watcherVars, events, ctl, loopVars, buildVars,
                   signalled, binaries, descriptor, stopVars>>

\* The non-blocking send of eventChildExited.
ExitReported(g) ==
    /\ Alive
    /\ procs[g] = "reaped"
    /\ \/ /\ CanSend
          /\ Enqueue(ChildExited(g))
          /\ procs' = [procs EXCEPT ![g] = "reported"]
       \/ /\ ~CanSend
          /\ procs' = [procs EXCEPT ![g] = "dropped"]
          /\ UNCHANGED events
    /\ UNCHANGED <<diskVars, watcherVars, ctl, loopVars, buildVars,
                   signalled, binaries, descriptor, stopVars>>

-----------------------------------------------------------------------------
(* The event loop, devController.run. *)

\* publishDescriptor: app.dev names the child the loop holds now.
PublishDescriptor == descriptor' = child'

Boot ==
    /\ ctl = "boot"
    /\ ctl' = "loop"
    /\ StartBuild
    /\ UNCHANGED child
    /\ PublishDescriptor
    /\ UNCHANGED <<diskVars, watcherVars, events, pendingRebuild, shuttingDown,
                   currentBinary, webAnnounced, webBannerShown, localRoute,
                   refused, stopWaiters, builtFrom, procs, signalled, binaries,
                   stopVars>>

\* The loop takes the oldest event, of this kind.
Receive(kind) ==
    /\ ctl = "loop"
    /\ events # <<>>
    /\ Head(events).kind = kind
    /\ events' = Tail(events)

\* Mutants: the loop forgets to ask whether it is shutting down; a save during
\* a build is forgotten.
AlwaysGoesOn == TRUE
ForgetsSave  == UNCHANGED pendingRebuild

GoesOn      == ~shuttingDown
MustPostpone == building
Postpone    == pendingRebuild' = TRUE

OnSourceChanged ==
    /\ Receive("sourceChanged")
    /\ \/ /\ shuttingDown
          /\ UNCHANGED <<pendingRebuild, building, builder, buildGeneration>>
       \/ /\ GoesOn
          /\ MustPostpone
          /\ Postpone
          /\ UNCHANGED <<building, builder, buildGeneration>>
       \/ /\ GoesOn
          /\ ~MustPostpone
          /\ StartBuild
          /\ UNCHANGED pendingRebuild
    /\ UNCHANGED <<diskVars, watcherVars, ctl, shuttingDown, child,
                   currentBinary, webAnnounced, webBannerShown, localRoute,
                   refused, stopWaiters, builtFrom, osVars, stopVars>>

\* finishShutdown, and run returns: every trace of the session is removed and
\* every waiter is released.
FinishShutdown(waiters) ==
    /\ ctl' = "closing"
    /\ localRoute' = FALSE
    /\ descriptor' = NoFile
    /\ binaries' = {}
    /\ requester' = [s \in Stoppers |->
                        IF s \in waiters THEN "released" ELSE requester[s]]
    /\ stopWaiters' = {}

\* A build ends after a stop was asked for: its result is thrown away.
OnBuildFinishedShuttingDown ==
    /\ Receive("buildFinished")
    /\ shuttingDown
    /\ building' = FALSE
    /\ FinishShutdown(stopWaiters)
    /\ UNCHANGED <<diskVars, watcherVars, pendingRebuild, shuttingDown, child,
                   currentBinary, webAnnounced, webBannerShown, refused,
                   buildVars, procs, signalled, verdict>>

\* The end of the handler: a save seen during the build starts the next one.
RebuildIfPending ==
    \/ /\ pendingRebuild
       /\ pendingRebuild' = FALSE
       /\ StartBuild
    \/ /\ ~pendingRebuild
       /\ building' = FALSE
       /\ UNCHANGED <<pendingRebuild, builder, buildGeneration>>

OnBuildFailed ==
    /\ Receive("buildFinished")
    /\ GoesOn
    /\ ~Head(events).ok
    /\ setPathsAsync(Head(events).paths)
    /\ RebuildIfPending
    /\ binaries' = binaries \ {buildGeneration}
    /\ UNCHANGED <<diskVars, snapshots, changedAt, watcher, stopped, ctl,
                   shuttingDown, child, currentBinary, webAnnounced,
                   webBannerShown, localRoute, refused, stopWaiters, builtFrom,
                   procs, signalled, descriptor, stopVars>>

\* isWebApplication and checkWebEnvironment say no: the session ends here.
OnBuildRefused ==
    /\ Receive("buildFinished")
    /\ GoesOn
    /\ Head(events).ok
    /\ Head(events).app = "refused" /\ ~webAnnounced
    /\ setPathsAsync(Head(events).paths)
    /\ building' = FALSE
    /\ shuttingDown' = TRUE
    /\ refused' = TRUE
    /\ FinishShutdown(stopWaiters)
    /\ UNCHANGED <<diskVars, snapshots, changedAt, watcher, stopped,
                   pendingRebuild, child, currentBinary, webAnnounced,
                   webBannerShown, buildVars, procs, signalled, verdict>>

\* A good candidate: the old child, if any, is asked to stop first.
OnBuildSucceeded ==
    /\ Receive("buildFinished")
    /\ GoesOn
    /\ Head(events).ok
    /\ Head(events).app # "refused" \/ webAnnounced
    /\ setPathsAsync(Head(events).paths)
    /\ building' = FALSE
    /\ webAnnounced' = (webAnnounced \/ Head(events).app = "web")
    /\ ctl' = IF child # 0 THEN "restarting" ELSE "launching"
    /\ UNCHANGED <<diskVars, snapshots, changedAt, watcher, stopped,
                   pendingRebuild, shuttingDown, child, currentBinary,
                   webBannerShown, localRoute, refused, stopWaiters, buildVars,
                   osVars, stopVars>>

\* stopDevChild, second half: the grace period passes and SIGKILL is sent.
GraceExpires ==
    /\ ctl \in {"restarting", "stopping"}
    /\ ~Exited(child)
    /\ child \notin signalled
    /\ signalled' = signalled \cup {child}
    /\ UNCHANGED <<diskVars, watcherVars, events, ctl, loopVars, buildVars,
                   procs, binaries, descriptor, stopVars>>

\* Mutant: the restart removes the new candidate instead of the old one.
RemovesNewCandidate ==
    /\ ctl = "restarting"
    /\ Exited(child)
    /\ ctl' = "launching"
    /\ binaries' = binaries \ {buildGeneration}
    /\ UNCHANGED <<diskVars, watcherVars, events, loopVars, buildVars, procs,
                   signalled, descriptor, stopVars>>

\* stopDevChild returns inside the restart.
OldChildGone ==
    /\ ctl = "restarting"
    /\ Exited(child)
    /\ ctl' = "launching"
    /\ binaries' = binaries \ {currentBinary}
    /\ UNCHANGED <<diskVars, watcherVars, events, loopVars, buildVars, procs,
                   signalled, descriptor, stopVars>>

\* startDevChild: the next generation, running or impossible to start.
Launch ==
    /\ ctl = "launching"
    /\ ctl' = "launched"
    /\ \/ /\ procs' = Append(procs, "running")
          /\ child' = Len(procs) + 1
          /\ currentBinary' = buildGeneration
       \/ /\ procs' = Append(procs, "failed")
          /\ child' = 0
          /\ currentBinary' = 0
    /\ UNCHANGED <<diskVars, watcherVars, events, building, pendingRebuild,
                   shuttingDown, webAnnounced, webBannerShown, localRoute,
                   refused, stopWaiters, buildVars, signalled, binaries,
                   descriptor, stopVars>>

\* The rest of the handler: the descriptor, for a Web program the first time
\* its local route, which may not come up, and the next build if one is due.
Launched ==
    /\ ctl = "launched"
    /\ ctl' = "loop"
    /\ UNCHANGED child
    /\ \/ /\ child = 0
          /\ UNCHANGED <<descriptor, localRoute, webBannerShown>>
       \/ /\ child # 0
          /\ PublishDescriptor
          /\ webBannerShown' = webAnnounced
          /\ \/ webAnnounced /\ ~webBannerShown /\ localRoute' \in BOOLEAN
             \/ ~(webAnnounced /\ ~webBannerShown) /\ UNCHANGED localRoute
    /\ RebuildIfPending
    /\ UNCHANGED <<diskVars, watcherVars, events, shuttingDown, currentBinary,
                   webAnnounced, refused, stopWaiters, builtFrom, procs,
                   signalled, binaries, stopVars>>

\* A notification counts when it is about the child the loop still holds.
OnChildExited ==
    /\ Receive("childExited")
    /\ IF Head(events).generation = childGeneration /\ child # 0
       THEN child' = 0 /\ currentBinary' = 0
       ELSE UNCHANGED <<child, currentBinary>>
    /\ UNCHANGED <<diskVars, watcherVars, ctl, building, pendingRebuild,
                   shuttingDown, webAnnounced, webBannerShown, localRoute,
                   refused, stopWaiters, buildVars, osVars, stopVars>>

\* A stop request: with a child it is stopped first, at once when forced.
OnStopRequested ==
    /\ Receive("stopRequested")
    /\ shuttingDown' = TRUE
    /\ LET s == Head(events).done IN
       \/ /\ child # 0
          /\ ctl' = "stopping"
          /\ stopWaiters' = stopWaiters \cup {s}
          /\ signalled' = IF s \in Forced THEN signalled \cup {child}
                                          ELSE signalled
          /\ UNCHANGED <<localRoute, binaries, descriptor, requester>>
       \/ /\ child = 0
          /\ building
          /\ stopWaiters' = stopWaiters \cup {s}
          /\ UNCHANGED <<ctl, localRoute, signalled, binaries, descriptor,
                         requester>>
       \/ /\ child = 0
          /\ ~building
          /\ FinishShutdown(stopWaiters \cup {s})
          /\ UNCHANGED signalled
    /\ UNCHANGED <<diskVars, watcherVars, building, pendingRebuild, child,
                   currentBinary, webAnnounced, webBannerShown, refused,
                   buildVars, procs, verdict>>

\* stopDevChild returns inside the stop: a build in flight is waited for.
ChildStopped ==
    /\ ctl = "stopping"
    /\ Exited(child)
    /\ child' = 0
    /\ currentBinary' = 0
    /\ \/ /\ building
          /\ ctl' = "loop"
          /\ binaries' = binaries \ {currentBinary}
          /\ UNCHANGED <<localRoute, stopWaiters, descriptor, requester>>
       \/ /\ ~building
          /\ FinishShutdown(stopWaiters)
    /\ UNCHANGED <<diskVars, watcherVars, events, building, pendingRebuild,
                   shuttingDown, webAnnounced, webBannerShown, refused,
                   buildVars, procs, signalled, verdict>>

\* runDev after the loop: the watcher is closed and waited for.
CloseWatcher ==
    /\ ctl = "closing"
    /\ ctl' = "closed"
    /\ closeWatcher
    /\ UNCHANGED <<diskVars, snapshots, setPaths, changedAt, watcher, events,
                   loopVars, buildVars, osVars, stopVars>>

runDevReturns ==
    /\ ctl = "closed"
    /\ watcher = "done"
    /\ ctl' = "gone"
    /\ UNCHANGED <<diskVars, watcherVars, events, loopVars, buildVars, osVars,
                   stopVars>>

-----------------------------------------------------------------------------
(* Asking the session to stop. *)

notStop == <<diskVars, watcherVars, loopVars, buildVars, procs, signalled,
             binaries>>

\* A client that found app.dev connects (devControlServer.handle runs onStop),
\* or the signal arrives.
RequestStop(s) ==
    /\ Alive
    /\ requester[s] = "idle"
    /\ s # CtrlC => descriptor # NoFile
    /\ requester' = [requester EXCEPT ![s] = "sending"]
    /\ UNCHANGED <<notStop, events, ctl, descriptor, verdict>>

SendStop(s) ==
    /\ Alive
    /\ requester[s] = "sending"
    /\ CanSend
    /\ Enqueue(StopRequested(s))
    /\ requester' = [requester EXCEPT ![s] = "waiting"]
    /\ UNCHANGED <<notStop, ctl, descriptor, verdict>>

\* The request's done channel is closed: the control channel answers "ok", the
\* Ctrl-C goroutine ends the process.
StopAnswered(s) ==
    /\ Alive
    /\ requester[s] = "released"
    /\ requester' = [requester EXCEPT ![s] = "done"]
    /\ ctl' = IF s = CtrlC THEN "gone" ELSE ctl
    /\ verdict' = [verdict EXCEPT ![s] = IF @ = "none" THEN "stopped" ELSE @]
    /\ UNCHANGED <<notStop, events, descriptor>>

\* What may last longer than the 8 seconds a client waits for the reply: a
\* compilation, and the prompt of syncLocalHosts after a launch.
Slow == builder.state = "reading" \/ ctl = "launched"

\* errDevControlUnreachable in stopDevSession and killDevSession: the reply did
\* not come within the client's deadline, or the process went away.  The client
\* removes app.dev and says that the session is not running.
ClientFindsNobody(s) ==
    /\ s # CtrlC
    /\ Slow \/ ~Alive
    /\ verdict[s] = "none"
    /\ requester[s] # "idle"
    /\ verdict' = [verdict EXCEPT ![s] = "notRunning"]
    /\ descriptor' = NoFile
    /\ UNCHANGED <<notStop, events, ctl, requester>>

-----------------------------------------------------------------------------
Init ==
    /\ WatcherInit
    /\ ctl = "boot"
    /\ building = FALSE /\ pendingRebuild = FALSE /\ shuttingDown = FALSE
    /\ child = 0 /\ currentBinary = 0
    /\ webAnnounced = FALSE /\ webBannerShown = FALSE /\ localRoute = FALSE
    /\ refused = FALSE
    /\ stopWaiters = {}
    /\ builder = IdleBuild
    /\ buildGeneration = 0
    /\ builtFrom = [f \in Files |-> 0]
    /\ procs = <<>>
    /\ signalled = {}
    /\ binaries = {}
    /\ descriptor = NoFile
    /\ requester = [s \in Stoppers |-> "idle"]
    /\ verdict = [s \in Stoppers |-> "none"]

notWatcher == <<ctl, loopVars, buildVars, osVars, stopVars>>

Disk    == Alive /\ (\E f \in Files : Save(f) \/ Remove(f)) /\ UNCHANGED notWatcher
Watcher ==
    /\ Alive
    /\ Poll \/ Debounced \/ Report \/ applyPathSet \/ WatcherReturns
    /\ UNCHANGED notWatcher
Builder ==
    \/ \E f \in Files : BuildReads(f)
    \/ \E ok \in BOOLEAN, app \in {"plain", "web", "refused"} : BuildReturns(ok, app)
    \/ BuildReports
Children ==
    \E g \in DOMAIN procs : ChildEnds(g) \/ ChildReaped(g) \/ ExitReported(g)
Loop ==
    \/ Boot
    \/ OnSourceChanged
    \/ OnBuildFinishedShuttingDown
    \/ OnBuildFailed
    \/ OnBuildRefused
    \/ OnBuildSucceeded
    \/ OldChildGone
    \/ Launch
    \/ Launched
    \/ OnChildExited
    \/ OnStopRequested
    \/ ChildStopped
    \/ CloseWatcher
    \/ runDevReturns
Stopping ==
    \E s \in Stoppers :
        RequestStop(s) \/ SendStop(s) \/ StopAnswered(s) \/ ClientFindsNobody(s)

Next == Disk \/ Watcher \/ Builder \/ Children \/ Loop \/ GraceExpires \/ Stopping

Spec == Init /\ [][Next]_vars

\* The scheduler runs every goroutine of the process, time passes, and SIGKILL
\* works.  A channel serves its blocked senders in order, so a send that is
\* possible again and again happens (SF).  Nothing makes the user save, a child
\* end, or anybody ask to stop.
Fairness ==
    /\ WF_vars(Watcher)
    /\ WF_vars(Watcher /\ applyPathSet)
    /\ SF_vars(Watcher /\ Report)
    /\ WF_vars(Builder)
    /\ SF_vars(BuildReports)
    /\ WF_vars(\E g \in DOMAIN procs : ChildReaped(g) \/ ExitReported(g))
    /\ WF_vars(\E g \in signalled : ChildEnds(g))
    /\ WF_vars(Loop)
    /\ WF_vars(GraceExpires)
    /\ \A s \in Stoppers : SF_vars(SendStop(s)) /\ WF_vars(StopAnswered(s))

FairSpec == Spec /\ Fairness

-----------------------------------------------------------------------------
(* Properties *)

Events ==
    [kind : {"sourceChanged"}]
    \cup [kind : {"childExited"}, generation : Nat]
    \cup [kind : {"stopRequested"}, done : Stoppers]
    \cup [kind : {"buildFinished"}, ok : BOOLEAN,
          app : {"plain", "web", "refused"}, paths : SUBSET Files]

PartialVersions == UNION {[S -> Versions] : S \in SUBSET Files}

Builds == [state : {"idle", "reading", "sending"}, read : PartialVersions,
           paths : SUBSET Files, ok : BOOLEAN, app : {"plain", "web", "refused"}]

FlagsOK ==
    /\ changedAt \in BOOLEAN /\ stopped \in BOOLEAN
    /\ building \in BOOLEAN /\ pendingRebuild \in BOOLEAN
    /\ shuttingDown \in BOOLEAN /\ refused \in BOOLEAN
    /\ webAnnounced \in BOOLEAN /\ webBannerShown \in BOOLEAN
    /\ localRoute \in BOOLEAN

\* Every variable holds what the code can put there, and the event channel
\* never holds more than its capacity.
TypeOK ==
    /\ disk \in [Files -> Versions]
    /\ requires \in SUBSET Files
    /\ saves \in 0..MaxSaves
    /\ snapshots \in PartialVersions
    /\ setPaths \in Seq(SUBSET Files)
    /\ watcher \in {"select", "sending", "done"}
    /\ events \in Seq(Events) /\ Len(events) <= Cap
    /\ ctl \in {"boot", "loop", "restarting", "launching", "launched",
                "stopping", "closing", "closed", "gone"}
    /\ FlagsOK
    /\ child \in Nat /\ currentBinary \in Nat
    /\ stopWaiters \in SUBSET Stoppers
    /\ builder \in Builds
    /\ buildGeneration \in Nat
    /\ builtFrom \in [Files -> Versions]
    /\ procs \in Seq(ProcStates)
    /\ signalled \in SUBSET Nat
    /\ binaries \in SUBSET Nat
    /\ descriptor \in Nat \cup {NoFile}
    /\ requester \in [Stoppers -> {"idle", "sending", "waiting", "released", "done"}]
    /\ verdict \in [Stoppers -> {"none", "stopped", "notRunning"}]

\* A process of the session that runs is always the child the event loop holds:
\* stale exit notifications, restarts and stops never make it lose or duplicate
\* one (dev.go, run and stopDevChild).
OneChild == Running \subseteq {child}

\* Who is told that the session stopped can rely on it: nothing runs, and the
\* descriptor, the route and every candidate are gone (finishShutdown is the
\* only place that closes a waiter).
StopMeansGone ==
    \A s \in Stoppers : requester[s] \in {"released", "done"} =>
        /\ Running = {}
        /\ descriptor = NoFile
        /\ ~localRoute
        /\ binaries = {}

FinishedBuilds == {i \in 1..Len(events) : events[i].kind = "buildFinished"}

\* Builds never overlap, and c.building says exactly whether one is on its way:
\* in its goroutine or as a result the loop has not taken yet.
BuildsNeverOverlap ==
    /\ building <=> (builder.state # "idle" \/ FinishedBuilds # {})
    /\ builder.state = "idle" \/ FinishedBuilds = {}
    /\ \A i, j \in FinishedBuilds : i = j

ExitNotes ==
    \A i \in 1..Len(events) : events[i].kind = "childExited" =>
        /\ events[i].generation \in DOMAIN procs
        /\ procs[events[i].generation] = "reported"

\* Why OneChild holds: the held child is the newest one, a notification in the
\* channel is about a process that ended, the loop waits for a child only when
\* it holds one, and launches only when nothing runs.
ChildInv ==
    /\ OneChild
    /\ child # 0 => child = Len(procs)
    /\ ExitNotes
    /\ ctl \in {"restarting", "stopping"} => child # 0
    /\ ctl = "launching" => Running = {}

\* Why StopMeansGone holds: a shutdown is begun only between two events, from
\* then on no child is held, and a waiter is released only after the last build.
ShutdownInv ==
    /\ ctl \in {"boot", "restarting", "launching", "launched"} => ~shuttingDown /\ ~building
    /\ ctl \in {"closing", "closed", "gone"} => shuttingDown /\ ~building
    /\ ctl = "stopping" => shuttingDown
    /\ refused => shuttingDown
    /\ shuttingDown /\ ~refused /\ ctl # "stopping" => child = 0
    /\ refused => ctl \in {"closing", "closed", "gone"}
    /\ (shuttingDown /\ ~refused) \/ stopWaiters = {}
    /\ \A s \in Stoppers : requester[s] \in {"released", "done"} =>
          /\ ~refused
          /\ ctl \in {"closing", "closed", "gone"}
          /\ descriptor = NoFile /\ ~localRoute /\ binaries = {}

\* The candidate that the held child was started from stays in binDir as long
\* as the child is held and the session goes on.
BinaryKept ==
    child # 0 /\ ctl \in {"loop", "launched"} => currentBinary \in binaries

\* Shutdown cannot race into starting a new child (dev.go, header comment).
NoStartAfterStop == [][shuttingDown => Len(procs') = Len(procs)]_vars

\* Every stop request ends with the process gone, whatever the loop was doing
\* when it came: building, restarting, waiting for a stubborn child.
StopCompletes == \A s \in Stoppers : requester[s] = "sending" ~> ~Alive

\* The newest save of the entry is compiled, unless the session ends first.
EntryIsBuilt ==
    \A v \in 1..MaxSaves + 1 :
        disk[Entry] = v ~> builtFrom[Entry] = v \/ disk[Entry] # v \/ shuttingDown
=============================================================================
