-------------------------- MODULE DevSessionProofs --------------------------
(***************************************************************************)
(* Proofs about DevSession, for every number of files, saves, channel      *)
(* slots and stop requests.                                                *)
(***************************************************************************)
EXTENDS DevSession, TLAPS, SequenceTheorems

\* What Append and Tail do to the event channel and to the processes.
LEMMA EnqueueType ==
    ASSUME TypeOK, CanSend, NEW e \in Events, Enqueue(e)
    PROVE  events' \in Seq(Events) /\ Len(events') <= Cap
  BY WatcherAssumption DEF WatcherAssumption, TypeOK, CanSend, Enqueue

\* The event that the loop takes is one of the known events.
LEMMA ReceiveType ==
    ASSUME TypeOK, NEW k, Receive(k)
    PROVE  /\ events' \in Seq(Events)
           /\ Len(events') <= Cap
           /\ Head(events) \in Events
           /\ Head(events).kind = k
           /\ events' = Tail(events)
  BY WatcherAssumption DEF WatcherAssumption, TypeOK, Receive

\* A function from some of the files to versions is a partial map of versions.
LEMMA IsPartial ==
    ASSUME NEW S \in SUBSET Files, NEW g \in [S -> Versions]
    PROVE  g \in PartialVersions
  BY DEF PartialVersions

\* And a partial map of versions is such a function.
LEMMA PartialIs ==
    ASSUME NEW g \in PartialVersions
    PROVE  DOMAIN g \in SUBSET Files /\ g \in [DOMAIN g -> Versions]
  BY DEF PartialVersions

\* The map that a build starts with, before it has read a file.
LEMMA EmptyPartial == [f \in {} |-> 0] \in PartialVersions
  <1>1. [f \in {} |-> 0] \in [{} -> Versions]
    OBVIOUS
  <1>. QED BY <1>1, IsPartial

\* The initial states have the right types.
LEMMA TypeInit == ASSUME Init PROVE TypeOK
  <1>1. snapshots \in PartialVersions
    <2>1. [f \in {Entry} |-> disk[f]] \in [{Entry} -> Versions]
      BY WatcherAssumption DEF WatcherAssumption, Init, WatcherInit, Versions
    <2>. QED BY <2>1, IsPartial, WatcherAssumption
             DEF WatcherAssumption, Init, WatcherInit
  <1>2. builder \in Builds
    BY EmptyPartial DEF Init, IdleBuild, Builds
  <1>3. FlagsOK
    BY Zenon DEF Init, WatcherInit, FlagsOK
  <1>4. /\ disk \in [Files -> Versions] /\ builtFrom \in [Files -> Versions]
        /\ requires \in SUBSET Files /\ saves \in 0..MaxSaves
    BY WatcherAssumption DEF WatcherAssumption, Init, WatcherInit, Versions
  <1>5. /\ events \in Seq(Events) /\ Len(events) <= Cap
        /\ setPaths \in Seq(SUBSET Files) /\ procs \in Seq(ProcStates)
        /\ watcher = "select"
    BY WatcherAssumption DEF WatcherAssumption, Init, WatcherInit
  <1>6. /\ ctl = "boot" /\ child \in Nat /\ currentBinary \in Nat
        /\ stopWaiters = {} /\ buildGeneration \in Nat /\ signalled = {}
        /\ binaries = {} /\ descriptor = NoFile
        /\ requester = [s \in Stoppers |-> "idle"]
        /\ verdict = [s \in Stoppers |-> "none"]
    BY DEF Init
  <1>. QED
    BY <1>1, <1>2, <1>3, <1>4, <1>5, <1>6 DEF TypeOK

\* The flags keep their types when nobody writes them.
LEMMA FlagsUnchanged ==
    ASSUME TypeOK, UNCHANGED <<watcherVars, loopVars>> PROVE FlagsOK'
  BY Zenon DEF TypeOK, FlagsOK, watcherVars, loopVars

\* Saves and removals keep the types (the version of a save is its number).
LEMMA TypeDisk == ASSUME TypeOK, Disk PROVE TypeOK'
  <1>. USE DEF Disk, notWatcher, loopVars, buildVars, osVars, stopVars, watcherVars
  <1>1. FlagsOK'
    BY Zenon DEF TypeOK, FlagsOK, Save, Remove
  <1>2. ASSUME NEW f \in Files, Save(f) PROVE TypeOK'
    BY <1>1, <1>2, WatcherAssumption DEF WatcherAssumption, TypeOK, Save, Versions
  <1>3. ASSUME NEW f \in Files, Remove(f) PROVE TypeOK'
    BY <1>1, <1>3, WatcherAssumption DEF WatcherAssumption, TypeOK, Remove, Versions
  <1>. QED BY <1>2, <1>3

\* The watcher's steps keep the types.
LEMMA TypeWatcher == ASSUME TypeOK, Watcher PROVE TypeOK'
  <1>. USE DEF notWatcher, loopVars, buildVars, osVars, stopVars, diskVars
  <1>1. UNCHANGED notWatcher
    BY DEF Watcher
  <1>2. ASSUME Poll PROVE TypeOK'
    <2>1. Tracked \in SUBSET Files
      BY PartialIs DEF TypeOK, Tracked
    <2>2. snapshots' \in [Tracked -> Versions]
      BY <1>2, <2>1 DEF Poll, TypeOK
    <2>3. snapshots' \in PartialVersions
      BY <2>1, <2>2, IsPartial
    <2>4. FlagsOK'
      BY <1>1, <1>2, Zenon DEF Poll, TypeOK, FlagsOK
    <2>. QED BY <1>1, <1>2, <2>3, <2>4 DEF Poll, TypeOK
  <1>3. ASSUME Debounced PROVE TypeOK'
    <2>1. FlagsOK'
      BY <1>1, <1>3, Zenon DEF Debounced, TypeOK, FlagsOK
    <2>. QED BY <1>1, <1>3, <2>1 DEF Debounced, TypeOK
  <1>4. ASSUME Report PROVE TypeOK'
    <2>1. SourceChanged \in Events
      BY DEF SourceChanged, Events
    <2>2. events' \in Seq(Events) /\ Len(events') <= Cap
      BY <1>4, <2>1, EnqueueType DEF Report
    <2>3. FlagsOK'
      BY <1>1, <1>4, Zenon DEF Report, TypeOK, FlagsOK
    <2>. QED BY <1>1, <1>4, <2>2, <2>3 DEF Report, TypeOK
  <1>5. ASSUME applyPathSet PROVE TypeOK'
    <2>1. Head(setPaths) \in SUBSET Files
      BY <1>5 DEF applyPathSet, TypeOK
    <2>2. Tracked \in SUBSET Files /\ snapshots \in [Tracked -> Versions]
      BY PartialIs DEF TypeOK, Tracked
    <2>3. snapshots' \in [Head(setPaths) -> Versions]
      BY <1>5, <2>1, <2>2 DEF applyPathSet, TypeOK
    <2>4. snapshots' \in PartialVersions
      BY <2>1, <2>3, IsPartial
    <2>5. FlagsOK'
      BY <1>1, <1>5, Zenon DEF applyPathSet, TypeOK, FlagsOK
    <2>. QED BY <1>1, <1>5, <2>4, <2>5 DEF applyPathSet, TypeOK
  <1>6. ASSUME WatcherReturns PROVE TypeOK'
    <2>1. FlagsOK'
      BY <1>1, <1>6, Zenon DEF WatcherReturns, TypeOK, FlagsOK
    <2>. QED BY <1>1, <1>6, <2>1 DEF WatcherReturns, TypeOK
  <1>. QED BY <1>2, <1>3, <1>4, <1>5, <1>6 DEF Watcher

\* What StartBuild puts into the variables of the build.
LEMMA StartBuildType ==
    ASSUME TypeOK, StartBuild
    PROVE  buildGeneration' \in Nat /\ builder' \in Builds
  <1>1. IdleBuild \in Builds
    BY EmptyPartial DEF IdleBuild, Builds
  <1>2. {Entry} \in SUBSET Files
    BY WatcherAssumption DEF WatcherAssumption
  <1>3. [IdleBuild EXCEPT !.state = "reading", !.paths = {Entry}] \in Builds
    BY <1>1, <1>2 DEF Builds
  <1>. QED BY <1>3 DEF TypeOK, StartBuild

\* The build goroutine's steps keep the types.
LEMMA TypeBuilder == ASSUME TypeOK, Builder PROVE TypeOK'
  <1>. USE DEF diskVars, watcherVars, loopVars, osVars, stopVars
  <1>1. FlagsOK'
    <2>1. UNCHANGED <<watcherVars, loopVars>>
      BY DEF Builder, BuildReads, BuildReturns, BuildReports
    <2>. QED BY <2>1, FlagsUnchanged
  <1>2. ASSUME NEW f \in Files, BuildReads(f) PROVE TypeOK'
    <2>. DEFINE D == DOMAIN builder.read \cup {f}
                r == [g \in D |-> IF g = f THEN disk[g] ELSE builder.read[g]]
    <2>1. builder.read \in PartialVersions
      BY DEF TypeOK, Builds
    <2>2. D \in SUBSET Files /\ builder.read \in [DOMAIN builder.read -> Versions]
      BY <2>1, PartialIs
    <2>3. r \in [D -> Versions]
      BY <2>2 DEF TypeOK, Builds
    <2>4. r \in PartialVersions
      BY <2>2, <2>3, IsPartial
    <2>. HIDE DEF D, r
    <2>5. builder' = [builder EXCEPT !.read = r,
             !.paths = IF f = Entry /\ disk[f] # 0 THEN @ \cup requires ELSE @]
      BY <1>2 DEF BuildReads, D, r
    <2>6. builder' \in Builds
      BY <2>4, <2>5 DEF TypeOK, Builds
    <2>. QED BY <1>1, <1>2, <2>6 DEF BuildReads, TypeOK
  <1>3. ASSUME NEW ok \in BOOLEAN, NEW app \in {"plain", "web", "refused"},
               BuildReturns(ok, app)
        PROVE  TypeOK'
    <2>1. builder.read \in PartialVersions
      BY DEF TypeOK, Builds
    <2>2. builder.read \in [builder.paths -> Versions]
      BY <1>3, <2>1, PartialIs DEF BuildReturns
    <2>3. builtFrom' \in [Files -> Versions]
      BY <1>3, <2>2 DEF BuildReturns, TypeOK
    <2>4. builder' \in Builds
      BY <1>3 DEF BuildReturns, TypeOK, Builds
    <2>. QED BY <1>1, <1>3, <2>3, <2>4 DEF BuildReturns, TypeOK
  <1>4. ASSUME BuildReports PROVE TypeOK'
    <2>1. BuildFinished(builder) \in Events
      BY DEF BuildFinished, Events, TypeOK, Builds
    <2>2. events' \in Seq(Events) /\ Len(events') <= Cap
      BY <1>4, <2>1, EnqueueType DEF BuildReports
    <2>3. builder' \in Builds
      BY <1>4, EmptyPartial DEF BuildReports, IdleBuild, Builds
    <2>. QED BY <1>1, <1>4, <2>2, <2>3 DEF BuildReports, TypeOK
  <1>. QED BY <1>2, <1>3, <1>4 DEF Builder

\* The ends of children, and their notifications, keep the types.
LEMMA TypeChildren == ASSUME TypeOK, Children PROVE TypeOK'
  <1>. USE DEF diskVars, watcherVars, loopVars, buildVars, stopVars
  <1>1. FlagsOK'
    BY Zenon DEF Children, ChildEnds, ChildReaped, ExitReported, TypeOK, FlagsOK
  <1>2. PICK g \in DOMAIN procs : ChildEnds(g) \/ ChildReaped(g) \/ ExitReported(g)
    BY DEF Children
  <1>3. procs' \in Seq(ProcStates)
    <2>1. PICK x \in ProcStates : procs' = [procs EXCEPT ![g] = x]
      BY <1>2 DEF ChildEnds, ChildReaped, ExitReported, ProcStates
    <2>. QED BY <2>1, ExceptSeq DEF TypeOK
  <1>4. events' \in Seq(Events) /\ Len(events') <= Cap
    <2>1. CASE UNCHANGED events
      BY <2>1 DEF TypeOK
    <2>2. CASE CanSend /\ Enqueue(ChildExited(g))
      <3>1. g \in Nat
        BY DEF TypeOK
      <3>2. ChildExited(g) \in Events
        BY <3>1 DEF ChildExited, Events
      <3>. QED BY <2>2, <3>2, EnqueueType
    <2>. QED BY <1>2, <2>1, <2>2 DEF ChildEnds, ChildReaped, ExitReported
  <1>. QED
    BY <1>1, <1>2, <1>3, <1>4 DEF ChildEnds, ChildReaped, ExitReported, TypeOK

\* A list of paths in an event is a set of files, so it can be watched.
LEMMA PathsType ==
    ASSUME TypeOK, Receive("buildFinished"), setPathsAsync(Head(events).paths)
    PROVE  setPaths' \in Seq(SUBSET Files)
  <1>1. Head(events) \in Events /\ Head(events).kind = "buildFinished"
    BY ReceiveType
  <1>2. Head(events).paths \in SUBSET Files
    BY <1>1 DEF Events
  <1>. QED BY <1>2 DEF setPathsAsync

\* finishShutdown keeps the types.
LEMMA FinishShutdownType ==
    ASSUME TypeOK, NEW w, FinishShutdown(w)
    PROVE  /\ requester' \in [Stoppers -> {"idle", "sending", "waiting", "released", "done"}]
           /\ stopWaiters' = {} /\ binaries' = {} /\ descriptor' = NoFile
           /\ ctl' = "closing"
  BY DEF TypeOK, FinishShutdown

\* The handlers of eventBuildFinished keep the types.
LEMMA TypeBuildEvents ==
    ASSUME TypeOK,
           \/ OnBuildFinishedShuttingDown \/ OnBuildFailed
           \/ OnBuildRefused \/ OnBuildSucceeded
    PROVE  TypeOK'
  <1>. USE DEF diskVars, watcherVars, buildVars, osVars, stopVars
  <1>1. Receive("buildFinished")
    BY DEF OnBuildFinishedShuttingDown, OnBuildFailed, OnBuildRefused, OnBuildSucceeded
  <1>2. events' \in Seq(Events) /\ Len(events') <= Cap
    BY <1>1, ReceiveType
  <1>3. ASSUME OnBuildFinishedShuttingDown PROVE TypeOK'
    <2>1. FlagsOK'
      BY <1>3, Zenon DEF OnBuildFinishedShuttingDown, FinishShutdown, TypeOK, FlagsOK
    <2>2. FinishShutdown(stopWaiters)
      BY <1>3 DEF OnBuildFinishedShuttingDown
    <2>. QED BY <1>2, <1>3, <2>1, <2>2, FinishShutdownType
             DEF OnBuildFinishedShuttingDown, TypeOK
  <1>4. ASSUME OnBuildFailed PROVE TypeOK'
    <2>1. FlagsOK'
      BY <1>4, Zenon DEF OnBuildFailed, RebuildIfPending, StartBuild, TypeOK, FlagsOK
    <2>2. setPaths' \in Seq(SUBSET Files)
      BY <1>1, <1>4, PathsType DEF OnBuildFailed
    <2>3. buildGeneration' \in Nat /\ builder' \in Builds
      BY <1>4, StartBuildType DEF OnBuildFailed, RebuildIfPending, TypeOK
    <2>. QED BY <1>2, <1>4, <2>1, <2>2, <2>3 DEF OnBuildFailed, TypeOK
  <1>5. ASSUME OnBuildRefused PROVE TypeOK'
    <2>1. FlagsOK'
      BY <1>5, Zenon DEF OnBuildRefused, FinishShutdown, TypeOK, FlagsOK
    <2>2. setPaths' \in Seq(SUBSET Files)
      BY <1>1, <1>5, PathsType DEF OnBuildRefused
    <2>3. FinishShutdown(stopWaiters)
      BY <1>5 DEF OnBuildRefused
    <2>. QED BY <1>2, <1>5, <2>1, <2>2, <2>3, FinishShutdownType
             DEF OnBuildRefused, TypeOK
  <1>6. ASSUME OnBuildSucceeded PROVE TypeOK'
    <2>1. FlagsOK'
      BY <1>6, Zenon DEF OnBuildSucceeded, TypeOK, FlagsOK
    <2>2. setPaths' \in Seq(SUBSET Files)
      BY <1>1, <1>6, PathsType DEF OnBuildSucceeded
    <2>. QED BY <1>2, <1>6, <2>1, <2>2 DEF OnBuildSucceeded, TypeOK
  <1>. QED BY <1>3, <1>4, <1>5, <1>6

\* The other steps of the event loop keep the types.
LEMMA TypeLoop == ASSUME TypeOK, Loop \/ GraceExpires PROVE TypeOK'
  <1>. USE DEF diskVars, watcherVars, buildVars, osVars, stopVars
  <1>1. ASSUME Boot PROVE TypeOK'
    <2>1. FlagsOK'
      BY <1>1, Zenon DEF Boot, StartBuild, TypeOK, FlagsOK
    <2>2. buildGeneration' \in Nat /\ builder' \in Builds
      BY <1>1, StartBuildType DEF Boot
    <2>. QED BY <1>1, <2>1, <2>2 DEF Boot, PublishDescriptor, TypeOK
  <1>2. ASSUME OnSourceChanged PROVE TypeOK'
    <2>1. FlagsOK'
      BY <1>2, Zenon DEF OnSourceChanged, StartBuild, Postpone, TypeOK, FlagsOK
    <2>2. buildGeneration' \in Nat /\ builder' \in Builds
      BY <1>2, StartBuildType DEF OnSourceChanged, TypeOK
    <2>3. events' \in Seq(Events) /\ Len(events') <= Cap
      BY <1>2, ReceiveType DEF OnSourceChanged
    <2>. QED BY <1>2, <2>1, <2>2, <2>3 DEF OnSourceChanged, TypeOK
  <1>3. ASSUME OldChildGone PROVE TypeOK'
    <2>1. FlagsOK'
      BY <1>3, FlagsUnchanged DEF OldChildGone
    <2>. QED BY <1>3, <2>1 DEF OldChildGone, loopVars, TypeOK
  <1>4. ASSUME Launch PROVE TypeOK'
    <2>1. FlagsOK'
      BY <1>4, Zenon DEF Launch, TypeOK, FlagsOK
    <2>2. procs' \in Seq(ProcStates)
      <3>1. PICK x \in ProcStates : procs' = Append(procs, x)
        BY <1>4 DEF Launch, ProcStates
      <3>. QED BY <3>1 DEF TypeOK
    <2>. QED BY <1>4, <2>1, <2>2 DEF Launch, TypeOK
  <1>5. ASSUME Launched PROVE TypeOK'
    <2>1. FlagsOK'
      BY <1>5, Zenon DEF Launched, RebuildIfPending, StartBuild, TypeOK, FlagsOK
    <2>2. buildGeneration' \in Nat /\ builder' \in Builds
      BY <1>5, StartBuildType DEF Launched, RebuildIfPending, TypeOK
    <2>. QED BY <1>5, <2>1, <2>2 DEF Launched, PublishDescriptor, TypeOK
  <1>6. ASSUME OnChildExited PROVE TypeOK'
    <2>1. FlagsOK'
      BY <1>6, Zenon DEF OnChildExited, TypeOK, FlagsOK
    <2>2. events' \in Seq(Events) /\ Len(events') <= Cap
      BY <1>6, ReceiveType DEF OnChildExited
    <2>. QED BY <1>6, <2>1, <2>2 DEF OnChildExited, TypeOK
  <1>7. ASSUME OnStopRequested PROVE TypeOK'
    <2>. DEFINE s == Head(events).done
    <2>1. FlagsOK'
      BY <1>7, Zenon DEF OnStopRequested, FinishShutdown, TypeOK, FlagsOK
    <2>2. /\ events' \in Seq(Events) /\ Len(events') <= Cap
          /\ Head(events) \in Events /\ Head(events).kind = "stopRequested"
      BY <1>7, ReceiveType DEF OnStopRequested
    <2>3. s \in Stoppers
      BY <2>2 DEF Events
    <2>4. \/ FinishShutdown(stopWaiters \cup {s}) /\ UNCHANGED signalled
          \/ /\ stopWaiters' = stopWaiters \cup {s}
             /\ ctl' = ctl \/ ctl' = "stopping"
             /\ signalled' = signalled \/ signalled' = signalled \cup {child}
             /\ UNCHANGED <<binaries, descriptor, requester>>
      BY <1>7 DEF OnStopRequested
    <2>5. /\ stopWaiters' \in SUBSET Stoppers /\ signalled' \in SUBSET Nat
          /\ requester' \in [Stoppers -> {"idle", "sending", "waiting", "released", "done"}]
          /\ binaries' \in SUBSET Nat /\ descriptor' \in Nat \cup {NoFile}
          /\ ctl' = ctl \/ ctl' = "stopping" \/ ctl' = "closing"
      BY <2>3, <2>4, FinishShutdownType DEF TypeOK
    <2>. QED BY <1>7, <2>1, <2>2, <2>5 DEF OnStopRequested, TypeOK
  <1>8. ASSUME ChildStopped PROVE TypeOK'
    <2>1. FlagsOK'
      BY <1>8, Zenon DEF ChildStopped, FinishShutdown, TypeOK, FlagsOK
    <2>2. \/ FinishShutdown(stopWaiters)
          \/ /\ ctl' = "loop" /\ binaries' = binaries \ {currentBinary}
             /\ UNCHANGED <<stopWaiters, descriptor, requester>>
      BY <1>8 DEF ChildStopped
    <2>3. /\ stopWaiters' \in SUBSET Stoppers
          /\ requester' \in [Stoppers -> {"idle", "sending", "waiting", "released", "done"}]
          /\ binaries' \in SUBSET Nat /\ descriptor' \in Nat \cup {NoFile}
          /\ ctl' = "loop" \/ ctl' = "closing"
      BY <2>2, FinishShutdownType DEF TypeOK
    <2>. QED BY <1>8, <2>1, <2>3 DEF ChildStopped, TypeOK
  <1>9. ASSUME CloseWatcher \/ runDevReturns PROVE TypeOK'
    <2>1. FlagsOK'
      BY <1>9, Zenon DEF CloseWatcher, closeWatcher, runDevReturns, loopVars, TypeOK, FlagsOK
    <2>. QED BY <1>9, <2>1 DEF CloseWatcher, runDevReturns, loopVars, TypeOK
  <1>10. ASSUME GraceExpires PROVE TypeOK'
    <2>1. FlagsOK'
      BY <1>10, FlagsUnchanged DEF GraceExpires
    <2>. QED BY <1>10, <2>1 DEF GraceExpires, loopVars, TypeOK
  <1>. QED
    BY <1>1, <1>2, <1>3, <1>4, <1>5, <1>6, <1>7, <1>8, <1>9, <1>10,
       TypeBuildEvents DEF Loop

\* The stop requests keep the types.
LEMMA TypeStopping == ASSUME TypeOK, Stopping PROVE TypeOK'
  <1>. USE DEF diskVars, buildVars, notStop
  <1>1. PICK s \in Stoppers :
          RequestStop(s) \/ SendStop(s) \/ StopAnswered(s) \/ ClientFindsNobody(s)
    BY DEF Stopping
  <1>2. FlagsOK'
    <2>1. UNCHANGED <<watcherVars, loopVars>>
      BY <1>1 DEF RequestStop, SendStop, StopAnswered, ClientFindsNobody
    <2>. QED BY <2>1, FlagsUnchanged
  <1>3. events' \in Seq(Events) /\ Len(events') <= Cap
    <2>1. StopRequested(s) \in Events
      BY DEF StopRequested, Events
    <2>. QED BY <1>1, <2>1, EnqueueType
             DEF RequestStop, SendStop, StopAnswered, ClientFindsNobody, TypeOK
  <1>. QED
    BY <1>1, <1>2, <1>3 DEF RequestStop, SendStop, StopAnswered,
       ClientFindsNobody, TypeOK, watcherVars, loopVars

\* TypeOK is inductive: every step of the session keeps every variable in its
\* type and the event channel within its capacity.
THEOREM TypeCorrect == Spec => []TypeOK
  <1>1. ASSUME TypeOK, [Next]_vars PROVE TypeOK'
    <2>1. CASE UNCHANGED vars
      <3>1. FlagsOK'
        BY <1>1, <2>1, FlagsUnchanged DEF vars
      <3>. QED BY <1>1, <2>1, <3>1 DEF vars, diskVars, watcherVars, loopVars,
               buildVars, osVars, stopVars, TypeOK
    <2>. QED BY <1>1, <2>1, TypeDisk, TypeWatcher, TypeBuilder, TypeChildren,
             TypeLoop, TypeStopping DEF Next
  <1>. QED BY <1>1, TypeInit, PTL DEF Spec

-----------------------------------------------------------------------------
(* The child the loop holds. *)

\* Taking an event keeps the exit notes true.
LEMMA NotesTail ==
    ASSUME TypeOK, ExitNotes, NEW k, Receive(k), UNCHANGED procs
    PROVE  ExitNotes'
  <1>1. events' = Tail(events) /\ events # <<>>
    BY DEF Receive
  <1>2. Len(events') = Len(events) - 1
        /\ \A i \in 1..Len(events') : events'[i] = events[i + 1]
    BY <1>1, HeadTailProperties DEF TypeOK
  <1>3. Len(events) \in Nat
    BY DEF TypeOK
  <1>4. ASSUME NEW i \in 1..Len(events'), events'[i].kind = "childExited"
        PROVE  /\ events'[i].generation \in DOMAIN procs'
               /\ procs'[events'[i].generation] = "reported"
    <2>1. i + 1 \in 1..Len(events) /\ events'[i] = events[i + 1]
      BY <1>2, <1>3
    <2>. QED BY <1>4, <2>1 DEF ExitNotes
  <1>. QED BY <1>4 DEF ExitNotes

\* Sending another event keeps the exit notes true.
LEMMA NotesAppend ==
    ASSUME TypeOK, ExitNotes, NEW e, Enqueue(e), e.kind # "childExited",
           UNCHANGED procs
    PROVE  ExitNotes'
  <1>1. /\ Len(events') = Len(events) + 1
        /\ \A i \in 1..Len(events) : events'[i] = events[i]
        /\ events'[Len(events) + 1] = e
    BY DEF Enqueue, TypeOK
  <1>2. Len(events) \in Nat
    BY DEF TypeOK
  <1>3. ASSUME NEW i \in 1..Len(events'), events'[i].kind = "childExited"
        PROVE  /\ events'[i].generation \in DOMAIN procs'
               /\ procs'[events'[i].generation] = "reported"
    <2>1. i \in 1..Len(events) /\ events'[i] = events[i]
      BY <1>1, <1>2, <1>3
    <2>. QED BY <1>3, <2>1 DEF ExitNotes
  <1>. QED BY <1>3 DEF ExitNotes

\* Steps that touch neither the children nor what the loop does.
LEMMA ChildFrame ==
    ASSUME TypeOK, ChildInv, ExitNotes', UNCHANGED <<procs, child>>,
           ctl' = ctl \/ ctl' \notin {"restarting", "stopping", "launching"}
    PROVE  ChildInv'
  BY DEF ChildInv, OneChild, Running

\* So does leaving the channel and the processes alone.
LEMMA NotesSame ==
    ASSUME ExitNotes, UNCHANGED <<procs, events>> PROVE ExitNotes'
  BY DEF ExitNotes

\* A child that ends, and its notification, keep ChildInv.
LEMMA ChildInvChildren == ASSUME TypeOK, ChildInv, Children PROVE ChildInv'
  <1>1. PICK g \in DOMAIN procs : ChildEnds(g) \/ ChildReaped(g) \/ ExitReported(g)
    BY DEF Children
  <1>2. g \in 1..Len(procs) /\ Len(procs) \in Nat
    BY DEF TypeOK
  <1>3. UNCHANGED <<ctl, child>>
    BY <1>1 DEF ChildEnds, ChildReaped, ExitReported, loopVars
  <1>4. PICK x \in {"ended", "reaped", "reported", "dropped"} :
            procs' = [procs EXCEPT ![g] = x]
    BY <1>1 DEF ChildEnds, ChildReaped, ExitReported
  <1>5. Len(procs') = Len(procs) /\ DOMAIN procs' = DOMAIN procs
    BY <1>4 DEF TypeOK
  <1>6. Running' \subseteq Running
    BY <1>4, <1>5 DEF Running
  <1>7. ExitNotes'
    <2>1. ASSUME UNCHANGED events, procs[g] # "reported" PROVE ExitNotes'
      BY <1>4, <1>5, <2>1 DEF ExitNotes, ChildInv
    <2>2. ASSUME Enqueue(ChildExited(g)), procs' = [procs EXCEPT ![g] = "reported"],
                 procs[g] = "reaped"
          PROVE  ExitNotes'
      <3>1. /\ Len(events') = Len(events) + 1
            /\ \A i \in 1..Len(events) : events'[i] = events[i]
            /\ events'[Len(events) + 1] = ChildExited(g)
        BY <2>2 DEF Enqueue, TypeOK
      <3>2. ASSUME NEW i \in 1..Len(events'), events'[i].kind = "childExited"
            PROVE  /\ events'[i].generation \in DOMAIN procs'
                   /\ procs'[events'[i].generation] = "reported"
        <4>1. CASE i = Len(events) + 1
          BY <1>2, <1>5, <2>2, <3>1, <4>1 DEF ChildExited
        <4>2. CASE i # Len(events) + 1
          <5>1. i \in 1..Len(events) /\ events'[i] = events[i]
            BY <3>1, <4>2 DEF TypeOK
          <5>2. /\ events'[i].generation \in DOMAIN procs
                /\ procs[events'[i].generation] = "reported"
            BY <3>2, <5>1 DEF ChildInv, ExitNotes
          <5>. QED BY <1>5, <2>2, <5>2
        <4>. QED BY <4>1, <4>2
      <3>. QED BY <3>2 DEF ExitNotes
    <2>. QED BY <1>1, <2>1, <2>2 DEF ChildEnds, ChildReaped, ExitReported
  <1>. QED BY <1>3, <1>5, <1>6, <1>7 DEF ChildInv, OneChild

\* Every handler of the event loop keeps ChildInv.
LEMMA ChildInvLoop == ASSUME TypeOK, ChildInv, Loop PROVE ChildInv'
  <1>. USE DEF osVars
  <1>1. ASSUME Boot PROVE ChildInv'
    BY <1>1, NotesSame, ChildFrame DEF Boot, ChildInv
  <1>2. ASSUME OnSourceChanged PROVE ChildInv'
    BY <1>2, NotesTail, ChildFrame DEF OnSourceChanged, ChildInv
  <1>3. ASSUME OnBuildFinishedShuttingDown \/ OnBuildRefused \/ OnBuildFailed
        PROVE  ChildInv'
    BY <1>3, NotesTail, ChildFrame DEF OnBuildFinishedShuttingDown, OnBuildRefused,
       OnBuildFailed, FinishShutdown, ChildInv
  <1>4. ASSUME OnBuildSucceeded PROVE ChildInv'
    <2>1. ExitNotes' /\ UNCHANGED <<procs, child>>
      BY <1>4, NotesTail DEF OnBuildSucceeded, ChildInv
    <2>2. child = 0 => Running = {}
      BY DEF ChildInv, OneChild, Running, TypeOK
    <2>. QED BY <1>4, <2>1, <2>2 DEF OnBuildSucceeded, ChildInv, OneChild, Running
  <1>5. ASSUME OldChildGone PROVE ChildInv'
    <2>1. ExitNotes' /\ UNCHANGED <<procs, child>>
      BY <1>5, NotesSame DEF OldChildGone, loopVars, ChildInv
    <2>2. Running = {}
      BY <1>5 DEF OldChildGone, Exited, ChildInv, OneChild, Running
    <2>. QED BY <1>5, <2>1, <2>2 DEF OldChildGone, ChildInv, OneChild, Running
  <1>6. ASSUME Launch PROVE ChildInv'
    <2>1. Running = {} /\ Len(procs) \in Nat
      BY <1>6 DEF Launch, ChildInv, TypeOK
    <2>2. PICK x \in {"running", "failed"} :
             /\ procs' = Append(procs, x)
             /\ child' = IF x = "running" THEN Len(procs) + 1 ELSE 0
      BY <1>6 DEF Launch
    <2>3. /\ Len(procs') = Len(procs) + 1
          /\ DOMAIN procs' = 1..Len(procs) + 1
          /\ DOMAIN procs = 1..Len(procs)
          /\ \A i \in 1..Len(procs) : procs'[i] = procs[i]
          /\ procs'[Len(procs) + 1] = x
      BY <2>2 DEF TypeOK
    <2>4. Running' \subseteq {child'}
      BY <2>1, <2>2, <2>3 DEF Running
    <2>5. ExitNotes'
      BY <1>6, <2>1, <2>3 DEF Launch, ChildInv, ExitNotes
    <2>. QED BY <1>6, <2>2, <2>3, <2>4, <2>5 DEF Launch, ChildInv, OneChild
  <1>7. ASSUME Launched PROVE ChildInv'
    BY <1>7, NotesSame, ChildFrame DEF Launched, ChildInv
  <1>8. ASSUME OnChildExited PROVE ChildInv'
    <2>1. ExitNotes' /\ UNCHANGED <<procs, ctl>> /\ ctl = "loop"
      BY <1>8, NotesTail DEF OnChildExited, Receive, ChildInv
    <2>2. CASE UNCHANGED child
      BY <2>1, <2>2, ChildFrame
    <2>3. CASE Head(events).generation = childGeneration /\ child # 0 /\ child' = 0
      <3>1. Head(events) = events[1] /\ 1 \in 1..Len(events)
            /\ events[1].kind = "childExited"
        BY <1>8 DEF OnChildExited, Receive, TypeOK
      <3>2. procs[Len(procs)] = "reported"
        BY <2>3, <3>1 DEF ChildInv, ExitNotes, childGeneration
      <3>3. Running = {}
        BY <2>3, <3>2 DEF ChildInv, OneChild, Running
      <3>. QED BY <2>1, <2>3, <3>3 DEF ChildInv, OneChild, Running
    <2>. QED BY <1>8, <2>2, <2>3 DEF OnChildExited
  <1>9. ASSUME OnStopRequested PROVE ChildInv'
    <2>1. ExitNotes' /\ UNCHANGED <<procs, child>>
      BY <1>9, NotesTail DEF OnStopRequested, ChildInv
    <2>2. \/ ctl' = "stopping" /\ child # 0
          \/ ctl' = ctl
          \/ ctl' = "closing"
      BY <1>9 DEF OnStopRequested, FinishShutdown
    <2>. QED BY <2>1, <2>2 DEF ChildInv, OneChild, Running
  <1>10. ASSUME ChildStopped PROVE ChildInv'
    <2>1. ExitNotes' /\ UNCHANGED procs /\ child' = 0
      BY <1>10, NotesSame DEF ChildStopped, ChildInv
    <2>2. Running = {}
      BY <1>10 DEF ChildStopped, Exited, ChildInv, OneChild, Running
    <2>3. ctl' = "loop" \/ ctl' = "closing"
      BY <1>10 DEF ChildStopped, FinishShutdown
    <2>. QED BY <2>1, <2>2, <2>3 DEF ChildInv, OneChild, Running
  <1>11. ASSUME CloseWatcher \/ runDevReturns PROVE ChildInv'
    BY <1>11, NotesSame, ChildFrame DEF CloseWatcher, runDevReturns, loopVars, ChildInv
  <1>. QED BY <1>1, <1>2, <1>3, <1>4, <1>5, <1>6, <1>7, <1>8, <1>9, <1>10, <1>11 DEF Loop

\* Disk, watcher, builder and stop requests: they may send, but not an exit note.
LEMMA ChildInvOthers ==
    ASSUME TypeOK, ChildInv, Disk \/ Watcher \/ Builder \/ Stopping \/ GraceExpires
    PROVE  ChildInv'
  <1>. USE DEF osVars, loopVars, notWatcher, notStop
  <1>1. ASSUME Disk PROVE ChildInv'
    BY <1>1, NotesSame, ChildFrame DEF Disk, Save, Remove, ChildInv
  <1>2. ASSUME Watcher PROVE ChildInv'
    <2>1. UNCHANGED <<procs, child, ctl>>
      BY <1>2 DEF Watcher
    <2>2. SourceChanged.kind # "childExited"
      BY DEF SourceChanged
    <2>3. Enqueue(SourceChanged) \/ UNCHANGED events
      BY <1>2 DEF Watcher, Poll, Debounced, Report, applyPathSet, WatcherReturns
    <2>. QED BY <2>1, <2>2, <2>3, NotesAppend, NotesSame, ChildFrame DEF ChildInv
  <1>3. ASSUME Builder PROVE ChildInv'
    <2>1. UNCHANGED <<procs, child, ctl>>
      BY <1>3 DEF Builder, BuildReads, BuildReturns, BuildReports
    <2>2. BuildFinished(builder).kind # "childExited"
      BY DEF BuildFinished
    <2>3. Enqueue(BuildFinished(builder)) \/ UNCHANGED events
      BY <1>3 DEF Builder, BuildReads, BuildReturns, BuildReports
    <2>. QED BY <2>1, <2>2, <2>3, NotesAppend, NotesSame, ChildFrame DEF ChildInv
  <1>4. ASSUME Stopping PROVE ChildInv'
    <2>1. PICK s \in Stoppers :
            RequestStop(s) \/ SendStop(s) \/ StopAnswered(s) \/ ClientFindsNobody(s)
      BY <1>4 DEF Stopping
    <2>2. UNCHANGED <<procs, child>> /\ (ctl' = ctl \/ ctl' = "gone")
      BY <2>1 DEF RequestStop, SendStop, StopAnswered, ClientFindsNobody
    <2>3. StopRequested(s).kind # "childExited"
      BY DEF StopRequested
    <2>4. Enqueue(StopRequested(s)) \/ UNCHANGED events
      BY <2>1 DEF RequestStop, SendStop, StopAnswered, ClientFindsNobody
    <2>. QED BY <2>2, <2>3, <2>4, NotesAppend, NotesSame, ChildFrame DEF ChildInv
  <1>5. ASSUME GraceExpires PROVE ChildInv'
    BY <1>5, NotesSame, ChildFrame DEF GraceExpires, ChildInv
  <1>. QED BY <1>1, <1>2, <1>3, <1>4, <1>5

\* The loop always holds the newest child and knows what runs.
THEOREM ChildInvariant == Spec => []ChildInv
  <1>1. ASSUME Init PROVE ChildInv
    BY <1>1 DEF Init, WatcherInit, ChildInv, OneChild, Running, ExitNotes
  <1>2. ASSUME TypeOK, ChildInv, [Next]_vars PROVE ChildInv'
    <2>1. CASE UNCHANGED vars
      BY <1>2, <2>1, NotesSame, ChildFrame DEF vars, osVars, loopVars, ChildInv
    <2>. QED BY <1>2, <2>1, ChildInvChildren, ChildInvLoop, ChildInvOthers DEF Next
  <1>. QED BY <1>1, <1>2, TypeCorrect, PTL DEF Spec

\* A running process of the session is always the one the event loop holds, so
\* there is never more than one and a stop always reaches it.
THEOREM OneChildAlways == Spec => []OneChild
  <1>1. ChildInv => OneChild
    BY DEF ChildInv
  <1>. QED BY <1>1, ChildInvariant, PTL

-----------------------------------------------------------------------------
(* Builds. *)

\* Builds are not touched by a step that leaves their state alone.
LEMMA BuildsSame ==
    ASSUME BuildsNeverOverlap, UNCHANGED <<building, builder, events>>
    PROVE  BuildsNeverOverlap'
  BY DEF BuildsNeverOverlap, FinishedBuilds

\* An event that is not the end of a build leaves the finished builds alone.
LEMMA FinishedAppend ==
    ASSUME TypeOK, NEW e, Enqueue(e)
    PROVE  FinishedBuilds' = IF e.kind = "buildFinished"
                             THEN FinishedBuilds \cup {Len(events) + 1}
                             ELSE FinishedBuilds
  <1>1. /\ Len(events') = Len(events) + 1 /\ Len(events) \in Nat
        /\ \A i \in 1..Len(events) : events'[i] = events[i]
        /\ events'[Len(events) + 1] = e
    BY DEF Enqueue, TypeOK
  <1>. QED BY <1>1 DEF FinishedBuilds

\* Taking the oldest event shifts the finished builds by one.
LEMMA FinishedTail ==
    ASSUME TypeOK, NEW k, Receive(k)
    PROVE  /\ \A i \in FinishedBuilds' : i + 1 \in FinishedBuilds /\ i >= 1
           /\ \A i \in FinishedBuilds : i > 1 => i - 1 \in FinishedBuilds'
           /\ 1 \in FinishedBuilds <=> k = "buildFinished"
  <1>1. events' = Tail(events) /\ events # <<>> /\ events[1].kind = k
    BY DEF Receive, TypeOK
  <1>2. Len(events') = Len(events) - 1 /\ Len(events) \in Nat /\ Len(events) >= 1
        /\ \A i \in 1..Len(events') : events'[i] = events[i + 1]
    BY <1>1, HeadTailProperties DEF TypeOK
  <1>. QED BY <1>1, <1>2 DEF FinishedBuilds

\* Taking any other event than the end of a build, and starting nothing.
LEMMA BuildsOtherEvent ==
    ASSUME TypeOK, BuildsNeverOverlap, NEW k, Receive(k), k # "buildFinished",
           UNCHANGED <<building, builder>>
    PROVE  BuildsNeverOverlap'
  <1>1. \A i \in FinishedBuilds : i > 1 /\ i - 1 \in FinishedBuilds'
    BY FinishedTail DEF FinishedBuilds
  <1>2. \A i \in FinishedBuilds' : i + 1 \in FinishedBuilds /\ i >= 1 /\ i \in Int
    BY FinishedTail DEF FinishedBuilds
  <1>3. FinishedBuilds' = {} <=> FinishedBuilds = {}
    BY <1>1, <1>2
  <1>4. \A i, j \in FinishedBuilds' : i = j
    BY <1>2 DEF BuildsNeverOverlap
  <1>. QED BY <1>3, <1>4 DEF BuildsNeverOverlap

\* Taking the end of a build: nothing is on its way any more.
LEMMA BuildTaken ==
    ASSUME TypeOK, BuildsNeverOverlap, Receive("buildFinished")
    PROVE  FinishedBuilds' = {} /\ builder.state = "idle"
  <1>1. 1 \in FinishedBuilds
    BY FinishedTail
  <1>2. FinishedBuilds' = {}
    <2>1. SUFFICES ASSUME NEW i \in FinishedBuilds' PROVE FALSE
      OBVIOUS
    <2>2. i + 1 \in FinishedBuilds /\ i >= 1 /\ i \in Int
      BY FinishedTail DEF FinishedBuilds
    <2>. QED BY <1>1, <2>2 DEF BuildsNeverOverlap
  <1>. QED BY <1>1, <1>2 DEF BuildsNeverOverlap

\* With nothing on its way, either nothing is started or one build is.
LEMMA BuildsFresh ==
    ASSUME FinishedBuilds' = {}, builder.state = "idle",
           StartBuild \/ (building' = FALSE /\ builder' = builder)
    PROVE  BuildsNeverOverlap'
  <1>1. CASE StartBuild
    <2>1. building' = TRUE /\ builder'.state = "reading"
      BY <1>1 DEF StartBuild, IdleBuild
    <2>. QED BY <2>1 DEF BuildsNeverOverlap
  <1>2. CASE building' = FALSE /\ builder' = builder
    BY <1>2 DEF BuildsNeverOverlap
  <1>. QED BY <1>1, <1>2

\* Every step keeps at most one build on its way.
LEMMA BuildsStep ==
    ASSUME TypeOK, BuildsNeverOverlap, ShutdownInv, [Next]_vars
    PROVE  BuildsNeverOverlap'
  <1>. USE DEF loopVars, buildVars, notWatcher, notStop, diskVars, watcherVars
  <1>1. ASSUME Boot PROVE BuildsNeverOverlap'
    <2>1. ~building
      BY <1>1 DEF Boot, ShutdownInv
    <2>2. FinishedBuilds' = {} /\ builder.state = "idle"
      BY <1>1, <2>1 DEF Boot, BuildsNeverOverlap, FinishedBuilds
    <2>. QED BY <1>1, <2>2, BuildsFresh DEF Boot
  <1>2. ASSUME OnSourceChanged PROVE BuildsNeverOverlap'
    <2>1. Receive("sourceChanged")
      BY <1>2 DEF OnSourceChanged
    <2>2. CASE UNCHANGED <<building, builder>>
      BY <2>1, <2>2, BuildsOtherEvent
    <2>3. CASE ~building /\ StartBuild
      <3>1. FinishedBuilds = {} /\ builder.state = "idle"
        BY <2>3 DEF BuildsNeverOverlap
      <3>2. FinishedBuilds' = {}
        BY <2>1, <3>1, FinishedTail
      <3>. QED BY <2>3, <3>1, <3>2, BuildsFresh
    <2>. QED BY <1>2, <2>2, <2>3 DEF OnSourceChanged, MustPostpone
  <1>3. ASSUME OnBuildFinishedShuttingDown \/ OnBuildRefused \/ OnBuildSucceeded
        PROVE  BuildsNeverOverlap'
    BY <1>3, BuildTaken, BuildsFresh
    DEF OnBuildFinishedShuttingDown, OnBuildRefused, OnBuildSucceeded
  <1>4. ASSUME OnBuildFailed PROVE BuildsNeverOverlap'
    BY <1>4, BuildTaken, BuildsFresh DEF OnBuildFailed, RebuildIfPending
  <1>5. ASSUME OldChildGone \/ Launch \/ ChildStopped \/ CloseWatcher
               \/ runDevReturns \/ GraceExpires
        PROVE  BuildsNeverOverlap'
    BY <1>5, BuildsSame DEF OldChildGone, Launch, ChildStopped, CloseWatcher,
       runDevReturns, GraceExpires
  <1>6. ASSUME Launched PROVE BuildsNeverOverlap'
    <2>1. ~building /\ UNCHANGED events
      BY <1>6 DEF Launched, ShutdownInv
    <2>2. FinishedBuilds' = {} /\ builder.state = "idle"
      BY <2>1 DEF BuildsNeverOverlap, FinishedBuilds
    <2>. QED BY <1>6, <2>2, BuildsFresh DEF Launched, RebuildIfPending
  <1>7. ASSUME OnChildExited \/ OnStopRequested PROVE BuildsNeverOverlap'
    BY <1>7, BuildsOtherEvent DEF OnChildExited, OnStopRequested
  <1>8. ASSUME Disk PROVE BuildsNeverOverlap'
    BY <1>8, BuildsSame DEF Disk, Save, Remove
  <1>9. ASSUME Watcher PROVE BuildsNeverOverlap'
    <2>1. Enqueue(SourceChanged) \/ UNCHANGED events
      BY <1>9 DEF Watcher, Poll, Debounced, Report, applyPathSet, WatcherReturns
    <2>2. SourceChanged.kind # "buildFinished"
      BY DEF SourceChanged
    <2>3. FinishedBuilds' = FinishedBuilds
      BY <2>1, <2>2, FinishedAppend DEF FinishedBuilds
    <2>. QED BY <1>9, <2>3 DEF Watcher, BuildsNeverOverlap
  <1>10. ASSUME NEW f \in Files, BuildReads(f) PROVE BuildsNeverOverlap'
    <2>1. builder'.state = "reading" /\ builder.state = "reading"
          /\ UNCHANGED <<building, events>>
      BY <1>10 DEF BuildReads, TypeOK, Builds
    <2>. QED BY <2>1 DEF BuildsNeverOverlap, FinishedBuilds
  <1>11. ASSUME NEW ok, NEW app, BuildReturns(ok, app) PROVE BuildsNeverOverlap'
    <2>1. builder'.state = "sending" /\ builder.state = "reading"
          /\ UNCHANGED <<building, events>>
      BY <1>11 DEF BuildReturns, TypeOK, Builds
    <2>. QED BY <2>1 DEF BuildsNeverOverlap, FinishedBuilds
  <1>12. ASSUME BuildReports PROVE BuildsNeverOverlap'
    <2>1. builder'.state = "idle" /\ builder.state = "sending" /\ UNCHANGED building
      BY <1>12 DEF BuildReports, IdleBuild
    <2>2. BuildFinished(builder).kind = "buildFinished"
      BY DEF BuildFinished
    <2>3. FinishedBuilds = {} /\ building
      BY <2>1 DEF BuildsNeverOverlap
    <2>4. FinishedBuilds' = {Len(events) + 1}
      BY <1>12, <2>2, <2>3, FinishedAppend DEF BuildReports
    <2>. QED BY <2>1, <2>3, <2>4 DEF BuildsNeverOverlap
  <1>13. ASSUME Children PROVE BuildsNeverOverlap'
    <2>1. PICK g \in DOMAIN procs : ChildEnds(g) \/ ChildReaped(g) \/ ExitReported(g)
      BY <1>13 DEF Children
    <2>2. UNCHANGED <<building, builder>>
      BY <2>1 DEF ChildEnds, ChildReaped, ExitReported
    <2>3. Enqueue(ChildExited(g)) \/ UNCHANGED events
      BY <2>1 DEF ChildEnds, ChildReaped, ExitReported
    <2>4. ChildExited(g).kind # "buildFinished"
      BY DEF ChildExited
    <2>5. FinishedBuilds' = FinishedBuilds
      BY <2>3, <2>4, FinishedAppend DEF FinishedBuilds
    <2>. QED BY <2>2, <2>5 DEF BuildsNeverOverlap
  <1>14. ASSUME Stopping PROVE BuildsNeverOverlap'
    <2>1. PICK s \in Stoppers :
            RequestStop(s) \/ SendStop(s) \/ StopAnswered(s) \/ ClientFindsNobody(s)
      BY <1>14 DEF Stopping
    <2>2. UNCHANGED <<building, builder>>
      BY <2>1 DEF RequestStop, SendStop, StopAnswered, ClientFindsNobody
    <2>3. Enqueue(StopRequested(s)) \/ UNCHANGED events
      BY <2>1 DEF RequestStop, SendStop, StopAnswered, ClientFindsNobody
    <2>4. StopRequested(s).kind # "buildFinished"
      BY DEF StopRequested
    <2>5. FinishedBuilds' = FinishedBuilds
      BY <2>3, <2>4, FinishedAppend DEF FinishedBuilds
    <2>. QED BY <2>2, <2>5 DEF BuildsNeverOverlap
  <1>15. CASE UNCHANGED vars
    BY <1>15, BuildsSame DEF vars
  <1>. QED
    BY <1>1, <1>2, <1>3, <1>4, <1>5, <1>6, <1>7, <1>8, <1>9, <1>10, <1>11,
       <1>12, <1>13, <1>14, <1>15 DEF Next, Builder, Loop

-----------------------------------------------------------------------------
(* Shutdown. *)

\* A step that touches nothing the shutdown is about.
LEMMA ShutdownFrame ==
    ASSUME ShutdownInv,
           UNCHANGED <<ctl, building, shuttingDown, refused, child, stopWaiters>>,
           descriptor' = descriptor \/ descriptor' = NoFile,
           localRoute' = localRoute,
           ctl \in {"closing", "closed", "gone"} => UNCHANGED binaries,
           \A s \in Stoppers : requester'[s] \in {"released", "done"} =>
               requester[s] \in {"released", "done"}
    PROVE  ShutdownInv'
  BY DEF ShutdownInv

\* Every handler of the event loop keeps ShutdownInv.
LEMMA ShutdownLoop ==
    ASSUME TypeOK, ChildInv, BuildsNeverOverlap, ShutdownInv, Loop
    PROVE  ShutdownInv'
  <1>. USE DEF loopVars, osVars, stopVars, buildVars
  <1>1. ASSUME Boot PROVE ShutdownInv'
    BY <1>1 DEF Boot, ShutdownInv, StartBuild
  <1>2. ASSUME OnSourceChanged PROVE ShutdownInv'
    BY <1>2 DEF OnSourceChanged, Receive, ShutdownInv
  <1>3. ASSUME OnBuildFinishedShuttingDown PROVE ShutdownInv'
    BY <1>3 DEF OnBuildFinishedShuttingDown, Receive, FinishShutdown, ShutdownInv
  <1>4. ASSUME OnBuildFailed PROVE ShutdownInv'
    BY <1>4 DEF OnBuildFailed, Receive, GoesOn, ShutdownInv
  <1>5. ASSUME OnBuildRefused PROVE ShutdownInv'
    BY <1>5 DEF OnBuildRefused, Receive, GoesOn, FinishShutdown, ShutdownInv
  <1>6. ASSUME OnBuildSucceeded PROVE ShutdownInv'
    BY <1>6 DEF OnBuildSucceeded, Receive, GoesOn, ShutdownInv
  <1>7. ASSUME OldChildGone \/ Launch \/ Launched PROVE ShutdownInv'
    BY <1>7 DEF OldChildGone, Launch, Launched, ShutdownInv
  <1>8. ASSUME OnChildExited PROVE ShutdownInv'
    BY <1>8 DEF OnChildExited, Receive, ShutdownInv
  <1>9. ASSUME OnStopRequested PROVE ShutdownInv'
    BY <1>9 DEF OnStopRequested, Receive, FinishShutdown, ShutdownInv
  <1>10. ASSUME ChildStopped PROVE ShutdownInv'
    BY <1>10 DEF ChildStopped, FinishShutdown, ShutdownInv
  <1>11. ASSUME CloseWatcher \/ runDevReturns PROVE ShutdownInv'
    BY <1>11 DEF CloseWatcher, runDevReturns, ShutdownInv
  <1>. QED BY <1>1, <1>2, <1>3, <1>4, <1>5, <1>6, <1>7, <1>8, <1>9, <1>10, <1>11 DEF Loop

\* So does everybody else: no build is left to write into binDir.
LEMMA ShutdownOthers ==
    ASSUME TypeOK, BuildsNeverOverlap, ShutdownInv,
           Disk \/ Watcher \/ Builder \/ Children \/ GraceExpires \/ Stopping
    PROVE  ShutdownInv'
  <1>. USE DEF loopVars, osVars, stopVars, notWatcher, notStop
  <1>1. ASSUME Disk \/ Watcher \/ GraceExpires PROVE ShutdownInv'
    BY <1>1, ShutdownFrame DEF Disk, Watcher, GraceExpires
  <1>2. ASSUME Builder PROVE ShutdownInv'
    <2>1. UNCHANGED <<ctl, loopVars, descriptor, requester>>
      BY <1>2 DEF Builder, BuildReads, BuildReturns, BuildReports
    <2>2. ctl \in {"closing", "closed", "gone"} => builder.state = "idle"
      BY DEF ShutdownInv, BuildsNeverOverlap
    <2>3. ctl \in {"closing", "closed", "gone"} => UNCHANGED binaries
      BY <1>2, <2>2 DEF Builder, BuildReads, BuildReturns, BuildReports
    <2>. QED BY <2>1, <2>3, ShutdownFrame
  <1>3. ASSUME Children PROVE ShutdownInv'
    <2>1. UNCHANGED <<ctl, loopVars, binaries, descriptor, requester>>
      BY <1>3 DEF Children, ChildEnds, ChildReaped, ExitReported
    <2>. QED BY <2>1, ShutdownFrame
  <1>4. ASSUME Stopping PROVE ShutdownInv'
    <2>1. PICK s \in Stoppers :
            RequestStop(s) \/ SendStop(s) \/ StopAnswered(s) \/ ClientFindsNobody(s)
      BY <1>4 DEF Stopping
    <2>2. CASE RequestStop(s) \/ SendStop(s) \/ ClientFindsNobody(s)
      BY <2>2, ShutdownFrame DEF RequestStop, SendStop, ClientFindsNobody, TypeOK
    <2>3. CASE StopAnswered(s)
      BY <2>3 DEF StopAnswered, ShutdownInv, TypeOK
    <2>. QED BY <2>1, <2>2, <2>3
  <1>. QED BY <1>1, <1>2, <1>3, <1>4

\* The inductive invariant of the session: types, the child, the builds and the
\* shutdown, each of which needs the others.
SessionInv == TypeOK /\ ChildInv /\ BuildsNeverOverlap /\ ShutdownInv

\* The inductive invariant holds in every reachable state.
THEOREM SessionInvariant == Spec => []SessionInv
  <1>1. ASSUME Init PROVE BuildsNeverOverlap /\ ShutdownInv
    BY <1>1 DEF Init, WatcherInit, IdleBuild, BuildsNeverOverlap, FinishedBuilds, ShutdownInv
  <1>2. ASSUME SessionInv, ChildInv', [Next]_vars PROVE BuildsNeverOverlap' /\ ShutdownInv'
    <2>1. CASE UNCHANGED vars
      BY <1>2, <2>1, BuildsStep, ShutdownFrame
      DEF vars, loopVars, osVars, stopVars, SessionInv
    <2>. QED BY <1>2, <2>1, BuildsStep, ShutdownLoop, ShutdownOthers DEF Next, SessionInv
  <1>. QED BY <1>1, <1>2, TypeCorrect, ChildInvariant, PTL DEF Spec, SessionInv

\* Builds never overlap, and c.building tells whether one is on its way.
THEOREM BuildsNeverOverlapAlways == Spec => []BuildsNeverOverlap
  BY SessionInvariant, PTL DEF SessionInv

\* Whoever is told that the session stopped can rely on it.
THEOREM StopMeansGoneAlways == Spec => []StopMeansGone
  <1>1. SessionInv => StopMeansGone
    BY DEF SessionInv, ChildInv, OneChild, Running, ShutdownInv, StopMeansGone, TypeOK
  <1>. QED BY <1>1, SessionInvariant, PTL

\* After a stop was asked for no child is ever started.
THEOREM NoStartAfterStopAlways == Spec => NoStartAfterStop
  <1>1. ASSUME SessionInv, [Next]_vars PROVE [shuttingDown => Len(procs') = Len(procs)]_vars
    <2>1. CASE Launch
      BY <1>1, <2>1 DEF SessionInv, ShutdownInv, Launch
    <2>2. CASE Children
      BY <1>1, <2>2 DEF SessionInv, TypeOK, Children, ChildEnds, ChildReaped, ExitReported
    <2>3. CASE UNCHANGED procs
      BY <2>3
    <2>. QED
      BY <1>1, <2>1, <2>2, <2>3 DEF Next, Loop, Boot, OnSourceChanged,
         OnBuildFinishedShuttingDown, OnBuildFailed, OnBuildRefused,
         OnBuildSucceeded, OldChildGone, Launched, OnChildExited, OnStopRequested,
         ChildStopped, CloseWatcher, runDevReturns, Disk, Watcher, notWatcher,
         Builder, BuildReads, BuildReturns, BuildReports, GraceExpires, Stopping,
         RequestStop, SendStop, StopAnswered, ClientFindsNobody, notStop, osVars, vars
  <1>. QED BY <1>1, SessionInvariant, PTL DEF Spec, NoStartAfterStop

-----------------------------------------------------------------------------
(* The candidates in binDir. *)

\* A build that succeeded waits in the channel.
GoodBuildWaits == \E i \in FinishedBuilds : events[i].ok

\* Why BinaryKept holds: candidates are numbered by their builds, so a build on
\* its way is younger than the one the child runs, and a good one is in binDir
\* from the moment it is built until it is launched.
CandidateInv ==
    /\ ctl = "boot" => child = 0
    /\ currentBinary <= buildGeneration
    /\ child # 0 /\ (building \/ ctl = "restarting") => currentBinary < buildGeneration
    /\ builder.state = "sending" /\ builder.ok => buildGeneration \in binaries
    /\ GoodBuildWaits => buildGeneration \in binaries
    /\ ctl \in {"restarting", "launching"} => buildGeneration \in binaries
    /\ BinaryKept

\* A new event, and taking one, bring no good build that was not there, except
\* the report of one.
LEMMA GoodBuildAppend ==
    ASSUME TypeOK, NEW e, Enqueue(e), GoodBuildWaits'
    PROVE  GoodBuildWaits \/ (e.kind = "buildFinished" /\ e.ok)
  <1>1. /\ Len(events) \in Nat /\ \A i \in 1..Len(events) : events'[i] = events[i]
        /\ events'[Len(events) + 1] = e
    BY DEF Enqueue, TypeOK
  <1>2. PICK i \in FinishedBuilds' : events'[i].ok
    BY DEF GoodBuildWaits
  <1>3. CASE i \in FinishedBuilds
    BY <1>1, <1>2, <1>3 DEF GoodBuildWaits, FinishedBuilds
  <1>4. CASE i \notin FinishedBuilds
    BY <1>1, <1>2, <1>4, FinishedAppend
  <1>. QED BY <1>3, <1>4

\* Taking an event brings none.
LEMMA GoodBuildTail ==
    ASSUME TypeOK, NEW k, Receive(k), GoodBuildWaits' PROVE GoodBuildWaits
  <1>1. events' = Tail(events) /\ events # <<>>
    BY DEF Receive
  <1>2. \A i \in 1..Len(events') : events'[i] = events[i + 1]
    BY <1>1, HeadTailProperties DEF TypeOK
  <1>3. PICK i \in FinishedBuilds' : events'[i].ok
    BY DEF GoodBuildWaits
  <1>4. i + 1 \in FinishedBuilds /\ events'[i] = events[i + 1]
    BY <1>2, <1>3, FinishedTail DEF FinishedBuilds
  <1>. QED BY <1>3, <1>4 DEF GoodBuildWaits

\* A step that neither builds, starts, stops nor removes anything.
LEMMA CandidateFrame ==
    ASSUME CandidateInv, GoodBuildWaits' => GoodBuildWaits,
           UNCHANGED <<currentBinary, buildGeneration, child, building, builder, ctl, binaries>>
    PROVE  CandidateInv'
  BY DEF CandidateInv, BinaryKept

\* The build goroutine adds only its own candidate.
LEMMA CandidateBuilder ==
    ASSUME TypeOK, BuildsNeverOverlap, CandidateInv, Builder PROVE CandidateInv'
  <1>. USE DEF loopVars, osVars
  <1>1. ASSUME NEW f \in Files, BuildReads(f) PROVE CandidateInv'
    <2>1. /\ builder'.state = "reading"
          /\ UNCHANGED <<currentBinary, buildGeneration, child, building, ctl, binaries, events>>
      BY <1>1 DEF BuildReads, TypeOK, Builds
    <2>. QED BY <2>1 DEF CandidateInv, BinaryKept, GoodBuildWaits, FinishedBuilds
  <1>2. ASSUME NEW ok \in BOOLEAN, NEW a, BuildReturns(ok, a) PROVE CandidateInv'
    <2>1. /\ builder'.state = "sending" /\ builder'.ok = ok /\ builder.state = "reading"
          /\ UNCHANGED <<currentBinary, buildGeneration, child, building, ctl, events>>
      BY <1>2 DEF BuildReturns, TypeOK, Builds
    <2>2. binaries \subseteq binaries' /\ (ok => buildGeneration \in binaries')
      BY <1>2 DEF BuildReturns
    <2>. QED BY <2>1, <2>2 DEF CandidateInv, BinaryKept, GoodBuildWaits, FinishedBuilds
  <1>3. ASSUME BuildReports PROVE CandidateInv'
    <2>1. /\ builder'.state = "idle" /\ builder.state = "sending" /\ Enqueue(BuildFinished(builder))
          /\ UNCHANGED <<currentBinary, buildGeneration, child, building, ctl, binaries>>
      BY <1>3 DEF BuildReports, IdleBuild
    <2>2. BuildFinished(builder).ok = builder.ok
      BY DEF BuildFinished
    <2>3. GoodBuildWaits' => GoodBuildWaits \/ builder.ok
      BY <2>1, <2>2, GoodBuildAppend
    <2>. QED BY <2>1, <2>3 DEF CandidateInv, BinaryKept
  <1>. QED BY <1>1, <1>2, <1>3 DEF Builder

\* A build is started when none is on its way: it is younger than every
\* candidate there is.
LEMMA CandidateFresh ==
    ASSUME TypeOK, CandidateInv,
           FinishedBuilds' = {}, StartBuild, UNCHANGED <<currentBinary, child>>,
           ctl' = "loop", child # 0 => currentBinary \in binaries'
    PROVE  CandidateInv'
  <1>1. /\ builder'.state = "reading" /\ buildGeneration' = buildGeneration + 1
        /\ buildGeneration \in Nat /\ currentBinary \in Nat
    BY DEF StartBuild, IdleBuild, TypeOK
  <1>2. ~GoodBuildWaits'
    BY DEF GoodBuildWaits
  <1>3. currentBinary' < buildGeneration'
    BY <1>1 DEF CandidateInv
  <1>4. currentBinary' <= buildGeneration'
    BY <1>1 DEF CandidateInv
  <1>. QED BY <1>1, <1>2, <1>3, <1>4 DEF CandidateInv, BinaryKept

\* No build is on its way: only the child and the generation count.
LEMMA CandidateQuiet ==
    ASSUME TypeOK, CandidateInv, BuildsNeverOverlap', building' = FALSE, buildGeneration' = buildGeneration,
           \/ UNCHANGED <<currentBinary, child>>
           \/ child' = 0 /\ currentBinary' = 0
           \/ currentBinary' = buildGeneration /\ ctl' # "restarting",
           ctl' # "boot", ctl' = "restarting" => child # 0 /\ building,
           ctl' \in {"restarting", "launching"} => buildGeneration \in binaries',
           child' # 0 /\ ctl' \in {"loop", "launched"} => currentBinary' \in binaries'
    PROVE  CandidateInv'
  <1>1. builder'.state = "idle" /\ ~GoodBuildWaits'
    BY DEF BuildsNeverOverlap, GoodBuildWaits
  <1>2. buildGeneration \in Nat /\ currentBinary \in Nat /\ currentBinary <= buildGeneration
    BY DEF TypeOK, CandidateInv
  <1>3. currentBinary' <= buildGeneration'
    BY <1>2
  <1>4. child' # 0 /\ ctl' = "restarting" => currentBinary' < buildGeneration'
    BY DEF CandidateInv
  <1>. QED BY <1>1, <1>3, <1>4 DEF CandidateInv, BinaryKept

\* The handlers of the event loop: what they remove is never what runs.
LEMMA CandidateLoop ==
    ASSUME SessionInv, CandidateInv, BuildsNeverOverlap', Loop \/ GraceExpires PROVE CandidateInv'
  <1>. USE DEF loopVars, osVars, buildVars
  <1>0. TypeOK /\ ChildInv /\ BuildsNeverOverlap /\ ShutdownInv
    BY DEF SessionInv
  <1>a. ASSUME Receive("buildFinished")
        PROVE  ctl = "loop" /\ building /\ FinishedBuilds' = {}
               /\ (Head(events).ok => buildGeneration \in binaries)
    <2>1. FinishedBuilds' = {} /\ ctl = "loop"
      BY <1>0, <1>a, BuildTaken DEF Receive
    <2>2. 1 \in FinishedBuilds
      BY <1>0, <1>a, FinishedTail
    <2>3. building
      BY <1>0, <2>2 DEF BuildsNeverOverlap
    <2>4. Head(events) = events[1]
      BY <1>0, <1>a DEF Receive, TypeOK
    <2>5. Head(events).ok => GoodBuildWaits
      BY <2>2, <2>4 DEF GoodBuildWaits
    <2>. QED BY <2>1, <2>3, <2>5 DEF CandidateInv
  <1>1. ASSUME Boot PROVE CandidateInv'
    <2>1. /\ ~building /\ ctl = "boot" /\ ctl' = "loop" /\ StartBuild
          /\ UNCHANGED <<currentBinary, child, binaries, events>>
      BY <1>0, <1>1 DEF Boot, ShutdownInv
    <2>2. FinishedBuilds' = {}
      BY <1>0, <2>1 DEF BuildsNeverOverlap, FinishedBuilds
    <2>3. child = 0
      BY <2>1 DEF CandidateInv
    <2>. QED BY <1>0, <2>1, <2>2, <2>3, CandidateFresh
  <1>2. ASSUME OnSourceChanged PROVE CandidateInv'
    <2>1. Receive("sourceChanged") /\ ctl = "loop" /\ UNCHANGED <<ctl, child, currentBinary, binaries>>
      BY <1>2 DEF OnSourceChanged, Receive
    <2>2. CASE UNCHANGED <<building, builder, buildGeneration>>
      BY <1>0, <2>1, <2>2, GoodBuildTail, CandidateFrame
    <2>3. CASE ~building /\ StartBuild
      <3>1. FinishedBuilds' = {}
        BY <1>0, <2>1, <2>3, FinishedTail DEF BuildsNeverOverlap
      <3>. QED BY <1>0, <2>1, <2>3, <3>1, CandidateFresh DEF CandidateInv, BinaryKept
    <2>. QED BY <1>2, <2>2, <2>3 DEF OnSourceChanged, MustPostpone
  <1>3. ASSUME OnBuildFinishedShuttingDown \/ OnBuildRefused PROVE CandidateInv'
    <2>1. /\ building' = FALSE /\ ctl' = "closing" /\ UNCHANGED <<buildGeneration, currentBinary, child>>
      BY <1>3 DEF OnBuildFinishedShuttingDown, OnBuildRefused, FinishShutdown
    <2>. QED BY <1>0, <2>1, CandidateQuiet
  <1>4. ASSUME OnBuildFailed PROVE CandidateInv'
    <2>1. /\ building /\ ctl = "loop" /\ FinishedBuilds' = {}
          /\ binaries' = binaries \ {buildGeneration} /\ UNCHANGED <<ctl, child, currentBinary>>
      BY <1>4, <1>a DEF OnBuildFailed
    <2>2. child # 0 => currentBinary \in binaries'
      <3>1. child # 0 => currentBinary \in binaries /\ currentBinary < buildGeneration
        BY <2>1 DEF CandidateInv, BinaryKept
      <3>. QED BY <1>0, <2>1, <3>1 DEF TypeOK
    <2>3. CASE StartBuild
      BY <1>0, <2>1, <2>2, <2>3, CandidateFresh
    <2>4. CASE building' = FALSE /\ UNCHANGED buildGeneration
      BY <1>0, <2>1, <2>2, <2>4, CandidateQuiet
    <2>. QED BY <1>4, <2>3, <2>4 DEF OnBuildFailed, RebuildIfPending
  <1>5. ASSUME OnBuildSucceeded PROVE CandidateInv'
    <2>1. /\ building /\ ctl = "loop" /\ buildGeneration \in binaries /\ building' = FALSE
          /\ ctl' = (IF child # 0 THEN "restarting" ELSE "launching")
          /\ UNCHANGED <<child, currentBinary, buildGeneration, binaries>>
      BY <1>5, <1>a DEF OnBuildSucceeded
    <2>. QED BY <1>0, <2>1, CandidateQuiet
  <1>6. ASSUME OldChildGone PROVE CandidateInv'
    <2>1. /\ ctl = "restarting" /\ ctl' = "launching" /\ binaries' = binaries \ {currentBinary}
          /\ UNCHANGED <<building, child, currentBinary, buildGeneration>>
      BY <1>6 DEF OldChildGone
    <2>2. building' = FALSE /\ child # 0
      BY <1>0, <2>1 DEF ShutdownInv, TypeOK, FlagsOK, ChildInv
    <2>3. buildGeneration \in binaries'
      <3>1. buildGeneration \in binaries /\ currentBinary < buildGeneration
        BY <2>1, <2>2 DEF CandidateInv
      <3>. QED BY <1>0, <2>1, <3>1 DEF TypeOK
    <2>. QED BY <1>0, <2>1, <2>2, <2>3, CandidateQuiet
  <1>7. ASSUME Launch PROVE CandidateInv'
    <2>1. /\ ctl = "launching" /\ ctl' = "launched" /\ UNCHANGED <<building, buildGeneration, binaries>>
          /\ \/ currentBinary' = buildGeneration
             \/ child' = 0 /\ currentBinary' = 0
      BY <1>7 DEF Launch
    <2>2. building' = FALSE /\ buildGeneration \in binaries
      BY <1>0, <2>1 DEF ShutdownInv, TypeOK, FlagsOK, CandidateInv
    <2>. QED BY <1>0, <2>1, <2>2, CandidateQuiet
  <1>8. ASSUME Launched PROVE CandidateInv'
    <2>1. /\ ctl = "launched" /\ ctl' = "loop" /\ UNCHANGED <<child, currentBinary, binaries, events>>
      BY <1>8 DEF Launched
    <2>2. ~building /\ FinishedBuilds' = {} /\ (child # 0 => currentBinary \in binaries)
      BY <1>0, <2>1 DEF ShutdownInv, BuildsNeverOverlap, FinishedBuilds, CandidateInv, BinaryKept
    <2>3. CASE StartBuild
      BY <1>0, <2>1, <2>2, <2>3, CandidateFresh
    <2>4. CASE building' = FALSE /\ UNCHANGED buildGeneration
      BY <1>0, <2>1, <2>2, <2>4, CandidateQuiet
    <2>. QED BY <1>8, <2>3, <2>4 DEF Launched, RebuildIfPending
  <1>9. ASSUME OnChildExited PROVE CandidateInv'
    <2>1. /\ Receive("childExited") /\ ctl = "loop" /\ UNCHANGED <<ctl, building, builder, buildGeneration, binaries>>
          /\ UNCHANGED <<child, currentBinary>> \/ (child' = 0 /\ currentBinary' = 0)
      BY <1>9 DEF OnChildExited, Receive
    <2>2. GoodBuildWaits' => GoodBuildWaits
      BY <1>0, <2>1, GoodBuildTail
    <2>3. CASE UNCHANGED <<child, currentBinary>>
      BY <2>1, <2>2, <2>3, CandidateFrame
    <2>4. CASE child' = 0 /\ currentBinary' = 0
      <3>1. currentBinary' <= buildGeneration'
        BY <1>0, <2>1, <2>4 DEF TypeOK
      <3>. QED BY <2>1, <2>2, <2>4, <3>1 DEF CandidateInv, BinaryKept
    <2>. QED BY <2>1, <2>3, <2>4
  <1>10. ASSUME OnStopRequested PROVE CandidateInv'
    <2>1. /\ Receive("stopRequested") /\ ctl = "loop"
          /\ UNCHANGED <<building, builder, buildGeneration, child, currentBinary>>
          /\ \/ ctl' = "stopping" /\ UNCHANGED binaries
             \/ UNCHANGED <<ctl, binaries>>
             \/ ~building /\ ctl' = "closing"
      BY <1>10 DEF OnStopRequested, Receive, FinishShutdown
    <2>2. GoodBuildWaits' => GoodBuildWaits
      BY <1>0, <2>1, GoodBuildTail
    <2>3. CASE ctl' = "stopping" /\ UNCHANGED binaries
      BY <2>1, <2>2, <2>3 DEF CandidateInv, BinaryKept
    <2>4. CASE UNCHANGED <<ctl, binaries>>
      BY <2>1, <2>2, <2>4, CandidateFrame
    <2>5. CASE ~building /\ ctl' = "closing"
      <3>1. building' = FALSE
        BY <1>0, <2>1, <2>5 DEF TypeOK, FlagsOK
      <3>. QED BY <1>0, <2>1, <2>5, <3>1, CandidateQuiet
    <2>. QED BY <2>1, <2>3, <2>4, <2>5
  <1>11. ASSUME ChildStopped PROVE CandidateInv'
    <2>1. /\ ctl = "stopping" /\ child' = 0 /\ currentBinary' = 0
          /\ UNCHANGED <<building, builder, buildGeneration, events>>
          /\ \/ building /\ ctl' = "loop" /\ binaries' = binaries \ {currentBinary}
             \/ ~building /\ ctl' = "closing"
      BY <1>11 DEF ChildStopped, FinishShutdown
    <2>2. CASE building /\ ctl' = "loop" /\ binaries' = binaries \ {currentBinary}
      <3>1. child # 0 /\ buildGeneration \in Nat /\ currentBinary \in Nat
        BY <1>0, <2>1 DEF ChildInv, TypeOK
      <3>2. currentBinary # buildGeneration
        BY <2>2, <3>1 DEF CandidateInv
      <3>3. currentBinary' <= buildGeneration'
        BY <2>1, <3>1
      <3>. QED BY <2>1, <2>2, <3>2, <3>3 DEF CandidateInv, BinaryKept, GoodBuildWaits, FinishedBuilds
    <2>3. CASE ~building /\ ctl' = "closing"
      <3>1. building' = FALSE
        BY <1>0, <2>1, <2>3 DEF TypeOK, FlagsOK
      <3>. QED BY <1>0, <2>1, <2>3, <3>1, CandidateQuiet
    <2>. QED BY <2>1, <2>2, <2>3
  <1>12. ASSUME CloseWatcher \/ runDevReturns PROVE CandidateInv'
    <2>1. /\ ctl \in {"closing", "closed"} /\ ctl' \in {"closed", "gone"}
          /\ UNCHANGED <<building, builder, buildGeneration, events, child, currentBinary, binaries>>
      BY <1>12 DEF CloseWatcher, runDevReturns
    <2>. QED BY <2>1 DEF CandidateInv, BinaryKept, GoodBuildWaits, FinishedBuilds
  <1>13. ASSUME GraceExpires PROVE CandidateInv'
    BY <1>13, CandidateFrame DEF GraceExpires, GoodBuildWaits, FinishedBuilds
  <1>. QED BY <1>1, <1>2, <1>3, <1>4, <1>5, <1>6, <1>7, <1>8, <1>9, <1>10, <1>11, <1>12, <1>13 DEF Loop

\* Nobody else touches a candidate.
LEMMA CandidateOthers ==
    ASSUME TypeOK, CandidateInv, Disk \/ Watcher \/ Children \/ Stopping PROVE CandidateInv'
  <1>. USE DEF loopVars, osVars, buildVars, notWatcher, notStop
  <1>1. ASSUME NEW e, e.kind # "buildFinished", Enqueue(e) \/ UNCHANGED events
        PROVE  GoodBuildWaits' => GoodBuildWaits
    BY <1>1, GoodBuildAppend DEF GoodBuildWaits, FinishedBuilds
  <1>2. ASSUME Disk \/ Watcher PROVE CandidateInv'
    <2>1. Enqueue(SourceChanged) \/ UNCHANGED events
      BY <1>2 DEF Disk, Save, Remove, Watcher, Poll, Debounced, Report, applyPathSet, WatcherReturns
    <2>2. SourceChanged.kind # "buildFinished"
      BY DEF SourceChanged
    <2>3. UNCHANGED <<currentBinary, buildGeneration, child, building, builder, ctl, binaries>>
      BY <1>2 DEF Disk, Watcher
    <2>. QED BY <1>1, <2>1, <2>2, <2>3, CandidateFrame
  <1>3. ASSUME Children PROVE CandidateInv'
    <2>1. PICK g \in DOMAIN procs : ChildEnds(g) \/ ChildReaped(g) \/ ExitReported(g)
      BY <1>3 DEF Children
    <2>2. /\ UNCHANGED <<currentBinary, buildGeneration, child, building, builder, ctl, binaries>>
          /\ Enqueue(ChildExited(g)) \/ UNCHANGED events
      BY <2>1 DEF ChildEnds, ChildReaped, ExitReported
    <2>3. ChildExited(g).kind # "buildFinished"
      BY DEF ChildExited
    <2>. QED BY <1>1, <2>2, <2>3, CandidateFrame
  <1>4. ASSUME Stopping PROVE CandidateInv'
    <2>1. PICK s \in Stoppers :
            RequestStop(s) \/ SendStop(s) \/ StopAnswered(s) \/ ClientFindsNobody(s)
      BY <1>4 DEF Stopping
    <2>2. Enqueue(StopRequested(s)) \/ UNCHANGED events
      BY <2>1 DEF RequestStop, SendStop, StopAnswered, ClientFindsNobody
    <2>3. StopRequested(s).kind # "buildFinished"
      BY DEF StopRequested
    <2>4. GoodBuildWaits' => GoodBuildWaits
      BY <1>1, <2>2, <2>3
    <2>5. /\ UNCHANGED <<currentBinary, buildGeneration, child, building, builder, binaries>>
          /\ UNCHANGED ctl \/ ctl' = "gone"
      BY <2>1 DEF RequestStop, SendStop, StopAnswered, ClientFindsNobody
    <2>. QED BY <2>4, <2>5 DEF CandidateInv, BinaryKept
  <1>. QED BY <1>2, <1>3, <1>4

\* The file the child was started from is there as long as the child is held:
\* neither a failed build nor a restart removes it.
THEOREM BinaryKeptAlways == Spec => []BinaryKept
  <1>1. Init => CandidateInv
    <2>1. ASSUME Init PROVE /\ currentBinary = 0 /\ buildGeneration = 0 /\ child = 0 /\ ctl = "boot"
                            /\ builder.state = "idle" /\ FinishedBuilds = {}
      BY <2>1 DEF Init, WatcherInit, IdleBuild, FinishedBuilds
    <2>. QED BY <2>1 DEF CandidateInv, BinaryKept, GoodBuildWaits
  <1>2. SessionInv /\ SessionInv' /\ CandidateInv /\ [Next]_vars => CandidateInv'
    <2>. SUFFICES ASSUME SessionInv, SessionInv', CandidateInv, [Next]_vars PROVE CandidateInv'
      OBVIOUS
    <2>1. TypeOK /\ BuildsNeverOverlap /\ BuildsNeverOverlap'
      BY DEF SessionInv
    <2>2. CASE UNCHANGED vars
      BY <2>2, CandidateFrame DEF vars, loopVars, buildVars, osVars, GoodBuildWaits, FinishedBuilds
    <2>. QED BY <2>1, <2>2, CandidateBuilder, CandidateLoop, CandidateOthers DEF Next
  <1>3. CandidateInv => BinaryKept
    BY DEF CandidateInv
  <1>. QED BY <1>1, <1>2, <1>3, SessionInvariant, PTL DEF Spec
=============================================================================
