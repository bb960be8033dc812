----------------------------- MODULE DevWatcher -----------------------------
(***************************************************************************)
(* The polling source watcher of `ahdcode dev` (cmd/ahdcode/devwatch.go)   *)
(* and the part of the disk it looks at.  The watcher is one goroutine: it *)
(* polls the files it tracks, debounces what it sees, and reports one      *)
(* "source changed" event on the controller's bounded event channel.       *)
(*                                                                         *)
(* A file is its version: 0 while it does not exist, otherwise the number  *)
(* of the save that wrote it, which stands for the (mtime, size) pair that *)
(* os.Stat returns.  The entry file also has the set of files that its     *)
(* require(...) lines name.                                                *)
(***************************************************************************)
EXTENDS Integers, Sequences, FiniteSets

CONSTANTS
    Files,      \* the source files of the project
    Entry,      \* the entry module, always tracked
    Cap,        \* capacity of the controller's event channel (8 in the code)
    MaxSaves    \* bound: how many times the user writes or removes a file

ASSUME WatcherAssumption ==
    /\ Entry \in Files
    /\ IsFiniteSet(Files)
    /\ Cap \in Nat \ {0}
    /\ MaxSaves \in Nat

VARIABLES
    disk,       \* version of every file, 0 when it is missing
    requires,   \* the files named by require(...) in the entry's text
    saves,      \* how many times the user has touched the disk
    snapshots,  \* devWatcher.snapshots: tracked file -> last version seen
    setPaths,   \* devWatcher.setPaths: channel of capacity one
    changedAt,  \* whether a change is waiting for its debounce to pass
    watcher,    \* where the watcher goroutine is: select, sending, done
    stopped,    \* devWatcher.stop is closed
    events      \* the controller's event channel, oldest first

diskVars    == <<disk, requires, saves>>
watcherVars == <<snapshots, setPaths, changedAt, watcher, stopped>>

Versions == 0..MaxSaves + 1

SourceChanged == [kind |-> "sourceChanged"]

\* Room for a blocking send, and the send itself.
CanSend    == Len(events) < Cap
Enqueue(e) == events' = Append(events, e)

-----------------------------------------------------------------------------
(* The user's editor. *)

\* A save, in place or by rename: the file exists with a version of its own.
\* A save of the entry may change which files it requires.
Save(f) ==
    /\ saves < MaxSaves
    /\ saves' = saves + 1
    /\ disk' = [disk EXCEPT ![f] = saves + 2]
    /\ \/ f = Entry /\ requires' \in SUBSET (Files \ {Entry})
       \/ f # Entry /\ UNCHANGED requires
    /\ UNCHANGED <<watcherVars, events>>

\* A file disappears: removed, or the gap inside an atomic rename.
Remove(f) ==
    /\ saves < MaxSaves
    /\ disk[f] # 0
    /\ saves' = saves + 1
    /\ disk' = [disk EXCEPT ![f] = 0]
    /\ UNCHANGED <<requires, watcherVars, events>>

-----------------------------------------------------------------------------
(* The watcher goroutine. *)

\* newDevWatcher: the entry's baseline is taken before anything is built.
WatcherInit ==
    /\ disk \in [Files -> {0, 1}]
    /\ requires \in SUBSET (Files \ {Entry})
    /\ saves = 0
    /\ snapshots = [f \in {Entry} |-> disk[f]]
    /\ setPaths = <<>>
    /\ changedAt = FALSE
    /\ watcher = "select"
    /\ stopped = FALSE
    /\ events = <<>>

Tracked   == DOMAIN snapshots
Different == {f \in Tracked : disk[f] # snapshots[f]}

\* A tick whose pollChanges finds differences.  A file that went missing is
\* recorded but is not a change.
Poll ==
    /\ watcher = "select"
    /\ Different # {}
    /\ snapshots' = [f \in Tracked |-> disk[f]]
    /\ changedAt' = (changedAt \/ \E f \in Different : disk[f] # 0)
    /\ UNCHANGED <<diskVars, setPaths, watcher, stopped, events>>

\* A tick that finds nothing new, the debounce interval after a change.
Debounced ==
    /\ watcher = "select"
    /\ changedAt
    /\ Different = {}
    /\ changedAt' = FALSE
    /\ watcher' = "sending"
    /\ UNCHANGED <<diskVars, snapshots, setPaths, stopped, events>>

\* The blocking send of the change; while it blocks nothing is polled.
Report ==
    /\ watcher = "sending"
    /\ CanSend
    /\ Enqueue(SourceChanged)
    /\ watcher' = "select"
    /\ UNCHANGED <<diskVars, snapshots, setPaths, changedAt, stopped>>

\* A tracked path keeps its snapshot, a new one gets a baseline of its own.
applyPathSet ==
    /\ watcher = "select"
    /\ setPaths # <<>>
    /\ snapshots' = [f \in Head(setPaths) |->
                        IF f \in Tracked THEN snapshots[f] ELSE disk[f]]
    /\ setPaths' = <<>>
    /\ UNCHANGED <<diskVars, changedAt, watcher, stopped, events>>

\* Both selects of the loop leave when stop is closed.
WatcherReturns ==
    /\ watcher \in {"select", "sending"}
    /\ stopped
    /\ watcher' = "done"
    /\ UNCHANGED <<diskVars, snapshots, setPaths, changedAt, stopped, events>>

\* setPathsAsync, called by the event loop: the newest set replaces one that
\* was not picked up yet.
setPathsAsync(paths) == setPaths' = <<paths>>

\* close: the stop channel is closed (the caller then waits for "done").
closeWatcher == stopped' = TRUE
=============================================================================
