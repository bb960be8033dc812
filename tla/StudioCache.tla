----------------------------- MODULE StudioCache -----------------------------
(***************************************************************************)
(* Concurrent processes that unpack the bundled Studio into the directory  *)
(* they share (internal/studio/materialize.go).                            *)
(*                                                                         *)
(* The directory is absent, damaged (studioReady refuses it: files are     *)
(* missing or it is of another version), whole, or hollow: files are gone  *)
(* but the two that studioReady looks at are not among them yet. The lock  *)
(* is a file that exists or not, removed by name.                          *)
(***************************************************************************)
EXTENDS Naturals

CONSTANTS
    Processes,
    NoProcess

ASSUME StudioAssumption == NoProcess \notin Processes

VARIABLES
    at,         \* per process: where Materialize is
    outcome,    \* per process: what it returns
    late,       \* processes whose ten seconds in lockDir have passed
    lock,       \* the process that created the lock file, if there is one
    studio,     \* the directory
    overtaken   \* the lock of a live holder has been removed

studioVars == <<at, outcome, late, lock, studio, overtaken>>

StudioInit ==
    /\ at = [p \in Processes |-> "check"]
    /\ outcome = [p \in Processes |-> "none"]
    /\ late = {}
    /\ lock = NoProcess
    /\ studio \in {"absent", "damaged"}
    /\ overtaken = FALSE

Proceed(p, where) == at' = [at EXCEPT ![p] = where]
Outcome(p, what) == outcome' = [outcome EXCEPT ![p] = what]

studioReady == studio \in {"whole", "hollow"}

\* Mutant: the directory is not looked at again under the lock.
LockedOnly(p) ==
    /\ at[p] = "recheck"
    /\ Proceed(p, "stage")
    /\ UNCHANGED <<outcome, late, lock, studio, overtaken>>

-----------------------------------------------------------------------------
\* The check without the lock.
Check(p) ==
    /\ at[p] = "check"
    /\ IF studioReady THEN Proceed(p, "end") /\ Outcome(p, "dest")
                      ELSE Proceed(p, "lock") /\ UNCHANGED outcome
    /\ UNCHANGED <<late, lock, studio, overtaken>>

\* lockDir: the exclusive create succeeds, finds the file, or fails otherwise
\* (so may MkdirAll before it).
TryLock(p) ==
    /\ at[p] = "lock"
    /\ \/ lock = NoProcess /\ lock' = p /\ Proceed(p, "recheck") /\ UNCHANGED outcome
       \/ lock # NoProcess /\ Proceed(p, "exists") /\ UNCHANGED <<lock, outcome>>
       \/ Proceed(p, "end") /\ Outcome(p, "error") /\ UNCHANGED lock
    /\ UNCHANGED <<late, studio, overtaken>>

\* The deadline, which is never set again.
DeadlinePasses(p) ==
    /\ at[p] \in {"lock", "exists"} /\ p \notin late
    /\ late' = late \cup {p}
    /\ UNCHANGED <<at, outcome, lock, studio, overtaken>>

\* The file existed: before the deadline p sleeps, after it p removes whatever
\* lock is there by now. Both try again.
Retry(p) ==
    /\ at[p] = "exists"
    /\ Proceed(p, "lock")
    /\ IF p \in late
         THEN /\ overtaken' = (overtaken \/ (lock # NoProcess /\ at[lock] # "crashed"))
              /\ lock' = NoProcess
         ELSE UNCHANGED <<lock, overtaken>>
    /\ UNCHANGED <<outcome, late, studio>>

\* The check under the lock.
Recheck(p) ==
    /\ at[p] = "recheck"
    /\ IF studioReady THEN Proceed(p, "unlock") /\ Outcome(p, "dest")
                      ELSE Proceed(p, "stage") /\ UNCHANGED outcome
    /\ UNCHANGED <<late, lock, studio, overtaken>>

\* MkdirTemp, extractBundle and the stamp: a directory of p's own.
extractBundle(p) ==
    /\ at[p] = "stage"
    /\ \/ Proceed(p, "remove") /\ UNCHANGED outcome
       \/ Proceed(p, "unlock") /\ Outcome(p, "error")
    /\ UNCHANGED <<late, lock, studio, overtaken>>

\* os.RemoveAll takes the files away one after another ...
RemoveSome(p) ==
    /\ at[p] = "remove"
    /\ studio' \in CASE studio = "whole"  -> {"hollow", "damaged"}
                     [] studio = "hollow" -> {"damaged"}
                     [] OTHER             -> {}
    /\ UNCHANGED <<at, outcome, late, lock, overtaken>>

\* ... and ends with the directory itself, or with an error nobody looks at.
RemoveAll(p) ==
    /\ at[p] = "remove"
    /\ Proceed(p, "rename")
    /\ \/ studio \in {"absent", "damaged"} /\ studio' = "absent"
       \/ UNCHANGED studio
    /\ UNCHANGED <<outcome, late, lock, overtaken>>

\* os.Rename puts the staged directory there, if nothing is.
Publish(p) ==
    /\ at[p] = "rename"
    /\ Proceed(p, "unlock")
    /\ IF studio = "absent" THEN studio' = "whole" /\ Outcome(p, "dest")
                            ELSE Outcome(p, "error") /\ UNCHANGED studio
    /\ UNCHANGED <<late, lock, overtaken>>

\* unlockDir removes the lock file by its name, whoever's it is.
unlockDir(p) ==
    /\ at[p] = "unlock"
    /\ lock' = NoProcess
    /\ Proceed(p, "end")
    /\ UNCHANGED <<outcome, late, studio, overtaken>>

\* The process is killed: its lock file stays.
Killed(p) ==
    /\ at[p] \notin {"end", "crashed"}
    /\ Proceed(p, "crashed")
    /\ UNCHANGED <<outcome, late, lock, studio, overtaken>>

StudioStep(p) ==
    \/ Check(p) \/ TryLock(p) \/ DeadlinePasses(p) \/ Retry(p) \/ Recheck(p)
    \/ extractBundle(p) \/ RemoveSome(p) \/ RemoveAll(p) \/ Publish(p)
    \/ unlockDir(p) \/ Killed(p)

StudioNext == \E p \in Processes : StudioStep(p)

StudioSpec == StudioInit /\ [][StudioNext]_studioVars

-----------------------------------------------------------------------------
\* Type invariant.
StudioTypes ==
    /\ at \in [Processes -> {"check", "lock", "exists", "recheck", "stage", "remove", "rename",
                             "unlock", "end", "crashed"}]
    /\ outcome \in [Processes -> {"none", "dest", "error"}]
    /\ late \subseteq Processes
    /\ lock \in Processes \cup {NoProcess}
    /\ studio \in {"absent", "damaged", "whole", "hollow"}
    /\ overtaken \in BOOLEAN

\* The directory Materialize answers with holds the whole Studio and keeps it,
\* however many processes unpack, fail or are killed beside it, until one that
\* has waited ten seconds removes the lock of a process that is still at work.
StudioKept == (\E p \in Processes : outcome[p] = "dest") => studio = "whole" \/ overtaken
==============================================================================
