---------------------------- MODULE CronScheduler ----------------------------
(***************************************************************************)
(* Scheduler.add, Scheduler.run and Scheduler.stop of the Cron module      *)
(* (ahdruntime/cron.go). A run waits for the earliest occurrence, runs     *)
(* every due job once in registration order, and repeats. The wall clock   *)
(* is the environment's: it may stand still, jump ahead (a suspended       *)
(* machine) or be set back, during a wait and during a task.               *)
(*                                                                         *)
(* A schedule is the set of instants at which it occurs; instants without  *)
(* an occurrence are the seconds between minutes. Horizon is the last      *)
(* instant there is, as the year 9999 is for the search in the code.       *)
(*                                                                         *)
(* Two readings of time.Now() are compared by the monotonic clock they     *)
(* carry, so the later reading is "after" the earlier one even when the    *)
(* wall clock was set back between them. Occurrences come out of Time.In   *)
(* and time.Date, which drop the monotonic reading; against them the wall  *)
(* clock counts.                                                           *)
(***************************************************************************)
EXTENDS Naturals, Sequences, FiniteSetsExt

CONSTANTS
    Schedules,   \* a sequence of schedules, in the order the program adds them
    Horizon,
    MaxSetBacks  \* how often the wall clock may be set back

Instants == 1..Horizon
All == DOMAIN Schedules

ASSUME CronAssumption ==
    /\ Horizon \in Nat /\ MaxSetBacks \in Nat
    /\ Schedules \in Seq(SUBSET Instants)

VARIABLES
    clock,     \* the wall clock
    setBacks,  \* how often it was set back
    count,     \* len(scheduler.jobs): jobs 1..count are registered
    pc,        \* "off", "wait", "woken", "pass" or "task"
    stopping,  \* scheduler.stopping; the stop channel is closed with it
    latest,    \* the latest time this run has seen
    next,      \* per job: job.next, 0 outside a run
    cursor,    \* the job the pass is at, 0 outside a pass
    ran,       \* per job: the occurrences this run has run it for
    ended      \* per job: the clock when its last task of this run returned

cronVars == <<clock, setBacks, count, pc, stopping, latest, next, cursor, ran, ended>>

Zero == [j \in All |-> 0]

CronInit ==
    /\ clock \in {0, 1} /\ setBacks = 0
    /\ count = 0
    /\ pc = "off" /\ stopping = FALSE
    /\ latest = 0 /\ cursor = 0
    /\ next = Zero /\ ended = Zero
    /\ ran = [j \in All |-> {}]

-----------------------------------------------------------------------------
jobs == 1..count

Later(j, after) == {t \in Schedules[j] : t > after}

\* Mutant: an occurrence at the very instant counts as the next one.
NotStrict(j, after) == LET s == {t \in Schedules[j] : t >= after} IN IF s = {} THEN 0 ELSE Min(s)

\* schedule.next: the first occurrence strictly after; 0 when the search fails
\* and CronError is raised.
NextOccurrence(j, after) == IF Later(j, after) = {} THEN 0 ELSE Min(Later(j, after))

\* "if now := clock.now(); now.After(latest) { latest = now }": the monotonic
\* readings always say yes.
Seen == clock

\* run returns, or an error propagates out of it; the deferred reset.
Returns ==
    /\ pc' = "off" /\ stopping' = FALSE
    /\ latest' = 0 /\ cursor' = 0
    /\ next' = Zero /\ ended' = Zero
    /\ ran' = [j \in All |-> {}]

-----------------------------------------------------------------------------
\* Scheduler.add; while the Scheduler runs it raises and changes nothing.
Add ==
    /\ pc = "off" /\ count + 1 \in All
    /\ count' = count + 1
    /\ UNCHANGED <<clock, setBacks, pc, stopping, latest, next, cursor, ran, ended>>

\* Scheduler.run; it raises when there are no jobs, when it already runs, and
\* when some job has no occurrence left.
Run ==
    /\ pc = "off" /\ count > 0
    /\ \A j \in jobs : NextOccurrence(j, clock) # 0
    /\ pc' = "wait"
    /\ latest' = clock
    /\ next' = [j \in All |-> IF j \in jobs THEN NextOccurrence(j, clock) ELSE 0]
    /\ UNCHANGED <<clock, setBacks, count, stopping, cursor, ran, ended>>

\* Scheduler.stop, from a task or from another goroutine.
Stop ==
    /\ pc # "off" /\ ~stopping
    /\ stopping' = TRUE
    /\ UNCHANGED <<clock, setBacks, count, pc, latest, next, cursor, ran, ended>>

Due == Min({next[j] : j \in jobs})

\* Time has come for the earliest job.
Wake ==
    /\ pc = "wait" /\ clock >= Due
    /\ pc' = "woken"
    /\ UNCHANGED <<clock, setBacks, count, stopping, latest, next, cursor, ran, ended>>

\* The clock is read once more, and a pass over all jobs begins.
BeginPass ==
    /\ pc = "woken"
    /\ pc' = "pass" /\ cursor' = 1
    /\ latest' = Seen
    /\ UNCHANGED <<clock, setBacks, count, stopping, next, ran, ended>>

\* Mutant: a wait cannot be interrupted.
Uninterrupted == FALSE

StopEndsWait == stopping

\* clock.wait reports that the stop channel was closed.
WaitStopped ==
    /\ pc = "wait" /\ clock < Due /\ StopEndsWait
    /\ Returns
    /\ UNCHANGED <<clock, setBacks, count>>

\* The pass moves on to the next job, or back to waiting.
Onward ==
    IF cursor = count
      THEN pc' = "wait" /\ cursor' = 0
      ELSE pc' = "pass" /\ cursor' = cursor + 1

SkipJob ==
    /\ pc = "pass" /\ next[cursor] > latest
    /\ Onward
    /\ UNCHANGED <<clock, setBacks, count, stopping, latest, next, ran, ended>>

stopRequested == stopping

StopBeforeTask ==
    /\ pc = "pass" /\ next[cursor] <= latest /\ stopRequested
    /\ Returns
    /\ UNCHANGED <<clock, setBacks, count>>

StartTask ==
    /\ pc = "pass" /\ next[cursor] <= latest /\ ~stopRequested
    /\ pc' = "task"
    /\ ran' = [ran EXCEPT ![cursor] = @ \cup {next[cursor]}]
    /\ UNCHANGED <<clock, setBacks, count, stopping, latest, next, cursor, ended>>

\* The task raises, or returns after a stop: the run ends.
TaskEndsRun ==
    /\ pc = "task"
    /\ Returns
    /\ UNCHANGED <<clock, setBacks, count>>

\* Mutant: the next occurrence is counted from the one that was just run.
FromOccurrence == next[cursor]

From == Seen

\* The task returns and the run goes on; a job without a further occurrence
\* raises CronError, as in TaskEndsRun.
TaskReturns ==
    /\ pc = "task" /\ ~stopping
    /\ NextOccurrence(cursor, From) # 0
    /\ latest' = Seen
    /\ next' = [next EXCEPT ![cursor] = NextOccurrence(cursor, From)]
    /\ ended' = [ended EXCEPT ![cursor] = clock]
    /\ Onward
    /\ UNCHANGED <<clock, setBacks, count, stopping, ran>>

\* The wall clock is read again after any adjustment.
ClockMoves ==
    /\ clock' \in Instants \ {clock}
    /\ setBacks' = IF clock' < clock THEN setBacks + 1 ELSE setBacks
    /\ setBacks' <= MaxSetBacks
    /\ UNCHANGED <<count, pc, stopping, latest, next, cursor, ran, ended>>

-----------------------------------------------------------------------------
LoopStep == Wake \/ BeginPass \/ WaitStopped \/ SkipJob \/ StopBeforeTask \/ StartTask

TaskStep == TaskReturns \/ TaskEndsRun

CronNext == Add \/ Run \/ Stop \/ LoopStep \/ TaskStep \/ ClockMoves

CronSpec == CronInit /\ [][CronNext]_cronVars

\* The scheduler's goroutine runs on, and tasks return.
CronFairSpec == CronSpec /\ WF_cronVars(LoopStep) /\ WF_cronVars(TaskStep)

-----------------------------------------------------------------------------
\* Type invariant.
CronTypes ==
    /\ clock \in 0..Horizon /\ latest \in 0..Horizon
    /\ setBacks \in 0..MaxSetBacks
    /\ count \in 0..Max({0} \cup All)
    /\ pc \in {"off", "wait", "woken", "pass", "task"}
    /\ stopping \in BOOLEAN
    /\ next \in [All -> 0..Horizon] /\ ended \in [All -> 0..Horizon]
    /\ ran \in [All -> SUBSET Instants]
    /\ IF pc \in {"pass", "task"} THEN cursor \in jobs ELSE cursor = 0

\* docs/CRON.md, Lifecycle: "A wall clock that moves backwards never makes an
\* occurrence run a second time"; run's comment: "no occurrence ever runs
\* twice". Between tasks, what a job waits for it has not run yet.
NeverTwice == \A j \in All : pc \in {"wait", "pass"} => next[j] \notin ran[j]

\* What holds of it: as long as nobody sets the wall clock back, no occurrence
\* runs twice, however long tasks take and however far the clock jumps ahead.
OncePerOccurrence == setBacks = 0 => NeverTwice

\* Occurrences that pass while a job's own task is running are skipped: a job
\* never starts for an occurrence that lay in the past when it last returned.
NotQueued ==
    [][\A j \in All : pc = "pass" /\ pc' = "task" /\ cursor = j => next[j] > ended[j]]_cronVars

\* A stopped run returns, from a wait and from a pass alike.
StopEndsRun == stopping ~> pc = "off"
=============================================================================
