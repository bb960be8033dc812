---------------------------- MODULE RouteRegistry ----------------------------
(***************************************************************************)
(* The registry of local `.test` names (internal/localdev) and the dev     *)
(* sessions that share it: claiming the descriptor of a source, publishing *)
(* it, Allocate and Release under the lock file of withLock, and the end   *)
(* of a session, clean or not.  Every session here prefers the same name;  *)
(* a name is the index of SuffixHostname.                                  *)
(***************************************************************************)
EXTENDS Integers, FiniteSets, FiniteSetsExt

CONSTANTS
    Sessions,     \* `ahdcode dev` processes, each started once
    Sources,      \* descriptor paths
    SourceOf,     \* the descriptor path of a session
    NoSession,
    MaxSuffix     \* maxHostnameSuffix, 999 in the code

ASSUME RegistryAssumption ==
    /\ IsFiniteSet(Sessions)
    /\ NoSession \notin Sessions
    /\ SourceOf \in [Sessions -> Sources]
    /\ MaxSuffix \in Nat

VARIABLES
    life,      \* per session: where its process is
    desc,      \* per path: the session the descriptor names
    lock,      \* the lock file: the process that created it
    lockOld,   \* its modification time is more than lockStaleAfter ago
    at,        \* per session: its place in withLock and the action under it
    routes,    \* the registry file: who has each name
    mem,       \* per session: the routes it read and kept
    todo,      \* per session: the routes it has not looked at yet
    got,       \* per session: the name Allocate gave it
    company,   \* per session: who was running when it took the lock
    mishap     \* one of the three mishaps below has happened

vars == <<life, desc, lock, lockOld, at, routes, mem, todo, got, company, mishap>>

Hosts     == 0..MaxSuffix
NotAsked  == -1
Refused   == -2
Released  == -3     \* or of no more use to a process that ends
SomeOf    == Sessions \cup {NoSession}
Empty     == [h \in Hosts |-> NoSession]

Lives  == {"new", "claimed", "up", "stopping", "removing", "gone"}
Places == {"out", "try", "stat", "break", "load", "check", "unlock"}

\* The process is there, and so is its control channel.
Alive(s) == life[s] \in {"claimed", "up", "stopping", "removing"}

\* localRouteIsLive: the descriptor names this very session and it answers.
Live(s) == desc[SourceOf[s]] = s /\ Alive(s)

Serving(s) == life[s] = "up" /\ got[s] \in Hosts
Others(s)  == {t \in Sessions : t # s /\ SourceOf[t] = SourceOf[s]}

Init ==
    /\ life = [s \in Sessions |-> "new"]
    /\ desc = [p \in Sources |-> NoSession]
    /\ lock = NoSession
    /\ lockOld = FALSE /\ mishap = FALSE
    /\ at = [s \in Sessions |-> "out"]
    /\ routes = Empty
    /\ mem = [s \in Sessions |-> Empty]
    /\ todo = [s \in Sessions |-> {}]
    /\ got = [s \in Sessions |-> NotAsked]
    /\ company = [s \in Sessions |-> {}]

\* Three windows of the code through which one session can harm another: two
\* starts on one source claim it together, `ahdcode stop` gives up on a session
\* that is still ending and removes its descriptor, and a waiter breaks the lock
\* of a process that is alive.
Mishap(here) == mishap' = (mishap \/ here)

lockVars  == <<lock, lockOld, mishap>>
tableVars == <<routes, mem, todo, company>>

-----------------------------------------------------------------------------
(* The session around the registry. *)

\* claimDevFile: refused when the descriptor names a session that answers.
Taken(p) == desc[p] # NoSession /\ Alive(desc[p])

Claim(s) ==
    /\ life[s] = "new"
    /\ Mishap(\E t \in Others(s) : life[t] = "claimed")
    /\ life' = [life EXCEPT ![s] = IF Taken(SourceOf[s]) THEN "gone" ELSE "claimed"]
    /\ UNCHANGED <<desc, lock, lockOld, at, tableVars, got>>

publishDescriptor(s) ==
    /\ life[s] = "claimed"
    /\ life' = [life EXCEPT ![s] = "up"]
    /\ desc' = [desc EXCEPT ![SourceOf[s]] = s]
    /\ UNCHANGED <<lockVars, at, tableVars, got>>

\* establishLocalRoute: once, when the first Web child runs.
establishLocalRoute(s) ==
    /\ life[s] = "up"
    /\ got[s] = NotAsked
    /\ at[s] = "out"
    /\ at' = [at EXCEPT ![s] = "try"]
    /\ UNCHANGED <<life, desc, lockVars, tableVars, got>>

\* finishShutdown: releaseLocalRoute, when there is a route to release, ...
BeginStop(s) ==
    /\ life[s] = "up"
    /\ at[s] = "out"
    /\ life' = [life EXCEPT ![s] = "stopping"]
    /\ at' = [at EXCEPT ![s] = IF got[s] \in Hosts THEN "try" ELSE "out"]
    /\ UNCHANGED <<desc, lockVars, tableVars, got>>

\* ... then removeOwnDevDescriptor: read it, and remove it if it is ours.
readOwnDevDescriptor(s) ==
    /\ life[s] = "stopping"
    /\ at[s] = "out"
    /\ life' = [life EXCEPT ![s] = IF desc[SourceOf[s]] = s
                                   THEN "removing" ELSE "gone"]
    /\ got' = [got EXCEPT ![s] = Released]
    /\ UNCHANGED <<desc, lockVars, at, tableVars>>

removeOwnDevDescriptor(s) ==
    /\ life[s] = "removing"
    /\ desc' = [desc EXCEPT ![SourceOf[s]] = NoSession]
    /\ life' = [life EXCEPT ![s] = "gone"]
    /\ UNCHANGED <<lockVars, at, tableVars, got>>

\* stopDevSession: no answer within the read deadline; the file goes.
StopClientGivesUp(s) ==
    /\ life[s] = "stopping"
    /\ desc[SourceOf[s]] = s
    /\ desc' = [desc EXCEPT ![SourceOf[s]] = NoSession]
    /\ Mishap(TRUE)
    /\ UNCHANGED <<life, lock, lockOld, at, tableVars, got>>

\* The closure's local variables end with it.
ForgetLocals(s) ==
    /\ mem' = [mem EXCEPT ![s] = Empty]
    /\ todo' = [todo EXCEPT ![s] = {}]
    /\ company' = [company EXCEPT ![s] = {}]

Crash(s) ==
    /\ Alive(s)
    /\ life' = [life EXCEPT ![s] = "gone"]
    /\ at' = [at EXCEPT ![s] = "out"]
    /\ got' = [got EXCEPT ![s] = Released]
    /\ ForgetLocals(s)
    /\ UNCHANGED <<desc, lockVars, routes>>

-----------------------------------------------------------------------------
(* withLock. *)

\* Mutant: the lock file is opened without O_EXCL.
NoExclusion == FALSE

\* O_CREATE|O_EXCL finds the file.
LockExists == lock # NoSession

OpenLock(s) ==
    /\ at[s] = "try"
    /\ IF LockExists
       THEN /\ at' = [at EXCEPT ![s] = "stat"]
            /\ UNCHANGED <<lockVars, company>>
       ELSE /\ at' = [at EXCEPT ![s] = "load"]
            /\ lock' = s
            /\ lockOld' = FALSE
            /\ company' = [company EXCEPT ![s] = {t \in Sessions : Alive(t)}]
            /\ UNCHANGED mishap
    /\ UNCHANGED <<life, desc, routes, mem, todo, got>>

LockIsStale == lock # NoSession /\ lockOld

SeesStaleLock(s) ==
    /\ at[s] = "stat"
    /\ LockIsStale
    /\ at' = [at EXCEPT ![s] = "break"]
    /\ UNCHANGED <<life, desc, lockVars, tableVars, got>>

SleepsAndRetries(s) ==
    /\ at[s] = "stat"
    /\ ~LockIsStale
    /\ at' = [at EXCEPT ![s] = "try"]
    /\ UNCHANGED <<life, desc, lockVars, tableVars, got>>

\* The deadline has passed: Allocate fails, Release gives up.
GivesUp(s) ==
    /\ at[s] = "stat"
    /\ ~LockIsStale
    /\ at' = [at EXCEPT ![s] = "out"]
    /\ got' = [got EXCEPT ![s] = IF life[s] = "up" THEN Refused ELSE Released]
    /\ UNCHANGED <<life, desc, lockVars, tableVars>>

\* Mutant: the lock file cannot be removed.
LeavesLock == UNCHANGED <<lock, lockOld>>

\* os.Remove(lockPath): whatever file is there by now.
RemoveLock == lock' = NoSession /\ lockOld' = FALSE

BreakLock(s) ==
    /\ at[s] = "break"
    /\ RemoveLock
    /\ Mishap(lock # NoSession /\ Alive(lock))
    /\ at' = [at EXCEPT ![s] = "try"]
    /\ UNCHANGED <<life, desc, tableVars, got>>

Unlock(s) ==
    /\ at[s] = "unlock"
    /\ RemoveLock
    /\ at' = [at EXCEPT ![s] = "out"]
    /\ UNCHANGED <<life, desc, tableVars, got, mishap>>

\* "A lock older than this belonged to a process that died holding it": 30 s
\* is far longer than any living process holds it.
LockAges ==
    /\ lock # NoSession /\ ~Alive(lock)
    /\ ~lockOld
    /\ lockOld' = TRUE
    /\ UNCHANGED <<life, desc, lock, mishap, at, tableVars, got>>

-----------------------------------------------------------------------------
(* What Allocate and Release do under the lock. *)

loadRoutes(s) ==
    /\ at[s] = "load"
    /\ at' = [at EXCEPT ![s] = "check"]
    /\ mem' = [mem EXCEPT ![s] = routes]
    /\ todo' = [todo EXCEPT ![s] = IF life[s] = "up"
                   THEN {h \in Hosts : routes[h] # NoSession} ELSE {}]
    /\ UNCHANGED <<life, desc, lockVars, routes, got, company>>

\* Mutant: a dead entry is kept.
KeepsDead(s, t) == SourceOf[t] = SourceOf[s]

\* Allocate does not keep an entry of its own descriptor, nor a dead one.
Dropped(s, t) == SourceOf[t] = SourceOf[s] \/ ~Live(t)

CheckRoute(s) ==
    /\ at[s] = "check"
    /\ todo[s] # {}
    /\ LET h == Min(todo[s])
       IN  /\ todo' = [todo EXCEPT ![s] = @ \ {h}]
           /\ mem' = [mem EXCEPT ![s][h] = IF Dropped(s, @) THEN NoSession ELSE @]
    /\ UNCHANGED <<life, desc, lockVars, at, routes, got, company>>

FreeHosts(s) == {h \in Hosts : mem[s][h] = NoSession}

\* The walk over SuffixHostname stops at the first name that is not taken.
Candidate(s) == Min(FreeHosts(s))

Allocate(s) ==
    /\ at[s] = "check"
    /\ life[s] = "up"
    /\ todo[s] = {}
    /\ at' = [at EXCEPT ![s] = "unlock"]
    /\ IF FreeHosts(s) = {}
       THEN /\ got' = [got EXCEPT ![s] = Refused]
            /\ UNCHANGED routes
       ELSE LET h == Candidate(s)
            IN  /\ got' = [got EXCEPT ![s] = h]
                /\ routes' = [mem[s] EXCEPT ![h] = s]
    /\ ForgetLocals(s)
    /\ UNCHANGED <<life, desc, lockVars>>

\* Release: the entry with this name and this descriptor, if there is one.
Release(s) ==
    /\ at[s] = "check"
    /\ life[s] = "stopping"
    /\ at' = [at EXCEPT ![s] = "unlock"]
    /\ got' = [got EXCEPT ![s] = Released]
    /\ LET owner == mem[s][got[s]]
       IN  routes' = IF owner # NoSession /\ SourceOf[owner] = SourceOf[s]
                     THEN [mem[s] EXCEPT ![got[s]] = NoSession]
                     ELSE routes
    /\ ForgetLocals(s)
    /\ UNCHANGED <<life, desc, lockVars>>

-----------------------------------------------------------------------------
LockStep(s) == \/ OpenLock(s) \/ SeesStaleLock(s) \/ SleepsAndRetries(s)
               \/ BreakLock(s) \/ Unlock(s)
               \/ loadRoutes(s) \/ CheckRoute(s) \/ Allocate(s) \/ Release(s)

Next ==
    \/ \E s \in Sessions :
          \/ Claim(s) \/ publishDescriptor(s) \/ establishLocalRoute(s)
          \/ BeginStop(s) \/ readOwnDevDescriptor(s) \/ removeOwnDevDescriptor(s)
          \/ StopClientGivesUp(s) \/ Crash(s)
          \/ LockStep(s) \/ GivesUp(s)
    \/ LockAges

Spec == Init /\ [][Next]_vars

\* A process that was scheduled goes on; the clock passes both the age of a
\* lock file and, between two polls, the deadline of the one who waits for it.
FairSpec ==
    /\ Spec
    /\ WF_vars(LockAges)
    /\ \A s \in Sessions : WF_vars(LockStep(s)) /\ SF_vars(GivesUp(s))

-----------------------------------------------------------------------------
(* Properties. *)

\* The state has the shape the Go types and the code's constants give it.
TypeOK ==
    /\ life \in [Sessions -> Lives]
    /\ desc \in [Sources -> SomeOf]
    /\ lock \in SomeOf
    /\ lockOld \in BOOLEAN /\ mishap \in BOOLEAN
    /\ at \in [Sessions -> Places]
    /\ routes \in [Hosts -> SomeOf]
    /\ mem \in [Sessions -> [Hosts -> SomeOf]]
    /\ todo \in [Sessions -> SUBSET Hosts]
    /\ got \in [Sessions -> Hosts \cup {NotAsked, Refused, Released}]
    /\ company \in [Sessions -> SUBSET Sessions]

\* Allocate: "two `ahdcode dev` starts racing for the same APP_HOST cannot both
\* observe the preferred name as free"; what two sessions are told they have is
\* different.
NamesDiffer ==
    \A s, t \in Sessions : s # t /\ Serving(s) /\ Serving(t) => got[s] # got[t]

\* A session that was granted a name still has it in the registry for as long
\* as it runs, and nobody else was told that it has that name: no Allocate,
\* Release, crash or restart of another takes it, also after processes died
\* with the lock in their hands, as long as there was no mishap.
RouteKept == ~mishap => \A s \in Sessions : Serving(s) => routes[got[s]] = s

\* Only the living push a session onto a suffix: every smaller name belonged,
\* when it took the lock, to a session of another source that was running.
\* Neither its own earlier entry nor a leftover of a crash counts. (After a
\* mishap it may meet a session that started while it held a broken lock.)
SuffixHasReason ==
    [][~mishap => \A s \in Sessions :
          got'[s] \in Hosts /\ got[s] = NotAsked =>
             \A h \in 0..(got'[s] - 1) :
                /\ mem[s][h] \in company[s]
                /\ SourceOf[mem[s][h]] # SourceOf[s]]_vars

\* A session never hangs in the registry: Allocate and Release return.
RegistryAnswers == \A s \in Sessions : (at[s] = "try") ~> (at[s] = "out")
=============================================================================
