------------------------------ MODULE RunCache ------------------------------
(***************************************************************************)
(* The cache of native executables that concurrent `ahdcode run` processes *)
(* share (internal/build/runcache.go, runExecutable in pipeline.go).       *)
(*                                                                         *)
(* Beside the directory itself stands the order of last use, the order in  *)
(* which prune sorts what it lists. Size and count limit are one bound, on *)
(* the number of files. A key stands for one generated program.            *)
(***************************************************************************)
EXTENDS Naturals, Sequences, FiniteSets, Functions

CONSTANTS
    Runs,       \* processes
    Program,    \* per run: the key of the program it builds
    Limit       \* files the directory may hold

Keys == {Program[r] : r \in Runs}

ASSUME CacheAssumption ==
    /\ IsFiniteSet(Runs)
    /\ Limit \in Nat \ {0}
    /\ Runs \cap Keys = {}

VARIABLES
    dir,      \* what each file contains; a run's reserved name is the run itself
    recent,   \* the names of the files, most recently used first
    pc,       \* per run
    target,   \* per run: the path runExecutable will return, or "none"
    doomed,   \* per run: the names its prune is about to remove
    started   \* per run: the contents of the executable it launched

vars == <<dir, recent, pc, target, doomed, started>>

Init ==
    /\ dir = <<>> /\ recent = <<>>
    /\ pc = [r \in Runs |-> "lookup"]
    /\ target = [r \in Runs |-> "none"]
    /\ doomed = [r \in Runs |-> {}]
    /\ started = [r \in Runs |-> "none"]

-----------------------------------------------------------------------------
(* The file system.                                                        *)

Names == DOMAIN dir
Without(names) == SelectSeq(recent, LAMBDA n : n \notin names)

Touch(name) == recent' = IF name \in Names THEN <<name>> \o Without({name}) ELSE recent

Write(name, content) ==
    /\ dir' = [n \in Names \cup {name} |-> IF n = name THEN content ELSE dir[n]]
    /\ recent' = <<name>> \o Without({name})

Unlink(names) == dir' = Restrict(dir, Names \ names) /\ recent' = Without(names)

\* A rename keeps the file's time, and replaces what had the new name.
Rename(old, new) ==
    /\ dir' = [n \in (Names \ {old}) \cup {new} |-> IF n = new THEN dir[old] ELSE dir[n]]
    /\ LET kept == Without({new} \ {old})
       IN  recent' = [i \in DOMAIN kept |-> IF kept[i] = old THEN new ELSE kept[i]]

files == <<dir, recent>>

Goto(r, where) == pc' = [pc EXCEPT ![r] = where]
Returns(r, path) == target' = [target EXCEPT ![r] = path]

-----------------------------------------------------------------------------
\* Mutant: the build writes straight to the key's own path.
InPlace(r) == Program[r]

\* reserve: a name of its own, nothing there yet.
Reserved(r) == r

\* cache.lookup finds an executable, or the run reserves a name and builds.
lookup(r) ==
    /\ pc[r] = "lookup"
    /\ IF Program[r] \in Names
         THEN Goto(r, "touch") /\ Returns(r, Program[r])
         ELSE Goto(r, "build") /\ Returns(r, Reserved(r))
    /\ UNCHANGED <<files, doomed, started>>

\* os.Chtimes marks the entry as just used; its failure is ignored.
MarkUsed(r) ==
    /\ pc[r] = "touch"
    /\ Touch(target[r])
    /\ Goto(r, "launch")
    /\ UNCHANGED <<dir, target, doomed, started>>

\* go build begins to write the executable ...
BuildWrites(r) ==
    /\ pc[r] = "build"
    /\ Write(target[r], "partial")
    /\ Goto(r, "writing")
    /\ UNCHANGED <<target, doomed, started>>

\* ... and finishes it, wherever the file is by then ...
BuildExecutable(r) ==
    /\ pc[r] = "writing"
    /\ IF target[r] \in Names THEN Write(target[r], Program[r]) ELSE UNCHANGED files
    /\ Goto(r, "publish")
    /\ UNCHANGED <<target, doomed, started>>

\* ... or fails, and what was reserved is removed.
BuildFails(r) ==
    /\ pc[r] \in {"build", "writing"}
    /\ Unlink({target[r]})
    /\ Goto(r, "failed")
    /\ UNCHANGED <<target, doomed, started>>

\* publish: one rename to the key. When the file is not there, or cannot be
\* renamed, the run goes on with the path it reserved.
publish(r) ==
    /\ pc[r] = "publish"
    /\ \/ /\ target[r] \in Names
          /\ Rename(target[r], Program[r])
          /\ Returns(r, Program[r])
          /\ Goto(r, "prune")
       \/ /\ Goto(r, "launch")
          /\ UNCHANGED <<files, target>>
    /\ UNCHANGED <<doomed, started>>

\* Mutant: one file more than the limit survives.
OneTooMany == Limit + 1

LastKept == Limit

Kept == {recent[i] : i \in 1..LastKept \cap DOMAIN recent}

\* prune lists and sorts the directory ...
PruneReads(r) ==
    /\ pc[r] = "prune"
    /\ doomed' = [doomed EXCEPT ![r] = Names \ Kept]
    /\ Goto(r, "removing")
    /\ UNCHANGED <<files, target, started>>

\* ... and removes by name what did not fit.
PruneRemoves(r) ==
    /\ pc[r] = "removing"
    /\ Unlink(doomed[r])
    /\ doomed' = [doomed EXCEPT ![r] = {}]
    /\ Goto(r, "launch")
    /\ UNCHANGED <<target, started>>

\* command.Start: launchFailure when the file is gone.
Start(r) ==
    /\ pc[r] = "launch"
    /\ IF target[r] \in Names
         THEN /\ started' = [started EXCEPT ![r] = dir[target[r]]]
              /\ Goto(r, "running")
         ELSE Goto(r, "missing") /\ UNCHANGED started
    /\ UNCHANGED <<files, target, doomed>>

\* The program ends; an unpublished executable is removed.
Finish(r) ==
    /\ pc[r] = "running"
    /\ IF target[r] = Program[r] THEN UNCHANGED files ELSE Unlink({target[r]})
    /\ Goto(r, "done")
    /\ UNCHANGED <<target, doomed, started>>

Step(r) ==
    \/ lookup(r) \/ MarkUsed(r)
    \/ BuildWrites(r) \/ BuildExecutable(r) \/ BuildFails(r) \/ publish(r)
    \/ PruneReads(r) \/ PruneRemoves(r) \/ Start(r) \/ Finish(r)

Next == \E r \in Runs : Step(r)

Spec == Init /\ [][Next]_vars

-----------------------------------------------------------------------------
RunPlaces == {"lookup", "touch", "build", "writing", "publish", "prune", "removing",
              "launch", "running", "done", "failed", "missing"}

\* Type invariant.
TypeOK ==
    /\ Names \subseteq Runs \cup Keys /\ Range(dir) \subseteq Keys \cup {"partial"}
    /\ IsInjective(recent) /\ Range(recent) = Names
    /\ pc \in [Runs -> RunPlaces]
    /\ target \in [Runs -> Runs \cup Keys \cup {"none"}]
    /\ doomed \in [Runs -> SUBSET (Runs \cup Keys)]
    /\ started \in [Runs -> Keys \cup {"none", "partial"}]

\* What a run launches is a finished build of its own program: publish is one
\* step, "so a concurrent run either sees no entry at all or sees a complete one".
RightProgram == \A r \in Runs : started[r] \in {"none", Program[r]}

\* "it can never grow without end": when every run is over, however their
\* builds, publications and prunes overlapped, the directory is within bounds.
CacheBounded ==
    (\A r \in Runs : pc[r] \in {"done", "failed", "missing"}) => Cardinality(Names) <= Limit
=============================================================================
