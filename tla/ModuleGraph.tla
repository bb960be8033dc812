----------------------------- MODULE ModuleGraph -----------------------------
(***************************************************************************)
(* How the compiler follows a program from its entry file                  *)
(* (internal/module/compiler.go, require.go). require(...) pastes a file   *)
(* into the module that requires it; bring names another module, which is  *)
(* analysed by itself before the module that brings it. Both walks are     *)
(* depth first, and both meet files they are still busy with.              *)
(*                                                                         *)
(* A file is the sequence of its bring and require statements; what else   *)
(* it holds matters by whether it has errors. A path that is malformed or  *)
(* leaves the application's directory is Outside. Bundled and framework    *)
(* modules, which never lead back to a file, are left out.                 *)
(***************************************************************************)
EXTENDS Naturals, Sequences, SequencesExt

CONSTANTS
    SourceFiles, EntryFile,
    Outside,
    Texts,        \* the texts a file may have
    Conditions    \* pairs: the files that exist, and those with an error

ASSUME GraphAssumption ==
    /\ EntryFile \in SourceFiles /\ Outside \notin SourceFiles
    /\ Texts \subseteq Seq(({"bring"} \X SourceFiles)
                            \cup ({"require"} \X (SourceFiles \cup {Outside})))
    /\ \A c \in Conditions : /\ EntryFile \in c[1] /\ c[1] \subseteq SourceFiles
                             /\ c[2] \subseteq c[1]

VARIABLES
    text,        \* per file: its statements
    present,     \* the files that exist
    faulty,      \* files with an error of their own, found by parser or analysis
    state,       \* per file as a module: "unknown" or module.State
    frames,      \* the calls of analyze: module, brings to go, failed
    expansion,   \* the calls of expandRequires: file, statements to go
    resolved,    \* per module: the files it required, in order (state.order)
    body,        \* per module: the statements of its expanded text
    cycles,      \* per module: its require cycles are reported
    unresolved   \* per module: files it requires that are not there

graphVars == <<text, present, faulty, state, frames, expansion, resolved, body, cycles, unresolved>>
inputs == <<text, present, faulty>>
findings == <<resolved, body, cycles, unresolved>>

GraphInit ==
    /\ text \in [SourceFiles -> Texts]
    /\ \E c \in Conditions : present = c[1] /\ faulty = c[2]
    /\ state = [f \in SourceFiles |-> IF f = EntryFile THEN "resolving" ELSE "unknown"]
    /\ frames = <<[module |-> EntryFile, todo |-> <<>>, failed |-> EntryFile \in faulty]>>
    /\ expansion = <<[file |-> EntryFile, todo |-> text[EntryFile]]>>
    /\ resolved = [f \in SourceFiles |-> <<>>]
    /\ body = [f \in SourceFiles |-> <<>>]
    /\ cycles = [f \in SourceFiles |-> FALSE]
    /\ unresolved = [f \in SourceFiles |-> {}]

-----------------------------------------------------------------------------
Top == frames[Len(frames)]
ChangeTop(frame) == frames' = [frames EXCEPT ![Len(frames)] = frame]
TopFails == ChangeTop([Top EXCEPT !.failed = TRUE])

(* expandRequires *)

Expanding == expansion # <<>>
Call == expansion[Len(expansion)]
Stack == {expansion[i].file : i \in DOMAIN expansion}
Handled == [expansion EXCEPT ![Len(expansion)].todo = Tail(@)]

\* any other statement is kept
KeepStatement ==
    /\ Expanding /\ Call.todo # <<>> /\ Head(Call.todo)[1] = "bring"
    /\ body' = [body EXCEPT ![Top.module] = Append(@, Head(Call.todo))]
    /\ expansion' = Handled
    /\ UNCHANGED <<inputs, state, frames, resolved, cycles, unresolved>>

Requires(f) == Expanding /\ Call.todo # <<>> /\ Head(Call.todo) = <<"require", f>>
AlreadyMerged(f) == f \in Range(resolved[Top.module])

\* Mutant: a file that was merged already is passed over before the stack is
\* looked at.
DedupFirst(f) == f \in Stack /\ ~AlreadyMerged(f)

ClosesCycle(f) == f \in Stack

\* resolveRequirePath: the path is not that of a source file in the
\* application's directory, or was malformed in the first place.
Refused(f) == f = Outside

\* resolveRequirePath refuses the path, the edge closes a cycle, or the file
\* is not there: an error, and the statement is dropped.
RequireFails(f) ==
    /\ Requires(f)
    /\ Refused(f) \/ ClosesCycle(f) \/ (~AlreadyMerged(f) /\ f \notin present)
    /\ expansion' = Handled
    /\ TopFails
    /\ cycles' = [cycles EXCEPT ![Top.module] = @ \/ (~Refused(f) /\ ClosesCycle(f))]
    /\ unresolved' = IF Refused(f) \/ ClosesCycle(f) THEN unresolved
                     ELSE [unresolved EXCEPT ![Top.module] = @ \cup {f}]
    /\ UNCHANGED <<inputs, state, resolved, body>>

\* "Compiled once"
RequireAgain(f) ==
    /\ Requires(f) /\ ~Refused(f) /\ ~ClosesCycle(f) /\ AlreadyMerged(f)
    /\ expansion' = Handled
    /\ UNCHANGED <<inputs, state, frames, findings>>

\* the file is loaded and parsed, and its own requires are followed
RequireFile(f) ==
    /\ Requires(f) /\ f \in present /\ ~ClosesCycle(f) /\ ~AlreadyMerged(f)
    /\ resolved' = [resolved EXCEPT ![Top.module] = Append(@, f)]
    /\ expansion' = Append(Handled, [file |-> f, todo |-> text[f]])
    /\ ChangeTop([Top EXCEPT !.failed = @ \/ f \in faulty])
    /\ UNCHANGED <<inputs, state, body, cycles, unresolved>>

\* expandRequires returns; after the last the brings of the module are next.
ExpandReturns ==
    /\ Expanding /\ Call.todo = <<>>
    /\ expansion' = Front(expansion)
    /\ IF Len(expansion) = 1 THEN ChangeTop([Top EXCEPT !.todo = body[Top.module]])
                             ELSE UNCHANGED frames
    /\ UNCHANGED <<inputs, state, findings>>

-----------------------------------------------------------------------------
(* analyze *)

Brings(f) ==
    /\ frames # <<>> /\ ~Expanding
    /\ Top.todo # <<>> /\ Head(Top.todo) = <<"bring", f>>

\* the bring statement is done; the module fails with what it brings
BringDone(ok) == ChangeTop([Top EXCEPT !.todo = Tail(@), !.failed = @ \/ ~ok])

\* Resolve finds no such sibling.
BringMissing(f) ==
    /\ Brings(f) /\ f \notin present
    /\ BringDone(FALSE)
    /\ UNCHANGED <<inputs, state, expansion, findings>>

\* cycleFrom: the calls of analyze from the module's on
Cycle(f) == {frames[i].module : i \in {j \in DOMAIN frames :
                \E k \in 1..j : frames[k].module = f}}

\* The module is being analysed: all modules of the cycle fail.
BringCycle(f) ==
    /\ Brings(f) /\ f \in present /\ state[f] = "resolving"
    /\ state' = [m \in SourceFiles |-> IF m \in Cycle(f) THEN "failed" ELSE state[m]]
    /\ BringDone(FALSE)
    /\ UNCHANGED <<inputs, expansion, findings>>

\* Mutant: a module that has been analysed is not looked at again.
Fine(f) == TRUE

Usable(f) == state[f] = "resolved"

\* The module has been analysed, or the brings that are under way have made it
\* fail.
BringKnown(f) ==
    /\ Brings(f) /\ f \in present /\ state[f] \in {"resolved", "failed"}
    /\ BringDone(Usable(f))
    /\ UNCHANGED <<inputs, state, expansion, findings>>

\* analyze of a module that is new. The statement stays at the head of the
\* caller's list and is answered by BringKnown when the call has returned.
BringNew(f) ==
    /\ Brings(f) /\ f \in present /\ state[f] = "unknown"
    /\ state' = [state EXCEPT ![f] = "resolving"]
    /\ frames' = Append(frames, [module |-> f, todo |-> <<>>, failed |-> f \in faulty])
    /\ expansion' = <<[file |-> f, todo |-> text[f]]>>
    /\ UNCHANGED <<inputs, findings>>

\* All brings are done: the module is resolved or has failed.
AnalyzeReturns ==
    /\ frames # <<>> /\ ~Expanding /\ Top.todo = <<>>
    /\ frames' = Front(frames)
    /\ state' = [state EXCEPT ![Top.module] =
                    IF @ = "failed" \/ Top.failed THEN "failed" ELSE "resolved"]
    /\ UNCHANGED <<inputs, expansion, findings>>

GraphNext ==
    \/ KeepStatement \/ ExpandReturns \/ AnalyzeReturns
    \/ \E f \in SourceFiles \cup {Outside} :
          RequireFails(f) \/ RequireAgain(f) \/ RequireFile(f)
    \/ \E f \in SourceFiles :
          BringMissing(f) \/ BringCycle(f) \/ BringKnown(f) \/ BringNew(f)

GraphSpec == GraphInit /\ [][GraphNext]_graphVars

-----------------------------------------------------------------------------
(* Properties. *)

ModuleStates == {"unknown", "resolving", "resolved", "failed"}

\* Type invariant.
GraphTypes ==
    /\ state \in [SourceFiles -> ModuleStates]
    /\ \A m \in SourceFiles : Range(resolved[m]) \cup unresolved[m] \subseteq SourceFiles
    /\ \A i \in DOMAIN frames : frames[i].failed \in BOOLEAN

(* The graphs of a program, without a walk: sets of pairs of files. *)

Files == SourceFiles \cup {Outside}

After(f, edges) == {e[2] : e \in {d \in edges : d[1] = f}}

\* An edge, and then whatever is in all sets that its end is in and that no
\* edge leaves.
Paths(edges) ==
    LET closed == {S \in SUBSET Files : \A e \in edges : e[1] \in S => e[2] \in S}
    IN UNION {{<<e[1], f>> : f \in {g \in Files : \A S \in closed : e[2] \in S => g \in S}} : e \in edges}

Named(word, f) == {s[2] : s \in {x \in Range(text[f]) : x[1] = word}}

Required == UNION {{<<f, g>> : g \in Named("require", f)} : f \in present}

\* what a module brings, itself and through the files it requires
Brought(required) ==
    UNION {{<<m, g>> : g \in UNION {Named("bring", f) :
                                     f \in (After(m, required) \cap present) \cup {m}}} :
           m \in present}

SoundByItself(m, required) ==
    LET all == After(m, required) \cup {m}
    IN /\ all \subseteq present /\ all \cap faulty = {}
       /\ \A f \in all : <<f, f>> \notin required

Compiles(m, required, brought) ==
    LET all == After(m, brought) \cup {m}
    IN \A f \in all : SoundByItself(f, required) /\ <<f, f>> \notin brought

\* What the walks say of a program is what its graph says. A module is
\* resolved exactly if everything it brings and requires, however indirectly,
\* is there, free of errors and free of cycles: also where a cycle was found
\* first from elsewhere, and its modules had failed before all of their brings
\* were looked at. Every required file is merged once, and a require cycle is
\* reported exactly if there is one.
CompilationRight ==
    frames = <<>> =>
        LET required == Paths(Required)
            brought == Paths(Brought(required))
        IN /\ \A m \in SourceFiles : state[m] # "unknown" =>
                 ((state[m] = "resolved") <=> Compiles(m, required, brought))
           /\ \A m \in present : state[m] # "unknown" =>
                 LET all == After(m, required) \cup {m}
                 IN /\ Range(resolved[m]) \cup {m} = all \cap present
                    /\ Len(resolved[m]) = Cardinality(Range(resolved[m]))
                    /\ cycles[m] <=> \E f \in all : <<f, f>> \in required
                    /\ unresolved[m] = (all \ present) \ {Outside}
=============================================================================
