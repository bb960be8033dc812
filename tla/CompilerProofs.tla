--------------------------- MODULE CompilerProofs ---------------------------
(***************************************************************************)
(* Proofs about what comes before a program runs: the modules the compiler *)
(* follows, the run cache and the Studio cache, for every number of files, *)
(* programs, runs and processes.                                           *)
(***************************************************************************)
EXTENDS ModuleGraph, RunCache, StudioCache, TLAPS, SequenceTheorems, FiniteSetTheorems

(* The module graph.                                                       *)

\* What a file may hold, and the graphs: what requires what, what brings what by
\* itself, what brings what.
FileStatements == ({"bring"} \X SourceFiles) \cup ({"require"} \X Files)
Req == Paths(Required)
Bro == Brought(Req)
Brg == Paths(Bro)

\* A module that analyze was called for, the files it is made of so far, and that
\* it has failed or is bound to.
Known(m) == state[m] # "unknown"
Merged(m) == Range(resolved[m]) \cup {m}
Fails(m) == state[m] = "failed" \/ \E i \in DOMAIN frames : frames[i].module = m /\ frames[i].failed

\* The file is on the stack of expandRequires, or one of its statements waits there.
AtWork(m, f) == (\E i \in DOMAIN expansion : expansion[i].file = f) /\ m = Top.module
Waiting(m, f, s) ==
    /\ \E i \in DOMAIN expansion : expansion[i].file = f /\ s \in Range(expansion[i].todo)
    /\ m = Top.module

\* Types.
FrameSet == [module : SourceFiles, todo : Seq(FileStatements), failed : BOOLEAN]
CallSet == [file : SourceFiles, todo : Seq(FileStatements)]

GraphShape ==
    /\ text \in [SourceFiles -> Seq(FileStatements)]
    /\ present \subseteq SourceFiles /\ faulty \subseteq present
    /\ state \in [SourceFiles -> ModuleStates]
    /\ frames \in Seq(FrameSet)
    /\ expansion \in Seq(CallSet)
    /\ resolved \in [SourceFiles -> Seq(SourceFiles)]
    /\ body \in [SourceFiles -> Seq(FileStatements)]
    /\ cycles \in [SourceFiles -> BOOLEAN]
    /\ unresolved \in [SourceFiles -> SUBSET SourceFiles]

\* Each call of analyze is for a module of its own that exists and is not done; the
\* modules on the stack bring each other, from the bottom up.
FrameInv ==
    /\ \A i \in DOMAIN frames :
          /\ frames[i].module \in present
          /\ state[frames[i].module] \in {"resolving", "failed"}
          /\ Range(frames[i].todo) \subseteq Range(body[frames[i].module])
    /\ \A i, j \in DOMAIN frames : i < j =>
          frames[i].module # frames[j].module /\ <<frames[i].module, frames[j].module>> \in Brg
    /\ \A m \in SourceFiles : state[m] = "resolving" => \E i \in DOMAIN frames : frames[i].module = m
    /\ Expanding => frames # <<>> /\ expansion[1].file = Top.module

\* Each call of expandRequires is for a file of its own of the module under
\* analysis; the files on the stack require each other, from the bottom up.
StackInv ==
    /\ \A i \in DOMAIN expansion :
          /\ expansion[i].file \in Merged(Top.module)
          /\ Range(expansion[i].todo) \subseteq Range(text[expansion[i].file])
    /\ \A i, j \in DOMAIN expansion : i < j =>
          expansion[i].file # expansion[j].file /\ <<expansion[i].file, expansion[j].file>> \in Req

\* What was found about a module is so: merged files are required and there, each
\* once, brings stand in them, missing files are required and not there, and a
\* reported cycle is one.
FoundInv(m) ==
    /\ Range(resolved[m]) \subseteq After(m, Req) \cap present
    /\ IsFiniteSet(Range(resolved[m])) /\ Cardinality(Range(resolved[m])) = Len(resolved[m])
    /\ \A s \in Range(body[m]) : s[1] = "bring" /\ \E f \in Merged(m) : s \in Range(text[f])
    /\ unresolved[m] \subseteq After(m, Req) \ present
    /\ cycles[m] => \E f \in Merged(m) : <<f, f>> \in Req
    /\ IF Known(m) THEN m \in present
       ELSE resolved[m] = <<>> /\ body[m] = <<>> /\ ~cycles[m] /\ unresolved[m] = {}

\* A statement was dealt with: kept, its file merged, or its file not there and
\* the module failed.
Dealt(m, s) ==
    IF s[1] = "bring" THEN s \in Range(body[m])
    ELSE \/ s[2] \in Merged(m)
         \/ s[2] \notin present /\ Fails(m) /\ s[2] \in unresolved[m] \cup {Outside}

\* Every statement of a merged file waits or was dealt with.
DealtInv(m) ==
    \A f \in Merged(m) : \A s \in Range(text[f]) : Waiting(m, f, s) \/ Dealt(m, s)

\* While no cycle was reported: a file that expandRequires has left lies on no
\* cycle and leads to no file on the stack, and what a file on the stack requires
\* and is on the stack too is still to be looked at or the next one up.
AcyclicInv(m) ==
    ~cycles[m] =>
        /\ \A f \in Merged(m) : ~AtWork(m, f) =>
              <<f, f>> \notin Req /\ \A g \in present : <<f, g>> \in Required => ~AtWork(m, g)
        /\ \A i \in DOMAIN expansion : m = Top.module =>
              \A g \in present : <<expansion[i].file, g>> \in Required =>
                    \/ <<"require", g>> \in Range(expansion[i].todo)
                    \/ ~AtWork(m, g)
                    \/ i + 1 \in DOMAIN expansion /\ g = expansion[i + 1].file

\* A module has failed if it has a reason, and only then.
FailInv(m) ==
    /\ cycles[m] \/ Merged(m) \cap faulty # {} => Fails(m)
    /\ Fails(m) => ~Compiles(m, Req, Brg)

\* The bring is still to be answered.
ToBring(m, s) ==
    \E i \in DOMAIN frames : frames[i].module = m /\
        (s \in Range(frames[i].todo) \/ (i = Len(frames) /\ Expanding))

\* What is no longer to be brought is resolved, unless the module fails, and what
\* is resolved compiles.
BringInv(m) ==
    /\ \A s \in Range(body[m]) : ToBring(m, s) \/ Fails(m) \/ state[s[2]] = "resolved"
    /\ state[m] = "resolved" => Compiles(m, Req, Brg)

\* The inductive invariant.
GraphInv ==
    /\ GraphShape /\ FrameInv /\ StackInv
    /\ \A m \in SourceFiles :
          /\ FoundInv(m)
          /\ Known(m) => DealtInv(m) /\ AcyclicInv(m) /\ FailInv(m) /\ BringInv(m)

\* Graphs of files, and the sets that no edge leaves.
IsGraph(edges) == edges \subseteq Files \X Files
ClosedUnder(S, edges) == S \subseteq Files /\ \A f, g \in Files : <<f, g>> \in edges /\ f \in S => g \in S

\* A path is an edge and then membership in every closed set that holds the
\* edge's end.
LEMMA PathsAre ==
    ASSUME NEW edges, IsGraph(edges), NEW f, NEW g
    PROVE  <<f, g>> \in Paths(edges) <=>
              /\ f \in Files /\ g \in Files
              /\ \E h \in Files : /\ <<f, h>> \in edges
                                  /\ \A S : ClosedUnder(S, edges) /\ h \in S => g \in S
  <1>. DEFINE closed == {S \in SUBSET Files : \A e \in edges : e[1] \in S => e[2] \in S}
  <1>1. \A S : S \in closed <=> ClosedUnder(S, edges)
    BY DEF IsGraph, ClosedUnder
  <1>2. Paths(edges) = UNION {{<<e[1], x>> : x \in {y \in Files : \A S \in closed : e[2] \in S => y \in S}} : e \in edges}
    BY DEF Paths
  <1>. HIDE DEF closed
  <1>3. <<f, g>> \in Paths(edges) <=>
          \E e \in edges : f = e[1] /\ g \in Files /\ \A S \in closed : e[2] \in S => g \in S
    BY <1>2
  <1>4. \A e \in edges : e = <<e[1], e[2]>> /\ e[1] \in Files /\ e[2] \in Files
    BY DEF IsGraph
  <1>5. ASSUME NEW e \in edges, f = e[1], g \in Files, \A S \in closed : e[2] \in S => g \in S
        PROVE  \E h \in Files : <<f, h>> \in edges /\ \A S : ClosedUnder(S, edges) /\ h \in S => g \in S
    BY <1>1, <1>4, <1>5
  <1>6. ASSUME NEW h \in Files, <<f, h>> \in edges, g \in Files, \A S : ClosedUnder(S, edges) /\ h \in S => g \in S
        PROVE  \E e \in edges : f = e[1] /\ g \in Files /\ \A S \in closed : e[2] \in S => g \in S
    BY <1>1, <1>6
  <1>7. <<f, g>> \in Paths(edges) => f \in Files /\ g \in Files
    BY <1>3, <1>4
  <1>. QED BY <1>3, <1>5, <1>6, <1>7

\* Paths of a graph of files are between files.
LEMMA PathsGraph == ASSUME NEW edges, IsGraph(edges) PROVE IsGraph(Paths(edges))
  <1>1. \A e \in edges : e = <<e[1], e[2]>> /\ e[1] \in Files /\ e[2] \in Files
    BY DEF IsGraph
  <1>. QED BY <1>1 DEF Paths, IsGraph

\* What a file names is on a path from it.
LEMMA EdgeIsPath ==
    ASSUME NEW edges, IsGraph(edges), NEW f, NEW g, <<f, g>> \in edges PROVE <<f, g>> \in Paths(edges)
  <1>1. f \in Files /\ g \in Files BY DEF IsGraph
  <1>. QED BY <1>1, PathsAre

\* Paths are transitive.
LEMMA PathsJoin ==
    ASSUME NEW edges, IsGraph(edges), NEW f, NEW g, NEW h,
           <<f, g>> \in Paths(edges), <<g, h>> \in Paths(edges)
    PROVE  <<f, h>> \in Paths(edges)
  <1>1. f \in Files /\ g \in Files /\ h \in Files BY PathsGraph DEF IsGraph
  <1>2. PICK x \in Files : <<f, x>> \in edges /\ \A S : ClosedUnder(S, edges) /\ x \in S => g \in S
    BY PathsAre
  <1>3. PICK y \in Files : <<g, y>> \in edges /\ \A S : ClosedUnder(S, edges) /\ y \in S => h \in S
    BY PathsAre
  <1>4. ASSUME NEW S, ClosedUnder(S, edges), x \in S PROVE h \in S
    <2>1. g \in S BY <1>2, <1>4
    <2>2. y \in S BY <2>1, <1>1, <1>3, <1>4 DEF ClosedUnder
    <2>. QED BY <2>2, <1>3, <1>4
  <1>. QED BY <1>1, <1>2, <1>4, PathsAre

\* No path leaves a closed set.
LEMMA PathsStay ==
    ASSUME NEW edges, IsGraph(edges), NEW S, ClosedUnder(S, edges), NEW f, NEW g,
           <<f, g>> \in Paths(edges), \A h \in Files : <<f, h>> \in edges => h \in S
    PROVE  g \in S
  BY PathsAre

\* A path begins with an edge.
LEMMA PathBegins ==
    ASSUME NEW edges, IsGraph(edges), NEW f, NEW g, <<f, g>> \in Paths(edges)
    PROVE  \E h \in Files : <<f, h>> \in edges /\ (g = h \/ <<h, g>> \in Paths(edges))
  <1>1. PICK h \in Files : <<f, h>> \in edges /\ \A S : ClosedUnder(S, edges) /\ h \in S => g \in S
    BY PathsAre
  <1>. DEFINE S == {x \in Files : x = h \/ <<h, x>> \in Paths(edges)}
  <1>2. ClosedUnder(S, edges)
    <2>1. ASSUME NEW x \in Files, NEW y \in Files, <<x, y>> \in edges, x \in S PROVE y \in S
      BY <2>1, EdgeIsPath, PathsJoin
    <2>. QED BY <2>1 DEF ClosedUnder
  <1>3. h \in S OBVIOUS
  <1>. HIDE DEF S
  <1>4. g \in S BY <1>1, <1>2, <1>3
  <1>. QED BY <1>1, <1>4 DEF S

\* What comes after a file in a graph.
LEMMA InAfter == ASSUME NEW edges, IsGraph(edges), NEW f, NEW g PROVE g \in After(f, edges) <=> <<f, g>> \in edges
  <1>1. \A e \in edges : e = <<e[1], e[2]>> BY DEF IsGraph
  <1>. QED BY <1>1 DEF After

\* What a statement or file that is appended adds (append in Go).
LEMMA RangeAppend ==
    ASSUME NEW S, NEW q \in Seq(S), NEW e \in S
    PROVE  Append(q, e) \in Seq(S) /\ Range(Append(q, e)) = Range(q) \cup {e}
  <1>1. Len(Append(q, e)) = Len(q) + 1 /\ Append(q, e)[Len(q) + 1] = e
        /\ \A i \in 1..Len(q) : Append(q, e)[i] = q[i]
    OBVIOUS
  <1>2. DOMAIN Append(q, e) = 1..(Len(q) + 1) /\ DOMAIN q = 1..Len(q)
    OBVIOUS
  <1>3. ASSUME NEW x \in Range(Append(q, e)) PROVE x \in Range(q) \cup {e}
    BY <1>1, <1>2, <1>3 DEF Range
  <1>4. ASSUME NEW x \in Range(q) PROVE x \in Range(Append(q, e))
    BY <1>1, <1>2, <1>4 DEF Range
  <1>5. e \in Range(Append(q, e))
    BY <1>1, <1>2 DEF Range
  <1>. QED BY <1>3, <1>4, <1>5

\* What is taken from the head of a list of statements.
LEMMA RangeTail ==
    ASSUME NEW S, NEW q \in Seq(S), q # <<>>
    PROVE  Head(q) \in S /\ Tail(q) \in Seq(S) /\ Range(q) = Range(Tail(q)) \cup {Head(q)}
  <1>1. Len(q) \in Nat /\ Len(q) >= 1 /\ DOMAIN q = 1..Len(q) /\ Head(q) = q[1]
    OBVIOUS
  <1>2. Tail(q) \in Seq(S) /\ Len(Tail(q)) = Len(q) - 1 /\ DOMAIN Tail(q) = 1..(Len(q) - 1)
        /\ \A i \in 1..(Len(q) - 1) : Tail(q)[i] = q[i + 1]
    OBVIOUS
  <1>3. ASSUME NEW x \in Range(q) PROVE x \in Range(Tail(q)) \cup {Head(q)}
    <2>1. PICK i \in 1..Len(q) : x = q[i] BY <1>1, <1>3 DEF Range
    <2>2. CASE i = 1 BY <2>1, <2>2, <1>1
    <2>3. CASE i # 1
      <3>1. i - 1 \in 1..(Len(q) - 1) /\ q[(i - 1) + 1] = x BY <2>1, <2>3, <1>1
      <3>. QED BY <3>1, <1>2 DEF Range
    <2>. QED BY <2>2, <2>3
  <1>4. ASSUME NEW x \in Range(Tail(q)) PROVE x \in Range(q)
    <2>1. PICK i \in 1..(Len(q) - 1) : x = q[i + 1] BY <1>2, <1>4 DEF Range
    <2>2. i + 1 \in 1..Len(q) BY <1>1
    <2>. QED BY <2>1, <2>2, <1>1 DEF Range
  <1>5. Head(q) \in Range(q) /\ Head(q) \in S BY <1>1 DEF Range
  <1>. QED BY <1>2, <1>3, <1>4, <1>5

\* The types of the inputs.
Inputs == text \in [SourceFiles -> Seq(FileStatements)] /\ present \subseteq SourceFiles /\ faulty \subseteq present

\* A statement is a word and a path.
LEMMA StatementIs ==
    ASSUME NEW s \in FileStatements
    PROVE  /\ s = <<s[1], s[2]>> /\ s[1] \in {"bring", "require"} /\ s[2] \in Files
           /\ s[1] = "bring" => s[2] \in SourceFiles
  BY DEF FileStatements, Files

\* What a file holds are statements.
LEMMA TextIs ==
    ASSUME Inputs, NEW f \in SourceFiles, NEW s \in Range(text[f]) PROVE s \in FileStatements
  <1>1. text[f] \in Seq(FileStatements) BY DEF Inputs
  <1>. QED BY <1>1 DEF Range

\* What a file names with bring or require.
LEMMA NamedIs ==
    ASSUME Inputs, NEW f \in SourceFiles, NEW word, NEW g
    PROVE  g \in Named(word, f) <=> <<word, g>> \in Range(text[f])
  <1>1. \A s \in Range(text[f]) : s = <<s[1], s[2]>> BY TextIs, StatementIs
  <1>2. g \in Named(word, f) <=> \E s \in Range(text[f]) : s[1] = word /\ s[2] = g
    BY DEF Named
  <1>. QED BY <1>1, <1>2

\* The graph of the requires, in the words of the files' texts.
LEMMA RequiredIs ==
    ASSUME Inputs
    PROVE  /\ IsGraph(Required) /\ IsGraph(Req)
           /\ \A f, g : <<f, g>> \in Required <=> f \in present /\ <<"require", g>> \in Range(text[f])
  <1>1. \A f, g : <<f, g>> \in Required <=> f \in present /\ g \in Named("require", f)
    BY DEF Required
  <1>2. \A f \in present : f \in SourceFiles BY DEF Inputs
  <1>3. \A f, g : <<f, g>> \in Required <=> f \in present /\ <<"require", g>> \in Range(text[f])
    BY <1>1, <1>2, NamedIs
  <1>4. ASSUME NEW f \in present, NEW g \in Named("require", f) PROVE f \in Files /\ g \in Files
    <2>1. <<"require", g>> \in Range(text[f]) BY <1>2, NamedIs
    <2>2. <<"require", g>>[2] \in Files BY <2>1, <1>2, TextIs, StatementIs
    <2>. QED BY <2>2, <1>2 DEF Files
  <1>5. IsGraph(Required) BY <1>4 DEF IsGraph, Required
  <1>. QED BY <1>3, <1>5, PathsGraph DEF Req

\* The graph of the brings: those of the module's file and of all it requires.
LEMMA BroIs ==
    ASSUME Inputs
    PROVE  /\ IsGraph(Bro) /\ IsGraph(Brg)
           /\ \A m, g : <<m, g>> \in Bro <=>
                 m \in present /\ \E f \in (After(m, Req) \cap present) \cup {m} : <<"bring", g>> \in Range(text[f])
  <1>1. \A m, g : <<m, g>> \in Bro <=>
           m \in present /\ \E f \in (After(m, Req) \cap present) \cup {m} : g \in Named("bring", f)
    BY DEF Bro, Brought
  <1>2. \A f \in present : f \in SourceFiles BY DEF Inputs
  <1>3. \A m, g : <<m, g>> \in Bro <=>
           m \in present /\ \E f \in (After(m, Req) \cap present) \cup {m} : <<"bring", g>> \in Range(text[f])
    BY <1>1, <1>2, NamedIs
  <1>4. ASSUME NEW m \in present, NEW f \in (After(m, Req) \cap present) \cup {m}, NEW g \in Named("bring", f)
        PROVE  m \in Files /\ g \in Files
    <2>1. <<"bring", g>> \in Range(text[f]) BY <1>2, NamedIs
    <2>2. <<"bring", g>>[2] \in Files BY <2>1, <1>2, TextIs, StatementIs
    <2>. QED BY <2>2, <1>2 DEF Files
  <1>5. IsGraph(Bro)
    <2>1. \A e \in Bro : \E m \in present : \E f \in (After(m, Req) \cap present) \cup {m} :
             \E g \in Named("bring", f) : e = <<m, g>>
      BY DEF Bro, Brought
    <2>. QED BY <1>4, <2>1 DEF IsGraph
  <1>. QED BY <1>3, <1>5, PathsGraph DEF Brg

\* The files do not change while they are compiled, nor do their graphs.
LEMMA GraphFixed ==
    ASSUME UNCHANGED inputs
    PROVE  /\ Required' = Required /\ Req' = Req /\ Bro' = Bro /\ Brg' = Brg
           /\ \A m : Compiles(m, Req, Brg)' <=> Compiles(m, Req, Brg)
  <1>0. text' = text /\ present' = present /\ faulty' = faulty BY DEF inputs
  <1>1. Required' = Required BY <1>0 DEF Required, Named
  <1>2. Req' = Req BY <1>1 DEF Req, Paths, Files
  <1>3. Bro' = Bro BY <1>0, <1>2 DEF Bro, Brought, Named, After
  <1>4. Brg' = Brg BY <1>3 DEF Brg, Paths, Files
  <1>5. \A m : Compiles(m, Req, Brg)' <=> Compiles(m, Req, Brg)
    BY <1>0, <1>2, <1>4 DEF Compiles, SoundByItself, After
  <1>. QED BY <1>1, <1>2, <1>3, <1>4, <1>5

\* A module is sound if all it requires is there, has no error and lies on no
\* cycle of requires.
LEMMA SoundIs ==
    ASSUME Inputs, NEW m
    PROVE  SoundByItself(m, Req) <=>
              /\ m \in present \ faulty /\ <<m, m>> \notin Req
              /\ \A f : <<m, f>> \in Req => f \in present \ faulty /\ <<f, f>> \notin Req
  <1>1. \A f : f \in After(m, Req) <=> <<m, f>> \in Req BY RequiredIs, InAfter
  <1>. QED BY <1>1 DEF SoundByItself

\* It compiles if it and all it brings are sound and lie on no cycle of brings.
LEMMA CompilesIs ==
    ASSUME Inputs, NEW m
    PROVE  Compiles(m, Req, Brg) <=>
              /\ SoundByItself(m, Req) /\ <<m, m>> \notin Brg
              /\ \A f : <<m, f>> \in Brg => SoundByItself(f, Req) /\ <<f, f>> \notin Brg
  <1>1. \A f : f \in After(m, Brg) <=> <<m, f>> \in Brg BY BroIs, InAfter
  <1>. QED BY <1>1 DEF Compiles

\* What compiles brings only what compiles.
LEMMA CompilesInherits ==
    ASSUME Inputs, NEW m, NEW g, <<m, g>> \in Bro, Compiles(m, Req, Brg) PROVE Compiles(g, Req, Brg)
  <1>1. <<m, g>> \in Brg BY BroIs, EdgeIsPath DEF Brg
  <1>2. \A f : <<g, f>> \in Brg => <<m, f>> \in Brg BY <1>1, BroIs, PathsJoin DEF Brg
  <1>. QED BY <1>1, <1>2, CompilesIs

\* A sound module on no cycle compiles if all it brings itself does.
LEMMA CompilesBuilds ==
    ASSUME Inputs, NEW m, SoundByItself(m, Req), <<m, m>> \notin Brg,
           \A g : <<m, g>> \in Bro => Compiles(g, Req, Brg)
    PROVE  Compiles(m, Req, Brg)
  <1>1. ASSUME NEW f, <<m, f>> \in Brg PROVE SoundByItself(f, Req) /\ <<f, f>> \notin Brg
    <2>1. PICK g \in Files : <<m, g>> \in Bro /\ (f = g \/ <<g, f>> \in Brg)
      BY <1>1, BroIs, PathBegins DEF Brg
    <2>. QED BY <2>1, CompilesIs
  <1>. QED BY <1>1, CompilesIs

\* The types include those of the inputs.
LEMMA ShapeInputs == ASSUME GraphShape PROVE Inputs
  BY DEF GraphShape, Inputs

\* A file that was merged exists, and the module requires it.
LEMMA OnMerged ==
    ASSUME Inputs, NEW m \in SourceFiles, FoundInv(m), Known(m), NEW f \in Merged(m)
    PROVE  f \in present /\ (f = m \/ <<m, f>> \in Req)
  <1>1. \A g : g \in After(m, Req) <=> <<m, g>> \in Req BY RequiredIs, InAfter
  <1>. QED BY <1>1 DEF FoundInv, Merged

\* What a merged file requires is required by the module.
LEMMA EdgeOnward ==
    ASSUME Inputs, NEW m \in SourceFiles, FoundInv(m), Known(m), NEW f \in Merged(m),
           NEW g, <<"require", g>> \in Range(text[f])
    PROVE  <<f, g>> \in Required /\ <<f, g>> \in Req /\ <<m, g>> \in Req
  <1>1. f \in present /\ (f = m \/ <<m, f>> \in Req) BY OnMerged
  <1>2. <<f, g>> \in Required BY <1>1, RequiredIs
  <1>3. <<f, g>> \in Req BY <1>2, RequiredIs, EdgeIsPath DEF Req
  <1>. QED BY <1>1, <1>2, <1>3, RequiredIs, PathsJoin DEF Req

\* A bring that was kept is one of the module's in the graph.
LEMMA BringEdge ==
    ASSUME Inputs, NEW m \in SourceFiles, FoundInv(m), Known(m), NEW g, <<"bring", g>> \in Range(body[m])
    PROVE  <<m, g>> \in Bro
  <1>1. PICK f \in Merged(m) : <<"bring", g>> \in Range(text[f]) BY DEF FoundInv
  <1>2. f \in (After(m, Req) \cap present) \cup {m}
    BY OnMerged, RequiredIs, InAfter
  <1>3. m \in present BY DEF FoundInv
  <1>. QED BY <1>1, <1>2, <1>3, BroIs

\* A walk that is over.
Walked(m) == \A f : ~AtWork(m, f)

\* A statement waits only in a call of expandRequires.
LEMMA WaitsAtWork == ASSUME NEW m, NEW f, NEW s, Waiting(m, f, s) PROVE AtWork(m, f)
  BY DEF Waiting, AtWork

\* After its walk a module has merged whatever it requires and has all its brings.
LEMMA WalkedFrom ==
    ASSUME Inputs, NEW m \in SourceFiles, FoundInv(m), Known(m), DealtInv(m), Walked(m)
    PROVE  /\ \A g : <<m, g>> \in Req =>
                 \/ g \in Merged(m)
                 \/ g \notin present /\ Fails(m) /\ g \in unresolved[m] \cup {Outside}
           /\ \A g : <<m, g>> \in Bro => <<"bring", g>> \in Range(body[m])
  <1>. DEFINE S == {g \in Files : \/ g \in Merged(m)
                                  \/ g \notin present /\ Fails(m) /\ g \in unresolved[m] \cup {Outside}}
  <1>1. ASSUME NEW f \in Merged(m), NEW s \in Range(text[f]) PROVE Dealt(m, s)
    BY <1>1, WaitsAtWork DEF DealtInv, Walked
  <1>2. ASSUME NEW f \in Merged(m), NEW g \in Files, <<f, g>> \in Required PROVE g \in S
    <2>1. <<"require", g>> \in Range(text[f]) BY <1>2, RequiredIs
    <2>2. Dealt(m, <<"require", g>>) BY <1>1, <2>1
    <2>. QED BY <2>2 DEF Dealt
  <1>3. ClosedUnder(S, Required)
    <2>1. \A f, g : <<f, g>> \in Required => f \in present BY RequiredIs
    <2>. QED BY <1>2, <2>1 DEF ClosedUnder
  <1>4. \A g \in Files : <<m, g>> \in Required => g \in S BY <1>2 DEF Merged
  <1>5. \A g : <<m, g>> \in Req => g \in S BY <1>3, <1>4, RequiredIs, PathsStay DEF Req
  <1>6. ASSUME NEW g, <<m, g>> \in Bro PROVE <<"bring", g>> \in Range(body[m])
    <2>1. PICK f \in (After(m, Req) \cap present) \cup {m} : <<"bring", g>> \in Range(text[f])
      BY <1>6, BroIs
    <2>2. f \in Merged(m)
      <3>1. CASE f = m BY <3>1 DEF Merged
      <3>2. CASE f # m
        <4>1. <<m, f>> \in Req /\ f \in present BY <3>2, <2>1, RequiredIs, InAfter
        <4>. QED BY <4>1, <1>5
      <3>. QED BY <3>1, <3>2
    <2>3. Dealt(m, <<"bring", g>>) BY <1>1, <2>1, <2>2
    <2>. QED BY <2>3 DEF Dealt
  <1>. QED BY <1>5, <1>6

\* After its walk no merged file of a module without a report lies on a cycle.
LEMMA WalkedNoCycle ==
    ASSUME Inputs, NEW m \in SourceFiles, FoundInv(m), Known(m), AcyclicInv(m), Walked(m), ~cycles[m],
           NEW f, f \in Merged(m) \/ f \notin present
    PROVE  <<f, f>> \notin Req
  <1>1. CASE f \in Merged(m) BY <1>1 DEF AcyclicInv, Walked
  <1>2. CASE f \notin present
    <2>1. \A g : <<f, g>> \notin Required BY <1>2, RequiredIs
    <2>. QED BY <2>1, RequiredIs, PathBegins DEF Req
  <1>. QED BY <1>1, <1>2

\* After its walk a module that has not failed is sound by itself.
LEMMA WalkedSound ==
    ASSUME Inputs, NEW m \in SourceFiles, FoundInv(m), Known(m), DealtInv(m), AcyclicInv(m), FailInv(m),
           Walked(m), ~Fails(m)
    PROVE  SoundByItself(m, Req)
  <1>1. \A g : <<m, g>> \in Req => g \in Merged(m) BY WalkedFrom
  <1>2. ~cycles[m] /\ Merged(m) \cap faulty = {} BY DEF FailInv
  <1>3. \A f \in Merged(m) : f \in present /\ <<f, f>> \notin Req BY <1>2, OnMerged, WalkedNoCycle
  <1>4. m \in Merged(m) BY DEF Merged
  <1>. QED BY <1>1, <1>2, <1>3, <1>4, SoundIs

\* When analyze has returned from the entry file, the invariant is what the
\* runs check.
LEMMA GraphInvRight == ASSUME GraphInv PROVE CompilationRight
  <1>. SUFFICES ASSUME frames = <<>> PROVE CompilationRight BY DEF CompilationRight
  <1>0. Inputs BY ShapeInputs DEF GraphInv
  <1>1. expansion = <<>> BY DEF GraphInv, FrameInv, Expanding
  <1>2. \A m : Walked(m) BY <1>1 DEF Walked, AtWork
  <1>3. ASSUME NEW m \in SourceFiles, Known(m)
        PROVE  (state[m] = "resolved") <=> Compiles(m, Req, Brg)
    <2>1. state[m] # "resolving" BY DEF GraphInv, FrameInv
    <2>2. state[m] \in {"resolved", "failed"} BY <1>3, <2>1 DEF GraphInv, GraphShape, ModuleStates, Known
    <2>3. state[m] = "failed" => Fails(m) BY DEF Fails
    <2>. QED BY <1>3, <2>2, <2>3 DEF GraphInv, FailInv, BringInv
  <1>4. ASSUME NEW m \in present, Known(m), NEW all, all = After(m, Req) \cup {m}
        PROVE  /\ Range(resolved[m]) \cup {m} = all \cap present
               /\ Len(resolved[m]) = Cardinality(Range(resolved[m]))
               /\ cycles[m] <=> \E f \in all : <<f, f>> \in Req
               /\ unresolved[m] = (all \ present) \ {Outside}
    <2>1. m \in SourceFiles BY <1>0 DEF Inputs
    <2>2. FoundInv(m) /\ DealtInv(m) /\ AcyclicInv(m) BY <1>4, <2>1 DEF GraphInv
    <2>3. \A g : g \in all <=> (g = m \/ <<m, g>> \in Req) BY <1>0, <1>4, RequiredIs, InAfter
    <2>4. \A g \in Merged(m) : g \in present /\ g \in all BY <1>0, <1>4, <2>1, <2>2, <2>3, OnMerged
    <2>5. \A g \in all : \/ g \in Merged(m)
                         \/ g \notin present /\ g \in unresolved[m] \cup {Outside}
      BY <1>0, <1>2, <1>4, <2>1, <2>2, <2>3, WalkedFrom DEF Merged
    <2>6. Range(resolved[m]) \cup {m} = all \cap present BY <2>4, <2>5 DEF Merged
    <2>7. Outside \notin unresolved[m] /\ unresolved[m] \subseteq all \ present
      BY <1>4, <2>1, <2>2, GraphAssumption DEF GraphInv, GraphShape, FoundInv
    <2>8. unresolved[m] = (all \ present) \ {Outside} BY <2>4, <2>5, <2>7
    <2>9. cycles[m] => \E f \in all : <<f, f>> \in Req BY <2>2, <2>4 DEF FoundInv
    <2>10. ~cycles[m] => \A f \in all : <<f, f>> \notin Req
      BY <1>0, <1>2, <1>4, <2>1, <2>2, <2>5, WalkedNoCycle
    <2>11. cycles[m] \in BOOLEAN BY <2>1 DEF GraphInv, GraphShape
    <2>12. cycles[m] <=> \E f \in all : <<f, f>> \in Req BY <2>9, <2>10, <2>11
    <2>13. Len(resolved[m]) = Cardinality(Range(resolved[m])) BY <2>2 DEF FoundInv
    <2>. QED BY <2>6, <2>8, <2>12, <2>13
  <1>. QED BY <1>3, <1>4 DEF CompilationRight, Known, Req, Bro, Brg

\* The texts that files may have are sequences of statements.
LEMMA TextTyped == ASSUME GraphAssumption, NEW t \in [SourceFiles -> Texts] PROVE t \in [SourceFiles -> Seq(FileStatements)]
  BY DEF GraphAssumption, FileStatements, Files

\* A sequence of one call.
LEMMA OneElement ==
    ASSUME NEW S, NEW e \in S
    PROVE  <<e>> \in Seq(S) /\ Len(<<e>>) = 1 /\ DOMAIN <<e>> = {1} /\ <<e>>[1] = e
  OBVIOUS

\* The empty sequence.
LEMMA NoElement ==
    <<>> \in Seq(FileStatements) /\ Range(<<>>) = {} /\ Len(<<>>) = 0 /\ DOMAIN <<>> = {}
  BY DEF Range

\* The compiler starts with the entry file alone.
LEMMA GraphInvInit == ASSUME GraphInit PROVE GraphInv
  <1>0. EntryFile \in SourceFiles /\ \A c \in Conditions : EntryFile \in c[1] /\ c[1] \subseteq SourceFiles /\ c[2] \subseteq c[1]
    BY GraphAssumption
  <1>1. present \subseteq SourceFiles /\ faulty \subseteq present /\ EntryFile \in present
    BY <1>0 DEF GraphInit
  <1>2. text \in [SourceFiles -> Seq(FileStatements)] BY TextTyped, GraphAssumption DEF GraphInit
  <1>. DEFINE fr == [module |-> EntryFile, todo |-> <<>>, failed |-> EntryFile \in faulty]
              cl == [file |-> EntryFile, todo |-> text[EntryFile]]
  <1>3. fr \in FrameSet /\ cl \in CallSet BY <1>0, <1>2, NoElement DEF FrameSet, CallSet
  <1>4. frames = <<fr>> /\ expansion = <<cl>> BY DEF GraphInit
  <1>5. /\ frames \in Seq(FrameSet) /\ Len(frames) = 1 /\ DOMAIN frames = {1} /\ frames[1] = fr
        /\ expansion \in Seq(CallSet) /\ Len(expansion) = 1 /\ DOMAIN expansion = {1} /\ expansion[1] = cl
    BY <1>3, <1>4, OneElement
  <1>6. /\ fr.module = EntryFile /\ fr.todo = <<>> /\ fr.failed = (EntryFile \in faulty)
        /\ cl.file = EntryFile /\ cl.todo = text[EntryFile]
    OBVIOUS
  <1>. HIDE DEF fr, cl
  <1>7. Top = fr BY <1>5 DEF Top
  <1>8. \A m \in SourceFiles : /\ resolved[m] = <<>> /\ body[m] = <<>> /\ cycles[m] = FALSE /\ unresolved[m] = {}
                               /\ state[m] = IF m = EntryFile THEN "resolving" ELSE "unknown"
    BY DEF GraphInit
  <1>9. GraphShape
    <2>1. state \in [SourceFiles -> ModuleStates] BY DEF GraphInit, ModuleStates
    <2>2. /\ resolved \in [SourceFiles -> Seq(SourceFiles)] /\ body \in [SourceFiles -> Seq(FileStatements)]
          /\ cycles \in [SourceFiles -> BOOLEAN] /\ unresolved \in [SourceFiles -> SUBSET SourceFiles]
      BY DEF GraphInit
    <2>. QED BY <1>1, <1>2, <1>5, <2>1, <2>2 DEF GraphShape
  <1>10. FrameInv
    BY <1>0, <1>1, <1>5, <1>6, <1>7, <1>8, NoElement DEF FrameInv
  <1>11. StackInv
    BY <1>5, <1>6, <1>7 DEF StackInv, Merged
  <1>12. \A m \in SourceFiles : Merged(m) = {m} BY <1>8, NoElement DEF Merged
  <1>13. \A m \in SourceFiles : FoundInv(m)
    BY <1>1, <1>8, NoElement, FS_EmptySet DEF FoundInv, Known
  <1>14. \A m \in SourceFiles : Known(m) => m = EntryFile BY <1>8 DEF Known
  <1>15. DealtInv(EntryFile)
    BY <1>5, <1>6, <1>7, <1>12, <1>0 DEF DealtInv, Waiting
  <1>16. AcyclicInv(EntryFile)
    <2>1. AtWork(EntryFile, EntryFile) BY <1>5, <1>6, <1>7 DEF AtWork
    <2>2. Inputs BY <1>1, <1>2 DEF Inputs
    <2>3. \A g : <<EntryFile, g>> \in Required => <<"require", g>> \in Range(expansion[1].todo)
      BY <1>5, <1>6, <2>2, RequiredIs
    <2>. QED BY <1>0, <1>5, <1>6, <1>12, <2>1, <2>3 DEF AcyclicInv
  <1>17. FailInv(EntryFile)
    <2>0. Inputs BY <1>1, <1>2 DEF Inputs
    <2>1. Fails(EntryFile) <=> EntryFile \in faulty
      BY <1>0, <1>5, <1>6, <1>8 DEF Fails
    <2>2. EntryFile \in faulty => ~Compiles(EntryFile, Req, Brg) BY <2>0, SoundIs, CompilesIs
    <2>. QED BY <1>0, <1>8, <1>12, <2>1, <2>2 DEF FailInv
  <1>18. BringInv(EntryFile)
    BY <1>0, <1>8, NoElement DEF BringInv
  <1>. QED BY <1>9, <1>10, <1>11, <1>13, <1>14, <1>15, <1>16, <1>17, <1>18 DEF GraphInv

\* The last call of a stack.
LEMMA LastIs ==
    ASSUME NEW S, NEW q \in Seq(S), q # <<>>
    PROVE  Len(q) \in Nat /\ Len(q) >= 1 /\ Len(q) \in DOMAIN q /\ q[Len(q)] \in S /\ DOMAIN q = 1..Len(q)
  OBVIOUS

\* A stack whose last call is replaced.
LEMMA ReplaceLast ==
    ASSUME NEW S, NEW q \in Seq(S), q # <<>>, NEW e \in S, NEW r, r = [q EXCEPT ![Len(q)] = e]
    PROVE  /\ r \in Seq(S) /\ Len(r) = Len(q) /\ DOMAIN r = DOMAIN q /\ r[Len(q)] = e
           /\ \A i \in DOMAIN q : i # Len(q) => r[i] = q[i]
  OBVIOUS

\* A stack whose last call has returned.
LEMMA FrontIs ==
    ASSUME NEW S, NEW q \in Seq(S), q # <<>>
    PROVE  /\ Front(q) \in Seq(S) /\ Len(Front(q)) = Len(q) - 1 /\ DOMAIN Front(q) = 1..(Len(q) - 1)
           /\ \A i \in 1..(Len(q) - 1) : Front(q)[i] = q[i]
  BY DEF Front

\* A stack with one more call.
LEMMA AppendIs ==
    ASSUME NEW S, NEW q \in Seq(S), NEW e \in S
    PROVE  /\ Append(q, e) \in Seq(S) /\ Len(Append(q, e)) = Len(q) + 1
           /\ DOMAIN Append(q, e) = 1..(Len(q) + 1) /\ Append(q, e)[Len(q) + 1] = e
           /\ \A i \in DOMAIN q : Append(q, e)[i] = q[i]
           /\ Len(q) \in Nat /\ DOMAIN q = 1..Len(q)
  OBVIOUS

\* The call of analyze that is under way.
LEMMA TopIs ==
    ASSUME GraphShape, frames # <<>>
    PROVE  /\ Len(frames) \in Nat /\ Len(frames) >= 1 /\ DOMAIN frames = 1..Len(frames)
           /\ Len(frames) \in DOMAIN frames /\ Top = frames[Len(frames)]
           /\ Top \in FrameSet /\ Top.module \in SourceFiles /\ Top.todo \in Seq(FileStatements)
           /\ Top.failed \in BOOLEAN
  <1>1. frames \in Seq(FrameSet) BY DEF GraphShape
  <1>2. Top \in FrameSet BY <1>1, LastIs DEF Top
  <1>. QED BY <1>1, <1>2, LastIs DEF Top, FrameSet

\* The call of expandRequires that is under way.
LEMMA CallIs ==
    ASSUME GraphShape, Expanding
    PROVE  /\ Len(expansion) \in Nat /\ Len(expansion) >= 1 /\ DOMAIN expansion = 1..Len(expansion)
           /\ Len(expansion) \in DOMAIN expansion /\ Call = expansion[Len(expansion)]
           /\ Call \in CallSet /\ Call.file \in SourceFiles /\ Call.todo \in Seq(FileStatements)
  <1>1. expansion \in Seq(CallSet) /\ expansion # <<>> BY DEF GraphShape, Expanding
  <1>2. Call \in CallSet BY <1>1, LastIs DEF Call
  <1>. QED BY <1>1, <1>2, LastIs DEF Call, CallSet

\* What the frames are after a step that leaves the calls of analyze in place:
\* the calls of analyze, whose last has failed or not
SameCalls(failed) ==
    /\ Len(frames') = Len(frames) /\ DOMAIN frames' = DOMAIN frames /\ frames' # <<>>
    /\ \A i \in DOMAIN frames : frames'[i].module = frames[i].module
    /\ \A i \in DOMAIN frames : i # Len(frames) => frames'[i] = frames[i]
    /\ frames'[Len(frames)].failed = failed

\* Nothing changes in the calls of analyze.
LEMMA SameCallsSame == ASSUME GraphShape, frames # <<>>, frames' = frames PROVE SameCalls(Top.failed)
  BY TopIs DEF SameCalls

\* The last call of analyze changes, but not its module.
LEMMA SameCallsChange ==
    ASSUME GraphShape, frames # <<>>, NEW fr \in FrameSet, fr.module = Top.module, ChangeTop(fr)
    PROVE  SameCalls(fr.failed) /\ frames' \in Seq(FrameSet) /\ frames'[Len(frames)] = fr
  <1>1. frames \in Seq(FrameSet) BY DEF GraphShape
  <1>2. frames' = [frames EXCEPT ![Len(frames)] = fr] BY DEF ChangeTop
  <1>3. /\ frames' \in Seq(FrameSet) /\ Len(frames') = Len(frames) /\ DOMAIN frames' = DOMAIN frames
        /\ frames'[Len(frames)] = fr /\ \A i \in DOMAIN frames : i # Len(frames) => frames'[i] = frames[i]
    BY <1>1, <1>2, ReplaceLast
  <1>4. frames' # <<>> BY <1>3, TopIs, NoElement
  <1>. QED BY <1>3, <1>4, TopIs DEF SameCalls

\* It is still the call for the same module.
LEMMA TopSame ==
    ASSUME GraphShape, frames # <<>>, NEW failed, SameCalls(failed)
    PROVE  (Top.module)' = Top.module /\ Top' = frames'[Len(frames)]
  BY TopIs DEF SameCalls, Top

\* A module fails with the call that analyses it.
LEMMA CallFails ==
    ASSUME GraphShape, frames # <<>>, NEW failed \in BOOLEAN, SameCalls(failed), Top.failed => failed, NEW m
    PROVE  (\E i \in DOMAIN frames' : frames'[i].module = m /\ frames'[i].failed)
             <=> ((\E i \in DOMAIN frames : frames[i].module = m /\ frames[i].failed) \/ (m = Top.module /\ failed))
  <1>1. ASSUME NEW i \in DOMAIN frames', frames'[i].module = m, frames'[i].failed
        PROVE  (\E j \in DOMAIN frames : frames[j].module = m /\ frames[j].failed) \/ (m = Top.module /\ failed)
    BY <1>1, TopIs DEF SameCalls
  <1>2. ASSUME NEW i \in DOMAIN frames, frames[i].module = m, frames[i].failed
        PROVE  \E j \in DOMAIN frames' : frames'[j].module = m /\ frames'[j].failed
    <2>1. CASE i = Len(frames)
      BY <1>2, <2>1, TopIs DEF SameCalls
    <2>2. CASE i # Len(frames)
      BY <1>2, <2>2 DEF SameCalls
    <2>. QED BY <2>1, <2>2
  <1>3. ASSUME m = Top.module, failed PROVE \E j \in DOMAIN frames' : frames'[j].module = m /\ frames'[j].failed
    BY <1>3, TopIs DEF SameCalls
  <1>. QED BY <1>1, <1>2, <1>3

\* What else has failed when only a call has.
LEMMA FailsThen ==
    ASSUME GraphShape, frames # <<>>, NEW failed \in BOOLEAN, SameCalls(failed), Top.failed => failed, state' = state,
           NEW m
    PROVE  Fails(m)' <=> (Fails(m) \/ (m = Top.module /\ failed))
  BY CallFails DEF Fails

\* A statement of the last call of expandRequires is done
StatementDone(calls) ==
    /\ calls \in Seq(CallSet) /\ Len(calls) = Len(expansion) /\ DOMAIN calls = DOMAIN expansion /\ calls # <<>>
    /\ \A i \in DOMAIN expansion : calls[i].file = expansion[i].file
    /\ \A i \in DOMAIN expansion : i # Len(expansion) => calls[i].todo = expansion[i].todo
    /\ calls[Len(expansion)].todo = Tail(Call.todo)

\* A statement is taken from the last call of expandRequires.
LEMMA HandledIs == ASSUME GraphShape, Expanding, Call.todo # <<>> PROVE StatementDone(Handled)
  <1>1. expansion \in Seq(CallSet) /\ expansion # <<>> BY DEF GraphShape, Expanding
  <1>. DEFINE c == [Call EXCEPT !.todo = Tail(@)]
  <1>2. c \in CallSet /\ c.file = Call.file /\ c.todo = Tail(Call.todo)
    <2>1. Tail(Call.todo) \in Seq(FileStatements) BY CallIs, RangeTail
    <2>. QED BY <2>1, CallIs DEF CallSet
  <1>3. Handled = [expansion EXCEPT ![Len(expansion)] = c] BY CallIs DEF Handled, Call
  <1>. HIDE DEF c
  <1>4. /\ Handled \in Seq(CallSet) /\ Len(Handled) = Len(expansion) /\ DOMAIN Handled = DOMAIN expansion
        /\ Handled[Len(expansion)] = c /\ \A i \in DOMAIN expansion : i # Len(expansion) => Handled[i] = expansion[i]
    BY <1>1, <1>2, <1>3, ReplaceLast
  <1>5. Handled # <<>> BY <1>4, CallIs, NoElement
  <1>. QED BY <1>2, <1>4, <1>5, CallIs DEF StatementDone

\* The statement that was taken is the only one that no longer waits.
LEMMA HeadIs ==
    ASSUME GraphShape, Expanding, Call.todo # <<>>, NEW calls, StatementDone(calls)
    PROVE  /\ Head(Call.todo) \in FileStatements
           /\ Range(Call.todo) = Range(calls[Len(expansion)].todo) \cup {Head(Call.todo)}
  BY CallIs, RangeTail DEF StatementDone

\* The calls of analyze keep their part of the invariant while they stay the
\* same.
LEMMA FrameInvSame ==
    ASSUME GraphShape, FrameInv, frames # <<>>, UNCHANGED inputs, NEW failed, SameCalls(failed),
           \A i \in DOMAIN frames : /\ Range(frames'[i].todo) \subseteq Range(body'[frames[i].module])
                                    /\ state'[frames[i].module] \in {"resolving", "failed"},
           \A m \in SourceFiles : state'[m] = "resolving" => state[m] = "resolving",
           expansion' = <<>> \/ expansion'[1].file = Top.module
    PROVE  FrameInv'
  <1>1. present' = present /\ Brg' = Brg BY GraphFixed DEF inputs
  <1>2. \A i \in DOMAIN frames' : /\ frames'[i].module \in present'
                                  /\ state'[frames'[i].module] \in {"resolving", "failed"}
                                  /\ Range(frames'[i].todo) \subseteq Range(body'[frames'[i].module])
    BY <1>1 DEF FrameInv, SameCalls
  <1>3. \A i, j \in DOMAIN frames' : i < j =>
           frames'[i].module # frames'[j].module /\ <<frames'[i].module, frames'[j].module>> \in Brg'
    BY <1>1 DEF FrameInv, SameCalls
  <1>4. \A m \in SourceFiles : state'[m] = "resolving" => \E i \in DOMAIN frames' : frames'[i].module = m
    BY DEF FrameInv, SameCalls
  <1>5. expansion' # <<>> => frames' # <<>> /\ expansion'[1].file = (Top.module)'
    BY TopSame DEF SameCalls
  <1>. QED BY <1>2, <1>3, <1>4, <1>5 DEF FrameInv, Expanding

\* A statement is done: the same files are at work, and all others of its
\* statements wait.
LEMMA StackDone ==
    ASSUME GraphShape, StackInv, Expanding, Call.todo # <<>>, NEW calls, StatementDone(calls)
    PROVE  /\ \A f : (\E i \in DOMAIN calls : calls[i].file = f) <=> (\E i \in DOMAIN expansion : expansion[i].file = f)
           /\ \A f, s : (\E i \in DOMAIN expansion : expansion[i].file = f /\ s \in Range(expansion[i].todo))
                => \/ \E i \in DOMAIN calls : calls[i].file = f /\ s \in Range(calls[i].todo)
                   \/ f = Call.file /\ s = Head(Call.todo)
           /\ \A i \in DOMAIN expansion : Range(calls[i].todo) \subseteq Range(expansion[i].todo)
           /\ \A i \in DOMAIN expansion : \A s \in Range(expansion[i].todo) :
                s \in Range(calls[i].todo) \/ (i = Len(expansion) /\ s = Head(Call.todo))
  <1>1. \A i \in DOMAIN expansion : \A s \in Range(expansion[i].todo) :
                s \in Range(calls[i].todo) \/ (i = Len(expansion) /\ s = Head(Call.todo))
    <2>1. ASSUME NEW i \in DOMAIN expansion, i = Len(expansion), NEW s \in Range(expansion[i].todo)
          PROVE  s \in Range(calls[i].todo) \/ s = Head(Call.todo)
      BY <2>1, HeadIs, CallIs
    <2>2. ASSUME NEW i \in DOMAIN expansion, i # Len(expansion), NEW s \in Range(expansion[i].todo)
          PROVE  s \in Range(calls[i].todo)
      BY <2>2 DEF StatementDone
    <2>. QED BY <2>1, <2>2
  <1>2. \A i \in DOMAIN expansion : Range(calls[i].todo) \subseteq Range(expansion[i].todo)
    <2>1. Range(calls[Len(expansion)].todo) \subseteq Range(expansion[Len(expansion)].todo)
      BY HeadIs, CallIs
    <2>2. \A i \in DOMAIN expansion : i # Len(expansion) => Range(calls[i].todo) = Range(expansion[i].todo)
      BY DEF StatementDone
    <2>. QED BY <2>1, <2>2
  <1>3. \A f : (\E i \in DOMAIN calls : calls[i].file = f) <=> (\E i \in DOMAIN expansion : expansion[i].file = f)
    BY DEF StatementDone
  <1>4. \A f, s : (\E i \in DOMAIN expansion : expansion[i].file = f /\ s \in Range(expansion[i].todo))
                => \/ \E i \in DOMAIN calls : calls[i].file = f /\ s \in Range(calls[i].todo)
                   \/ f = Call.file /\ s = Head(Call.todo)
    BY <1>1, CallIs DEF StatementDone
  <1>. QED BY <1>1, <1>2, <1>3, <1>4

\* The same, said of the module whose walk it is.
LEMMA WorkDone ==
    ASSUME GraphShape, StackInv, Expanding, Call.todo # <<>>, StatementDone(expansion'),
           (Top.module)' = Top.module
    PROVE  /\ \A m, f : AtWork(m, f)' <=> AtWork(m, f)
           /\ \A m, f, s : Waiting(m, f, s) =>
                Waiting(m, f, s)' \/ (m = Top.module /\ f = Call.file /\ s = Head(Call.todo))
  <1>1. \A f : (\E i \in DOMAIN expansion' : expansion'[i].file = f) <=> (\E i \in DOMAIN expansion : expansion[i].file = f)
    BY StackDone
  <1>2. \A f, s : (\E i \in DOMAIN expansion : expansion[i].file = f /\ s \in Range(expansion[i].todo))
                => \/ \E i \in DOMAIN expansion' : expansion'[i].file = f /\ s \in Range(expansion'[i].todo)
                   \/ f = Call.file /\ s = Head(Call.todo)
    BY StackDone
  <1>3. ASSUME NEW m, NEW f PROVE AtWork(m, f)' <=> AtWork(m, f)
    BY <1>1 DEF AtWork
  <1>4. ASSUME NEW m, NEW f, NEW s, Waiting(m, f, s)
        PROVE  Waiting(m, f, s)' \/ (m = Top.module /\ f = Call.file /\ s = Head(Call.todo))
    BY <1>2, <1>4 DEF Waiting
  <1>. QED BY <1>3, <1>4

\* The stack of expandRequires stays a path of requires.
LEMMA StackInvDone ==
    ASSUME GraphShape, StackInv, Expanding, Call.todo # <<>>, StatementDone(expansion'), UNCHANGED inputs,
           (Top.module)' = Top.module, Merged(Top.module) \subseteq Merged(Top.module)'
    PROVE  StackInv'
  <1>1. text' = text /\ Req' = Req BY GraphFixed DEF inputs
  <1>2. \A i \in DOMAIN expansion' : expansion'[i].file = expansion[i].file /\ i \in DOMAIN expansion
    BY DEF StatementDone
  <1>3. \A i \in DOMAIN expansion' : expansion'[i].file \in Merged(Top.module)'
    BY <1>2 DEF StackInv
  <1>4. \A i \in DOMAIN expansion' : Range(expansion'[i].todo) \subseteq Range(text'[expansion'[i].file])
    BY <1>1, <1>2, StackDone DEF StackInv
  <1>5. \A i, j \in DOMAIN expansion' : i < j =>
          expansion'[i].file # expansion'[j].file /\ <<expansion'[i].file, expansion'[j].file>> \in Req'
    BY <1>1, <1>2 DEF StackInv
  <1>. QED BY <1>3, <1>4, <1>5 DEF StackInv

\* A statement that does not lead back to the stack leaves the search for cycles
\* as it was.
LEMMA AcyclicDone ==
    ASSUME GraphShape, StackInv, Expanding, Call.todo # <<>>, StatementDone(expansion'), UNCHANGED inputs,
           (Top.module)' = Top.module, NEW m, AcyclicInv(m), Merged(m)' = Merged(m),
           ~cycles'[m] => ~cycles[m] /\ (m = Top.module =>
               \A g \in present : Head(Call.todo) = <<"require", g>> => ~AtWork(m, g))
    PROVE  AcyclicInv(m)'
  <1>. SUFFICES ASSUME ~cycles'[m] PROVE AcyclicInv(m)' BY DEF AcyclicInv
  <1>1. Required' = Required /\ Req' = Req /\ present' = present BY GraphFixed DEF inputs
  <1>2. \A f \in Merged(m)' : ~AtWork(m, f)' =>
              <<f, f>> \notin Req' /\ \A g \in present' : <<f, g>> \in Required' => ~AtWork(m, g)'
    BY <1>1, WorkDone DEF AcyclicInv
  <1>3. ASSUME NEW i \in DOMAIN expansion', m = (Top.module)', NEW g \in present', <<expansion'[i].file, g>> \in Required'
        PROVE  \/ <<"require", g>> \in Range(expansion'[i].todo)
               \/ ~AtWork(m, g)'
               \/ i + 1 \in DOMAIN expansion' /\ g = expansion'[i + 1].file
    <2>1. i \in DOMAIN expansion /\ <<expansion[i].file, g>> \in Required /\ g \in present /\ m = Top.module
      BY <1>1, <1>3 DEF StatementDone
    <2>2. CASE <<"require", g>> \in Range(expansion[i].todo)
      <3>1. CASE <<"require", g>> = Head(Call.todo)
        BY <2>1, <3>1, WorkDone
      <3>2. CASE <<"require", g>> # Head(Call.todo)
        BY <2>1, <2>2, <3>2, StackDone
      <3>. QED BY <3>1, <3>2
    <2>3. CASE ~AtWork(m, g) BY <2>3, WorkDone
    <2>4. CASE i + 1 \in DOMAIN expansion /\ g = expansion[i + 1].file
      BY <2>4 DEF StatementDone
    <2>. QED BY <2>1, <2>2, <2>3, <2>4 DEF AcyclicInv
  <1>. HIDE DEF AcyclicInv
  <1>. QED BY <1>2, <1>3 DEF AcyclicInv

\* Every statement is waiting or dealt with after one is done.
LEMMA DealtDone ==
    ASSUME GraphShape, StackInv, Expanding, Call.todo # <<>>, StatementDone(expansion'), UNCHANGED inputs,
           (Top.module)' = Top.module, NEW m, DealtInv(m), Merged(m)' = Merged(m),
           Range(body[m]) \subseteq Range(body'[m]), unresolved[m] \subseteq unresolved'[m], Fails(m) => Fails(m)',
           NEW done, done = Head(Call.todo), m = Top.module => Dealt(m, done)'
    PROVE  DealtInv(m)'
  <1>1. text' = text /\ present' = present BY DEF inputs
  <1>2. \A s : Dealt(m, s) => Dealt(m, s)' BY <1>1 DEF Dealt
  <1>3. ASSUME NEW f \in Merged(m), NEW s \in Range(text[f]) PROVE Waiting(m, f, s)' \/ Dealt(m, s)'
    <2>1. CASE Waiting(m, f, s) BY <2>1, WorkDone
    <2>2. CASE Dealt(m, s) BY <2>2, <1>2
    <2>. QED BY <1>3, <2>1, <2>2 DEF DealtInv
  <1>. QED BY <1>1, <1>3 DEF DealtInv

\* The module under analysis is a known file.
LEMMA TopKnown ==
    ASSUME GraphInv, frames # <<>>
    PROVE  LET M == Top.module IN
           M \in SourceFiles /\ M \in present /\ Known(M)
           /\ FoundInv(M) /\ DealtInv(M) /\ AcyclicInv(M) /\ FailInv(M) /\ BringInv(M)
  <1>1. Top.module \in SourceFiles /\ Len(frames) \in DOMAIN frames /\ Top = frames[Len(frames)]
    BY TopIs DEF GraphInv
  <1>2. Top.module \in present /\ state[Top.module] \in {"resolving", "failed"}
    BY <1>1 DEF GraphInv, FrameInv
  <1>. QED BY <1>1, <1>2 DEF GraphInv, Known

\* The file whose statements are handled, and the stack above it: the check for a
\* cycle looks at exactly the files that lead to it.
LEMMA CallFacts ==
    ASSUME GraphInv, Expanding, Call.todo # <<>>
    PROVE  /\ frames # <<>> /\ Call.file \in Merged(Top.module) /\ AtWork(Top.module, Call.file)
           /\ Head(Call.todo) \in FileStatements /\ Head(Call.todo) \in Range(text[Call.file])
           /\ \A f : f \in Stack <=> AtWork(Top.module, f)
           /\ \A f : AtWork(Top.module, f) => f \in Merged(Top.module)
           /\ \A f : AtWork(Top.module, f) => f = Call.file \/ <<f, Call.file>> \in Req
           /\ AtWork(Top.module, Top.module)
  <1>0. GraphShape /\ FrameInv /\ StackInv BY DEF GraphInv
  <1>1. frames # <<>> /\ expansion[1].file = Top.module BY <1>0 DEF FrameInv
  <1>2. Call = expansion[Len(expansion)] /\ Len(expansion) \in DOMAIN expansion /\ DOMAIN expansion = 1..Len(expansion)
        /\ Len(expansion) \in Nat /\ Len(expansion) >= 1
    BY <1>0, CallIs
  <1>3. Call.file \in Merged(Top.module) /\ Range(Call.todo) \subseteq Range(text[Call.file])
    BY <1>0, <1>2 DEF StackInv
  <1>4. Head(Call.todo) \in FileStatements /\ Head(Call.todo) \in Range(Call.todo)
    BY <1>0, CallIs, RangeTail
  <1>5. \A f : f \in Stack <=> AtWork(Top.module, f) BY DEF Stack, AtWork
  <1>6. \A f : AtWork(Top.module, f) => f \in Merged(Top.module) BY <1>0 DEF StackInv, AtWork
  <1>7. ASSUME NEW f, AtWork(Top.module, f) PROVE f = Call.file \/ <<f, Call.file>> \in Req
    <2>1. PICK i \in DOMAIN expansion : expansion[i].file = f BY <1>7 DEF AtWork
    <2>2. i = Len(expansion) \/ i < Len(expansion) BY <1>2
    <2>. QED BY <2>1, <2>2, <1>0, <1>2 DEF StackInv
  <1>8. AtWork(Top.module, Call.file) BY <1>2 DEF AtWork
  <1>9. AtWork(Top.module, Top.module) BY <1>1, <1>2 DEF AtWork
  <1>. QED BY <1>1, <1>3, <1>4, <1>5, <1>6, <1>7, <1>8, <1>9

\* A module of which nothing changes keeps what was found.
LEMMA OthersSame ==
    ASSUME UNCHANGED inputs, NEW m, resolved'[m] = resolved[m], body'[m] = body[m], cycles'[m] = cycles[m],
           unresolved'[m] = unresolved[m], state'[m] = state[m], FoundInv(m)
    PROVE  FoundInv(m)' /\ Merged(m)' = Merged(m)
  <1>1. present' = present /\ text' = text /\ Req' = Req BY GraphFixed DEF inputs
  <1>2. Merged(m)' = Merged(m) BY DEF Merged
  <1>3. After(m, Req)' = After(m, Req) BY <1>1 DEF After
  <1>. QED BY <1>1, <1>2, <1>3 DEF FoundInv, Known

\* A bring that was to be done still is while files are expanded.
LEMMA ToBringStays ==
    ASSUME GraphShape, frames # <<>>, Expanding, expansion' # <<>>, NEW failed, SameCalls(failed),
           \A i \in DOMAIN frames : frames'[i].todo = frames[i].todo, NEW m, NEW s, ToBring(m, s)
    PROVE  ToBring(m, s)'
  <1>1. PICK i \in DOMAIN frames : frames[i].module = m /\ (s \in Range(frames[i].todo) \/ (i = Len(frames) /\ Expanding))
    BY DEF ToBring
  <1>2. i \in DOMAIN frames' /\ frames'[i].module = m /\ frames'[i].todo = frames[i].todo /\ Len(frames') = Len(frames)
    BY <1>1 DEF SameCalls
  <1>3. Expanding' BY DEF Expanding
  <1>. QED BY <1>1, <1>2, <1>3 DEF ToBring

\* Expanding files decides nothing about brings.
LEMMA BringInvStays ==
    ASSUME GraphShape, frames # <<>>, Expanding, expansion' # <<>>, NEW failed, SameCalls(failed),
           \A i \in DOMAIN frames : frames'[i].todo = frames[i].todo, UNCHANGED inputs, state' = state,
           NEW m, BringInv(m), Fails(m) => Fails(m)',
           \A s \in Range(body'[m]) : s \in Range(body[m]) \/ m = Top.module
    PROVE  BringInv(m)'
  <1>1. ASSUME NEW s \in Range(body'[m]) PROVE ToBring(m, s)' \/ Fails(m)' \/ state'[s[2]] = "resolved"
    <2>1. CASE s \in Range(body[m]) BY <2>1, ToBringStays DEF BringInv
    <2>2. CASE m = Top.module
      <3>1. Len(frames) \in DOMAIN frames' /\ frames'[Len(frames)].module = m /\ Len(frames') = Len(frames)
        BY <2>2, TopIs DEF SameCalls
      <3>2. Expanding' BY DEF Expanding
      <3>. QED BY <3>1, <3>2 DEF ToBring
    <2>. QED BY <1>1, <2>1, <2>2
  <1>2. state'[m] = "resolved" => Compiles(m, Req, Brg)' BY GraphFixed DEF BringInv
  <1>. QED BY <1>1, <1>2 DEF BringInv

\* KeepStatement keeps the types.
LEMMA KeepShape == ASSUME GraphShape, frames # <<>>, KeepStatement PROVE GraphShape' /\ StatementDone(expansion')
  <1>1. StatementDone(expansion') BY HandledIs DEF KeepStatement
  <1>2. Head(Call.todo) \in FileStatements BY CallIs, RangeTail DEF KeepStatement
  <1>3. body' \in [SourceFiles -> Seq(FileStatements)]
    <2>1. Top.module \in SourceFiles BY TopIs
    <2>2. Append(body[Top.module], Head(Call.todo)) \in Seq(FileStatements) BY <1>2, <2>1, RangeAppend DEF GraphShape
    <2>3. body' = [body EXCEPT ![Top.module] = Append(body[Top.module], Head(Call.todo))] BY DEF KeepStatement
    <2>. QED BY <2>1, <2>2, <2>3 DEF GraphShape
  <1>. QED BY <1>1, <1>3 DEF KeepStatement, GraphShape, StatementDone, inputs

\* expandRequires keeps a statement that is no require.
LEMMA KeepStep == ASSUME GraphInv, KeepStatement PROVE GraphInv'
  <1>0. GraphShape /\ FrameInv /\ StackInv /\ Expanding /\ Call.todo # <<>> /\ Inputs
    BY ShapeInputs DEF GraphInv, KeepStatement
  <1>1. frames # <<>> BY CallFacts, <1>0
  <1>2. GraphShape' /\ StatementDone(expansion') BY <1>0, <1>1, KeepShape
  <1>m. PICK M : M = Top.module OBVIOUS
  <1>s. PICK s0 : s0 = Head(Call.todo) OBVIOUS
  <1>3. /\ UNCHANGED inputs /\ state' = state /\ frames' = frames /\ resolved' = resolved /\ cycles' = cycles
        /\ unresolved' = unresolved /\ s0[1] = "bring"
        /\ body' = [body EXCEPT ![M] = Append(@, s0)]
    BY <1>m, <1>s DEF KeepStatement
  <1>4. /\ M \in SourceFiles /\ M \in present /\ Known(M)
        /\ FoundInv(M) /\ DealtInv(M) /\ AcyclicInv(M) /\ FailInv(M) /\ BringInv(M)
    BY <1>m, <1>1, TopKnown
  <1>5. /\ Call.file \in Merged(M) /\ s0 \in FileStatements /\ s0 \in Range(text[Call.file])
    BY <1>m, <1>s, <1>0, CallFacts
  <1>6. SameCalls(Top.failed) BY <1>0, <1>1, <1>3, SameCallsSame
  <1>7. (Top.module)' = Top.module BY <1>3 DEF Top
  <1>8. body[M] \in Seq(FileStatements) /\ body \in [SourceFiles -> Seq(FileStatements)] BY <1>0, <1>4 DEF GraphShape
  <1>9. Range(body'[M]) = Range(body[M]) \cup {s0} /\ \A m \in SourceFiles : m # M => body'[m] = body[m]
    BY <1>3, <1>4, <1>5, <1>8, RangeAppend
  <1>10. \A m \in SourceFiles : Range(body[m]) \subseteq Range(body'[m]) BY <1>9
  <1>11. \A m : Merged(m)' = Merged(m) BY <1>3 DEF Merged
  <1>12. expansion' # <<>> /\ expansion'[1].file = Top.module
    BY <1>0, <1>2, CallIs DEF StatementDone, FrameInv
  <1>13. \A m : Fails(m)' <=> Fails(m) BY <1>3 DEF Fails
  <1>14. FrameInv'
    <2>1. \A i \in DOMAIN frames : /\ Range(frames'[i].todo) \subseteq Range(body'[frames[i].module])
                                   /\ state'[frames[i].module] \in {"resolving", "failed"}
      BY <1>0, <1>3, <1>10 DEF FrameInv, Inputs
    <2>. QED BY <1>0, <1>1, <1>3, <1>6, <1>12, <2>1, FrameInvSame
  <1>15. StackInv' BY <1>0, <1>2, <1>3, <1>7, <1>11, StackInvDone
  <1>16. ASSUME NEW m \in SourceFiles PROVE FoundInv(m)'
    <2>1. CASE m # M BY <2>1, <1>3, <1>9, OthersSame DEF GraphInv
    <2>2. CASE m = M
      <3>1. present' = present /\ text' = text /\ Req' = Req BY <1>3, GraphFixed DEF inputs
      <3>2. After(m, Req)' = After(m, Req) BY <3>1 DEF After
      <3>3. \A s \in Range(body'[m]) : s[1] = "bring" /\ \E f \in Merged(m)' : s \in Range(text'[f])
        BY <1>3, <1>4, <1>5, <1>9, <1>11, <2>2, <3>1 DEF FoundInv
      <3>4. Known(m)' BY <1>3, <1>4, <2>2 DEF Known
      <3>. QED BY <1>3, <1>4, <1>11, <2>2, <3>1, <3>2, <3>3, <3>4 DEF FoundInv
    <2>. QED BY <2>1, <2>2
  <1>17. ASSUME NEW m \in SourceFiles, Known(m)'
         PROVE  DealtInv(m)' /\ AcyclicInv(m)' /\ FailInv(m)' /\ BringInv(m)'
    <2>0. Known(m) /\ DealtInv(m) /\ AcyclicInv(m) /\ FailInv(m) /\ BringInv(m)
      BY <1>3, <1>17 DEF Known, GraphInv
    <2>1. DealtInv(m)'
      <3>1. m = Top.module => Dealt(m, s0)' BY <1>m, <1>3, <1>9 DEF Dealt
      <3>. QED BY <1>0, <1>2, <1>3, <1>7, <1>10, <1>11, <1>13, <1>s, <2>0, <3>1, DealtDone
    <2>2. AcyclicInv(m)'
      <3>1. \A g : Head(Call.todo) # <<"require", g>> BY <1>s, <1>3
      <3>. QED BY <1>0, <1>2, <1>3, <1>7, <1>11, <2>0, <3>1, AcyclicDone
    <2>3. FailInv(m)'
      <3>1. faulty' = faulty BY <1>3 DEF inputs
      <3>. QED BY <1>3, <1>11, <1>13, <2>0, <3>1, GraphFixed DEF FailInv
    <2>4. BringInv(m)'
      <3>1. \A s \in Range(body'[m]) : s \in Range(body[m]) \/ m = Top.module BY <1>m, <1>9
      <3>2. \A i \in DOMAIN frames : frames'[i].todo = frames[i].todo BY <1>3
      <3>. QED BY <1>0, <1>1, <1>3, <1>6, <1>12, <1>13, <2>0, <3>1, <3>2, BringInvStays
    <2>. QED BY <2>1, <2>2, <2>3, <2>4
  <1>. QED BY <1>2, <1>14, <1>15, <1>16, <1>17 DEF GraphInv

\* The module under analysis fails.
LEMMA FailedTop ==
    ASSUME GraphShape, frames # <<>>, NEW failed \in BOOLEAN, ChangeTop([Top EXCEPT !.failed = failed])
    PROVE  /\ SameCalls(failed) /\ frames' \in Seq(FrameSet)
           /\ \A i \in DOMAIN frames : frames'[i].todo = frames[i].todo
  <1>1. PICK fr : fr = [Top EXCEPT !.failed = failed] OBVIOUS
  <1>2. fr \in FrameSet /\ fr.module = Top.module /\ fr.todo = Top.todo /\ fr.failed = failed
    BY <1>1, TopIs DEF FrameSet
  <1>3. ChangeTop(fr) BY <1>1
  <1>4. SameCalls(failed) /\ frames' \in Seq(FrameSet) /\ frames'[Len(frames)] = fr
    BY <1>2, <1>3, SameCallsChange
  <1>5. \A i \in DOMAIN frames : frames'[i].todo = frames[i].todo
    BY <1>2, <1>4, TopIs DEF SameCalls
  <1>. QED BY <1>4, <1>5

\* A require that is refused, closes a cycle or names a file that is not there.
LEMMA RequireFailsStep == ASSUME GraphInv, NEW f \in Files, RequireFails(f) PROVE GraphInv'
  <1>0. GraphShape /\ FrameInv /\ StackInv /\ Expanding /\ Call.todo # <<>> /\ Inputs
    BY ShapeInputs DEF GraphInv, RequireFails, Requires
  <1>1. frames # <<>> BY CallFacts, <1>0
  <1>m. PICK M : M = Top.module OBVIOUS
  <1>s. PICK s0 : s0 = Head(Call.todo) OBVIOUS
  <1>3. /\ UNCHANGED inputs /\ state' = state /\ resolved' = resolved /\ body' = body
        /\ s0 = <<"require", f>>
        /\ ChangeTop([Top EXCEPT !.failed = TRUE])
        /\ cycles' = [cycles EXCEPT ![M] = @ \/ (~Refused(f) /\ ClosesCycle(f))]
        /\ unresolved' = IF Refused(f) \/ ClosesCycle(f) THEN unresolved
                         ELSE [unresolved EXCEPT ![M] = @ \cup {f}]
        /\ Refused(f) \/ ClosesCycle(f) \/ (~AlreadyMerged(f) /\ f \notin present)
    BY <1>m, <1>s DEF RequireFails, Requires, TopFails
  <1>4. /\ M \in SourceFiles /\ M \in present /\ Known(M)
        /\ FoundInv(M) /\ DealtInv(M) /\ AcyclicInv(M) /\ FailInv(M) /\ BringInv(M)
    BY <1>m, <1>1, TopKnown
  <1>5. /\ Call.file \in Merged(M) /\ s0 \in FileStatements /\ s0 \in Range(text[Call.file])
        /\ \A g : ClosesCycle(g) <=> AtWork(M, g)
        /\ \A g : AtWork(M, g) => g \in Merged(M) /\ (g = Call.file \/ <<g, Call.file>> \in Req)
    BY <1>m, <1>s, <1>0, CallFacts DEF ClosesCycle
  <1>6. SameCalls(TRUE) /\ frames' \in Seq(FrameSet) /\ \A i \in DOMAIN frames : frames'[i].todo = frames[i].todo
    BY <1>0, <1>1, <1>3, FailedTop
  <1>7. (Top.module)' = Top.module BY <1>0, <1>1, <1>6, TopSame
  <1>8. StatementDone(expansion') BY <1>0, HandledIs DEF RequireFails
  <1>9. /\ \A m \in SourceFiles : m # M => cycles'[m] = cycles[m] /\ unresolved'[m] = unresolved[m]
        /\ cycles'[M] <=> (cycles[M] \/ (~Refused(f) /\ ClosesCycle(f)))
        /\ unresolved'[M] = IF Refused(f) \/ ClosesCycle(f) THEN unresolved[M] ELSE unresolved[M] \cup {f}
        /\ cycles'[M] \in BOOLEAN
    <2>1. cycles \in [SourceFiles -> BOOLEAN] /\ unresolved \in [SourceFiles -> SUBSET SourceFiles]
      BY <1>0 DEF GraphShape
    <2>2. cycles'[M] = (cycles[M] \/ (~Refused(f) /\ ClosesCycle(f))) BY <2>1, <1>3, <1>4
    <2>3. \A m \in SourceFiles : m # M => cycles'[m] = cycles[m] /\ unresolved'[m] = unresolved[m]
      BY <2>1, <1>3, <1>4
    <2>4. unresolved'[M] = IF Refused(f) \/ ClosesCycle(f) THEN unresolved[M] ELSE unresolved[M] \cup {f}
      BY <2>1, <1>3, <1>4
    <2>5. cycles[M] \in BOOLEAN BY <2>1, <1>4
    <2>. QED BY <2>2, <2>3, <2>4, <2>5
  <1>10. GraphShape'
    <2>1. cycles' \in [SourceFiles -> BOOLEAN]
      <3>1. cycles \in [SourceFiles -> BOOLEAN] /\ (cycles[M] \/ (~Refused(f) /\ ClosesCycle(f))) \in BOOLEAN
        BY <1>0, <1>4 DEF GraphShape
      <3>. QED BY <1>3, <3>1
    <2>2. unresolved' \in [SourceFiles -> SUBSET SourceFiles]
      <3>1. ~Refused(f) => f \in SourceFiles BY DEF Refused, Files
      <3>2. unresolved \in [SourceFiles -> SUBSET SourceFiles] BY <1>0 DEF GraphShape
      <3>. QED BY <1>3, <3>1, <3>2
    <2>. QED BY <1>0, <1>3, <1>6, <1>8, <2>1, <2>2 DEF GraphShape, StatementDone, inputs
  <1>11. \A m : Merged(m)' = Merged(m) BY <1>3 DEF Merged
  <1>12. expansion' # <<>> /\ expansion'[1].file = Top.module
    BY <1>0, <1>8, CallIs DEF StatementDone, FrameInv
  <1>13. \A m : Fails(m)' <=> (Fails(m) \/ m = M)
    BY <1>m, <1>0, <1>1, <1>3, <1>6, FailsThen
  <1>14. FrameInv'
    <2>1. \A i \in DOMAIN frames : /\ Range(frames'[i].todo) \subseteq Range(body'[frames[i].module])
                                   /\ state'[frames[i].module] \in {"resolving", "failed"}
      BY <1>0, <1>3, <1>6 DEF FrameInv
    <2>. QED BY <1>0, <1>1, <1>3, <1>6, <1>12, <2>1, FrameInvSame
  <1>15. StackInv' BY <1>0, <1>8, <1>3, <1>7, <1>11, StackInvDone
  <1>16. present' = present /\ text' = text /\ Req' = Req /\ faulty' = faulty BY <1>3, GraphFixed DEF inputs
  <1>17. <<Call.file, f>> \in Required /\ <<Call.file, f>> \in Req /\ <<M, f>> \in Req
    BY <1>0, <1>3, <1>4, <1>5, EdgeOnward
  <1>18. ClosesCycle(f) => <<f, f>> \in Req
    BY <1>0, <1>5, <1>17, RequiredIs, PathsJoin DEF Req
  <1>19. ASSUME NEW m \in SourceFiles PROVE FoundInv(m)'
    <2>1. CASE m # M BY <2>1, <1>3, <1>9, OthersSame DEF GraphInv
    <2>2. CASE m = M
      <3>1. After(m, Req)' = After(m, Req) BY <1>16 DEF After
      <3>2. unresolved'[m] \subseteq After(m, Req) \ present
        <4>1. f \in After(m, Req) BY <1>0, <1>17, <2>2, RequiredIs, InAfter
        <4>2. ~Refused(f) /\ ~ClosesCycle(f) => f \notin present BY <1>3
        <4>. QED BY <1>4, <1>9, <2>2, <4>1, <4>2 DEF FoundInv
      <3>3. cycles'[m] => \E g \in Merged(m) : <<g, g>> \in Req
        BY <1>4, <1>5, <1>9, <1>18, <2>2 DEF FoundInv
      <3>4. Known(m)' BY <1>3, <1>4, <2>2 DEF Known
      <3>. QED BY <1>3, <1>4, <1>11, <1>16, <2>2, <3>1, <3>2, <3>3, <3>4 DEF FoundInv
    <2>. QED BY <2>1, <2>2
  <1>20. ~Compiles(M, Req, Brg)
    <2>1. CASE Refused(f)
      <3>1. f \notin present BY <2>1, <1>0, GraphAssumption DEF Refused, Inputs
      <3>. QED BY <3>1, <1>0, <1>17, SoundIs, CompilesIs
    <2>2. CASE ClosesCycle(f) BY <2>2, <1>0, <1>17, <1>18, SoundIs, CompilesIs
    <2>3. CASE f \notin present BY <2>3, <1>0, <1>17, SoundIs, CompilesIs
    <2>. QED BY <2>1, <2>2, <2>3, <1>3
  <1>21. ASSUME NEW m \in SourceFiles, Known(m)'
         PROVE  DealtInv(m)' /\ AcyclicInv(m)' /\ FailInv(m)' /\ BringInv(m)'
    <2>0. Known(m) /\ DealtInv(m) /\ AcyclicInv(m) /\ FailInv(m) /\ BringInv(m)
      BY <1>3, <1>21 DEF Known, GraphInv
    <2>1. DealtInv(m)'
      <3>1. f \in Merged(M) \/ (f \notin present /\ f \in unresolved'[M] \cup {Outside})
        <4>1. CASE Refused(f)
          BY <4>1, <1>0, GraphAssumption DEF Refused, Inputs
        <4>2. CASE ClosesCycle(f) BY <4>2, <1>5
        <4>3. CASE ~Refused(f) /\ ~ClosesCycle(f) BY <4>3, <1>3, <1>9
        <4>. QED BY <4>1, <4>2, <4>3
      <3>2. m = Top.module => Dealt(m, s0)'
        <4>1. s0[1] # "bring" /\ s0[2] = f BY <1>3
        <4>. QED BY <1>m, <1>11, <1>13, <1>16, <3>1, <4>1 DEF Dealt
      <3>3. Range(body[m]) \subseteq Range(body'[m]) /\ unresolved[m] \subseteq unresolved'[m]
        BY <1>3, <1>9
      <3>. QED BY <1>0, <1>3, <1>7, <1>8, <1>11, <1>13, <1>s, <2>0, <3>2, <3>3, DealtDone
    <2>2. AcyclicInv(m)'
      <3>1. ~cycles'[m] => ~cycles[m] /\ (m = Top.module =>
               \A g \in present : Head(Call.todo) = <<"require", g>> => ~AtWork(m, g))
        <4>1. ~cycles'[m] => ~cycles[m] BY <1>9
        <4>2. ASSUME ~cycles'[m], m = Top.module, NEW g \in present, Head(Call.todo) = <<"require", g>>
              PROVE  ~AtWork(m, g)
          <5>1. g = f BY <4>2, <1>s, <1>3
          <5>2. ~Refused(f) BY <5>1, <1>0, GraphAssumption DEF Refused, Inputs
          <5>. QED BY <5>1, <5>2, <4>2, <1>m, <1>5, <1>9
        <4>. QED BY <4>1, <4>2
      <3>. QED BY <1>0, <1>3, <1>7, <1>8, <1>11, <2>0, <3>1, AcyclicDone
    <2>3. FailInv(m)'
      <3>1. cycles'[m] \/ Merged(m)' \cap faulty' # {} => Fails(m)'
        BY <1>9, <1>11, <1>13, <1>16, <2>0 DEF FailInv
      <3>2. Fails(m)' => ~Compiles(m, Req, Brg)'
        BY <1>3, <1>13, <1>20, <2>0, GraphFixed DEF FailInv
      <3>. QED BY <3>1, <3>2 DEF FailInv
    <2>4. BringInv(m)'
      <3>1. \A s \in Range(body'[m]) : s \in Range(body[m]) \/ m = Top.module BY <1>3
      <3>. QED BY <1>0, <1>1, <1>3, <1>6, <1>12, <1>13, <2>0, <3>1, BringInvStays
    <2>. QED BY <2>1, <2>2, <2>3, <2>4
  <1>. QED BY <1>10, <1>14, <1>15, <1>19, <1>21 DEF GraphInv

\* A require of a file that was merged already: compiled once.
LEMMA RequireAgainStep == ASSUME GraphInv, NEW f \in Files, RequireAgain(f) PROVE GraphInv'
  <1>0. GraphShape /\ FrameInv /\ StackInv /\ Expanding /\ Call.todo # <<>> /\ Inputs
    BY ShapeInputs DEF GraphInv, RequireAgain, Requires
  <1>1. frames # <<>> BY CallFacts, <1>0
  <1>m. PICK M : M = Top.module OBVIOUS
  <1>s. PICK s0 : s0 = Head(Call.todo) OBVIOUS
  <1>3. /\ UNCHANGED inputs /\ state' = state /\ resolved' = resolved /\ body' = body /\ frames' = frames
        /\ cycles' = cycles /\ unresolved' = unresolved
        /\ s0 = <<"require", f>> /\ ~ClosesCycle(f) /\ f \in Range(resolved[M])
    BY <1>m, <1>s DEF RequireAgain, Requires, AlreadyMerged, findings
  <1>5. \A g : ClosesCycle(g) <=> AtWork(M, g)
    BY <1>m, <1>0, CallFacts DEF ClosesCycle
  <1>6. SameCalls(Top.failed) /\ \A i \in DOMAIN frames : frames'[i].todo = frames[i].todo
    BY <1>0, <1>1, <1>3, SameCallsSame
  <1>7. (Top.module)' = Top.module BY <1>3 DEF Top
  <1>8. StatementDone(expansion') BY <1>0, HandledIs DEF RequireAgain
  <1>10. GraphShape' BY <1>0, <1>3, <1>8 DEF GraphShape, StatementDone, inputs
  <1>11. \A m : Merged(m)' = Merged(m) BY <1>3 DEF Merged
  <1>12. expansion' # <<>> /\ expansion'[1].file = Top.module
    BY <1>0, <1>8, CallIs DEF StatementDone, FrameInv
  <1>13. \A m : Fails(m)' <=> Fails(m) BY <1>3 DEF Fails
  <1>14. FrameInv'
    <2>1. \A i \in DOMAIN frames : /\ Range(frames'[i].todo) \subseteq Range(body'[frames[i].module])
                                   /\ state'[frames[i].module] \in {"resolving", "failed"}
      BY <1>0, <1>3, <1>6 DEF FrameInv
    <2>. QED BY <1>0, <1>1, <1>3, <1>6, <1>12, <2>1, FrameInvSame
  <1>15. StackInv' BY <1>0, <1>8, <1>3, <1>7, <1>11, StackInvDone
  <1>16. faulty' = faulty BY <1>3 DEF inputs
  <1>19. ASSUME NEW m \in SourceFiles PROVE FoundInv(m)'
    BY <1>3, OthersSame DEF GraphInv
  <1>21. ASSUME NEW m \in SourceFiles, Known(m)'
         PROVE  DealtInv(m)' /\ AcyclicInv(m)' /\ FailInv(m)' /\ BringInv(m)'
    <2>0. Known(m) /\ DealtInv(m) /\ AcyclicInv(m) /\ FailInv(m) /\ BringInv(m)
      BY <1>3, <1>21 DEF Known, GraphInv
    <2>1. DealtInv(m)'
      <3>1. s0[1] # "bring" /\ s0[2] = f BY <1>3
      <3>2. m = Top.module => f \in Merged(m)' BY <1>m, <1>3, <1>11 DEF Merged
      <3>3. m = Top.module => Dealt(m, s0)' BY <3>1, <3>2 DEF Dealt
      <3>. QED BY <1>0, <1>3, <1>7, <1>8, <1>11, <1>13, <1>s, <2>0, <3>3, DealtDone
    <2>2. AcyclicInv(m)'
      <3>1. \A g \in present : Head(Call.todo) = <<"require", g>> => ~AtWork(M, g) BY <1>s, <1>3, <1>5
      <3>. QED BY <1>m, <1>0, <1>3, <1>7, <1>8, <1>11, <2>0, <3>1, AcyclicDone
    <2>3. FailInv(m)' BY <1>3, <1>11, <1>13, <1>16, <2>0, GraphFixed DEF FailInv
    <2>4. BringInv(m)'
      BY <1>0, <1>1, <1>3, <1>6, <1>12, <1>13, <2>0, BringInvStays
    <2>. QED BY <2>1, <2>2, <2>3, <2>4
  <1>. QED BY <1>10, <1>14, <1>15, <1>19, <1>21 DEF GraphInv

\* A require of a new file. Its own requires are followed next.
LEMMA RequireFileStep == ASSUME GraphInv, NEW f \in Files, RequireFile(f) PROVE GraphInv'
  <1>0. GraphShape /\ FrameInv /\ StackInv /\ Expanding /\ Call.todo # <<>> /\ Inputs
    BY ShapeInputs DEF GraphInv, RequireFile, Requires
  <1>1. frames # <<>> BY CallFacts, <1>0
  <1>m. PICK M : M = Top.module OBVIOUS
  <1>s. PICK s0 : s0 = Head(Call.todo) OBVIOUS
  <1>n. PICK new : new = [file |-> f, todo |-> text[f]] OBVIOUS
  <1>b. PICK b : b = (Top.failed \/ f \in faulty) OBVIOUS
  <1>3. /\ UNCHANGED inputs /\ state' = state /\ body' = body /\ cycles' = cycles /\ unresolved' = unresolved
        /\ s0 = <<"require", f>> /\ f \in present /\ ~ClosesCycle(f) /\ f \notin Range(resolved[M])
        /\ resolved' = [resolved EXCEPT ![M] = Append(@, f)]
        /\ expansion' = Append(Handled, new)
        /\ ChangeTop([Top EXCEPT !.failed = b])
    BY <1>m, <1>s, <1>n, <1>b DEF RequireFile, Requires, AlreadyMerged
  <1>4. /\ M \in SourceFiles /\ M \in present /\ Known(M)
        /\ FoundInv(M) /\ DealtInv(M) /\ AcyclicInv(M) /\ FailInv(M) /\ BringInv(M)
    BY <1>m, <1>1, TopKnown
  <1>5. /\ Call.file \in Merged(M) /\ s0 \in FileStatements /\ s0 \in Range(text[Call.file])
        /\ \A g : ClosesCycle(g) <=> AtWork(M, g)
        /\ \A g : AtWork(M, g) => g \in Merged(M) /\ (g = Call.file \/ <<g, Call.file>> \in Req)
        /\ AtWork(M, M)
    BY <1>m, <1>s, <1>0, CallFacts DEF ClosesCycle
  <1>6. /\ b \in BOOLEAN /\ (Top.failed => b)
        /\ SameCalls(b) /\ frames' \in Seq(FrameSet) /\ \A i \in DOMAIN frames : frames'[i].todo = frames[i].todo
    <2>1. b \in BOOLEAN /\ (Top.failed => b) BY <1>0, <1>1, <1>b, TopIs
    <2>. QED BY <2>1, <1>0, <1>1, <1>3, FailedTop
  <1>7. (Top.module)' = Top.module BY <1>0, <1>1, <1>6, TopSame
  <1>8. StatementDone(Handled) BY <1>0, HandledIs
  <1>9. f \in SourceFiles /\ text[f] \in Seq(FileStatements) /\ new \in CallSet /\ new.file = f /\ new.todo = text[f]
    BY <1>0, <1>3, <1>n DEF Inputs, CallSet
  <1>. DEFINE E == Len(expansion)
  <1>e. /\ E \in Nat /\ E >= 1 /\ DOMAIN expansion = 1..E /\ Call = expansion[E]
        /\ expansion' \in Seq(CallSet) /\ Len(expansion') = E + 1 /\ DOMAIN expansion' = 1..(E + 1)
        /\ expansion'[E + 1] = new
        /\ \A i \in DOMAIN expansion : expansion'[i] = Handled[i] /\ expansion'[i].file = expansion[i].file
    <2>1. Handled \in Seq(CallSet) /\ Len(Handled) = E BY <1>8 DEF StatementDone
    <2>. QED BY <1>0, <1>3, <1>8, <1>9, <2>1, CallIs, AppendIs DEF StatementDone
  <1>10. /\ resolved[M] \in Seq(SourceFiles) /\ resolved'[M] = Append(resolved[M], f)
         /\ \A m \in SourceFiles : m # M => resolved'[m] = resolved[m]
         /\ resolved' \in [SourceFiles -> Seq(SourceFiles)]
    <2>1. resolved \in [SourceFiles -> Seq(SourceFiles)] BY <1>0 DEF GraphShape
    <2>2. Append(resolved[M], f) \in Seq(SourceFiles) BY <2>1, <1>4, <1>9, AppendIs
    <2>. QED BY <2>1, <2>2, <1>3, <1>4
  <1>11. /\ Range(resolved'[M]) = Range(resolved[M]) \cup {f} /\ Len(resolved'[M]) = Len(resolved[M]) + 1
         /\ Merged(M)' = Merged(M) \cup {f}
         /\ \A m \in SourceFiles : m # M => Merged(m)' = Merged(m)
         /\ f \notin Merged(M)
    <2>1. Range(resolved'[M]) = Range(resolved[M]) \cup {f} /\ Len(resolved'[M]) = Len(resolved[M]) + 1
      BY <1>9, <1>10, RangeAppend, AppendIs
    <2>2. f # M BY <1>3, <1>5
    <2>. QED BY <2>1, <2>2, <1>3, <1>10 DEF Merged
  <1>12. expansion' # <<>> /\ expansion'[1].file = Top.module
    BY <1>0, <1>e, NoElement DEF FrameInv
  <1>13. \A m : Fails(m)' <=> (Fails(m) \/ (m = M /\ b))
    BY <1>m, <1>0, <1>1, <1>3, <1>6, FailsThen
  <1>14. GraphShape'
    BY <1>0, <1>3, <1>6, <1>e, <1>10 DEF GraphShape, inputs
  <1>15. FrameInv'
    <2>1. \A i \in DOMAIN frames : /\ Range(frames'[i].todo) \subseteq Range(body'[frames[i].module])
                                   /\ state'[frames[i].module] \in {"resolving", "failed"}
      BY <1>0, <1>3, <1>6 DEF FrameInv
    <2>. QED BY <1>0, <1>1, <1>3, <1>6, <1>12, <2>1, FrameInvSame
  <1>16. present' = present /\ text' = text /\ Req' = Req /\ faulty' = faulty /\ Required' = Required
    BY <1>3, GraphFixed DEF inputs
  <1>17. <<Call.file, f>> \in Required /\ <<Call.file, f>> \in Req /\ <<M, f>> \in Req
    BY <1>0, <1>3, <1>4, <1>5, EdgeOnward
  <1>18. \A g : AtWork(M, g)' <=> (AtWork(M, g) \/ g = f)
    <2>1. ASSUME NEW g, AtWork(M, g)' PROVE AtWork(M, g) \/ g = f
      <3>1. PICK i \in DOMAIN expansion' : expansion'[i].file = g BY <2>1 DEF AtWork
      <3>2. CASE i = E + 1 BY <3>1, <3>2, <1>e, <1>9
      <3>3. CASE i # E + 1
        <4>1. i \in DOMAIN expansion BY <3>1, <3>3, <1>e
        <4>. QED BY <4>1, <3>1, <1>e, <1>m DEF AtWork
      <3>. QED BY <3>2, <3>3
    <2>2. ASSUME NEW g, AtWork(M, g) \/ g = f PROVE AtWork(M, g)'
      <3>1. CASE AtWork(M, g)
        <4>1. PICK i \in DOMAIN expansion : expansion[i].file = g BY <3>1 DEF AtWork
        <4>2. i \in DOMAIN expansion' /\ expansion'[i].file = g BY <4>1, <1>e
        <4>. QED BY <4>2, <1>7, <1>m DEF AtWork
      <3>2. CASE g = f
        <4>1. E + 1 \in DOMAIN expansion' /\ expansion'[E + 1].file = f BY <1>e, <1>9
        <4>. QED BY <3>2, <4>1, <1>7, <1>m DEF AtWork
      <3>. QED BY <2>2, <3>1, <3>2
    <2>. QED BY <2>1, <2>2
  <1>19. \A m, g : m # M => ~AtWork(m, g)' /\ ~AtWork(m, g)
    BY <1>7, <1>m DEF AtWork
  <1>20. \A i \in DOMAIN expansion : \A s \in Range(expansion[i].todo) :
              s \in Range(expansion'[i].todo) \/ (i = E /\ s = s0)
    <2>1. \A i \in DOMAIN expansion : \A s \in Range(expansion[i].todo) :
              s \in Range(Handled[i].todo) \/ (i = Len(expansion) /\ s = Head(Call.todo))
      BY <1>0, <1>8, StackDone
    <2>. QED BY <2>1, <1>e, <1>s
  <1>21. StackInv'
    <2>1. ASSUME NEW i \in DOMAIN expansion'
          PROVE  expansion'[i].file \in Merged(M)' /\ Range(expansion'[i].todo) \subseteq Range(text'[expansion'[i].file])
      <3>1. CASE i = E + 1 BY <3>1, <1>e, <1>9, <1>11, <1>16
      <3>2. CASE i # E + 1
        <4>1. i \in DOMAIN expansion BY <3>2, <1>e
        <4>2. Range(expansion'[i].todo) \subseteq Range(expansion[i].todo) BY <4>1, <1>0, <1>8, <1>e, StackDone
        <4>. QED BY <4>1, <4>2, <1>0, <1>e, <1>11, <1>16, <1>m DEF StackInv
      <3>. QED BY <3>1, <3>2
    <2>2. ASSUME NEW i \in DOMAIN expansion', NEW j \in DOMAIN expansion', i < j
          PROVE  expansion'[i].file # expansion'[j].file /\ <<expansion'[i].file, expansion'[j].file>> \in Req
      <3>0. i \in DOMAIN expansion /\ expansion'[i].file = expansion[i].file BY <2>2, <1>e
      <3>1. CASE j = E + 1
        <4>1. AtWork(M, expansion[i].file) BY <3>0, <1>m DEF AtWork
        <4>2. expansion[i].file # f BY <4>1, <1>3, <1>5
        <4>3. <<expansion[i].file, f>> \in Req BY <4>1, <1>0, <1>5, <1>17, RequiredIs, PathsJoin DEF Req
        <4>. QED BY <3>0, <3>1, <4>2, <4>3, <1>e, <1>9
      <3>2. CASE j # E + 1
        <4>1. j \in DOMAIN expansion /\ expansion'[j].file = expansion[j].file BY <3>2, <1>e
        <4>. QED BY <2>2, <3>0, <4>1, <1>0 DEF StackInv
      <3>. QED BY <3>1, <3>2
    <2>. QED BY <2>1, <2>2, <1>7, <1>16, <1>m DEF StackInv
  <1>22. ASSUME NEW m \in SourceFiles PROVE FoundInv(m)'
    <2>1. CASE m # M BY <2>1, <1>3, <1>10, OthersSame DEF GraphInv
    <2>2. CASE m = M
      <3>1. After(m, Req)' = After(m, Req) BY <1>16 DEF After
      <3>2. f \in After(M, Req) BY <1>0, <1>17, RequiredIs, InAfter
      <3>3. IsFiniteSet(Range(resolved'[M])) /\ Cardinality(Range(resolved'[M])) = Len(resolved'[M])
        <4>1. IsFiniteSet(Range(resolved[M])) /\ Cardinality(Range(resolved[M])) = Len(resolved[M])
          BY <1>4 DEF FoundInv
        <4>2. /\ IsFiniteSet(Range(resolved[M]) \cup {f})
              /\ Cardinality(Range(resolved[M]) \cup {f}) = Cardinality(Range(resolved[M])) + 1
          BY <4>1, <1>3, FS_AddElement
        <4>. QED BY <4>1, <4>2, <1>11
      <3>4. Known(m)' BY <1>3, <1>4, <2>2 DEF Known
      <3>5. Range(resolved'[m]) \subseteq After(m, Req)' \cap present'
        BY <1>3, <1>4, <1>11, <1>16, <2>2, <3>1, <3>2 DEF FoundInv
      <3>6. \A s \in Range(body'[m]) : s[1] = "bring" /\ \E g \in Merged(m)' : s \in Range(text'[g])
        BY <1>3, <1>4, <1>11, <1>16, <2>2 DEF FoundInv
      <3>7. cycles'[m] => \E g \in Merged(m)' : <<g, g>> \in Req'
        BY <1>3, <1>4, <1>11, <1>16, <2>2 DEF FoundInv
      <3>8. unresolved'[m] \subseteq After(m, Req)' \ present'
        BY <1>3, <1>4, <1>16, <2>2, <3>1 DEF FoundInv
      <3>. QED BY <1>4, <1>16, <2>2, <3>3, <3>4, <3>5, <3>6, <3>7, <3>8 DEF FoundInv
    <2>. QED BY <2>1, <2>2
  <1>23. f \in faulty => ~Compiles(M, Req, Brg)
    BY <1>0, <1>17, SoundIs, CompilesIs
  <1>24. ASSUME NEW m \in SourceFiles, Known(m)'
         PROVE  DealtInv(m)' /\ AcyclicInv(m)' /\ FailInv(m)' /\ BringInv(m)'
    <2>0. Known(m) /\ DealtInv(m) /\ AcyclicInv(m) /\ FailInv(m) /\ BringInv(m)
      BY <1>3, <1>24 DEF Known, GraphInv
    <2>m. Merged(m) \subseteq Merged(m)' /\ (m # M => Merged(m)' = Merged(m))
      BY <1>11
    <2>1. DealtInv(m)'
      <3>1. \A s : Dealt(m, s) => Dealt(m, s)'
        BY <1>3, <1>13, <1>16, <2>m DEF Dealt
      <3>2. Dealt(M, s0)' BY <1>3, <1>11 DEF Dealt
      <3>3. ASSUME NEW g \in Merged(m), NEW s \in Range(text[g]) PROVE Waiting(m, g, s)' \/ Dealt(m, s)'
        <4>1. CASE Waiting(m, g, s)
          <5>1. PICK i \in DOMAIN expansion : expansion[i].file = g /\ s \in Range(expansion[i].todo)
            BY <4>1 DEF Waiting
          <5>2. m = M BY <4>1, <1>m DEF Waiting
          <5>3. CASE i = E /\ s = s0 BY <5>2, <5>3, <3>2
          <5>4. CASE s \in Range(expansion'[i].todo)
            <6>1. i \in DOMAIN expansion' /\ expansion'[i].file = g BY <5>1, <1>e
            <6>. QED BY <5>2, <5>4, <6>1, <1>m, <1>7 DEF Waiting
          <5>. QED BY <5>1, <5>3, <5>4, <1>20
        <4>2. CASE Dealt(m, s) BY <4>2, <3>1
        <4>. QED BY <3>3, <4>1, <4>2, <2>0 DEF DealtInv
      <3>4. ASSUME m = M, NEW s \in Range(text[f]) PROVE Waiting(m, f, s)'
        <4>1. E + 1 \in DOMAIN expansion' /\ expansion'[E + 1].file = f /\ expansion'[E + 1].todo = text[f]
          BY <1>e, <1>9
        <4>. QED BY <3>4, <4>1, <1>7, <1>m DEF Waiting
      <3>. QED BY <1>11, <1>16, <3>3, <3>4 DEF DealtInv
    <2>2. AcyclicInv(m)'
      <3>1. CASE m # M
        <4>1. \A i \in DOMAIN expansion' : m # (Top.module)' BY <3>1, <1>7, <1>m
        <4>. QED BY <2>0, <3>1, <4>1, <2>m, <1>3, <1>16, <1>19 DEF AcyclicInv
      <3>2. CASE m = M /\ cycles'[m] BY <3>2 DEF AcyclicInv
      <3>3. CASE m = M /\ ~cycles'[m]
        <4>0. ~cycles[M] BY <1>3, <3>3
        <4>1. ASSUME NEW h \in Merged(M), <<h, f>> \in Required
              PROVE  Waiting(M, h, <<"require", f>>)
          <5>1. <<"require", f>> \in Range(text[h]) BY <4>1, <1>0, RequiredIs
          <5>2. ~Dealt(M, <<"require", f>>) BY <1>3, <1>11 DEF Dealt
          <5>. QED BY <5>1, <5>2, <4>1, <1>4 DEF DealtInv
        <4>2. ASSUME NEW h \in Merged(m)', ~AtWork(m, h)'
              PROVE  <<h, h>> \notin Req' /\ \A g \in present' : <<h, g>> \in Required' => ~AtWork(m, g)'
          <5>1. h \in Merged(M) /\ ~AtWork(M, h) BY <4>2, <3>3, <1>11, <1>18
          <5>2. <<h, h>> \notin Req /\ \A g \in present : <<h, g>> \in Required => ~AtWork(M, g)
            BY <5>1, <4>0, <1>4 DEF AcyclicInv
          <5>3. <<h, f>> \notin Required BY <5>1, <4>1, WaitsAtWork
          <5>. QED BY <5>2, <5>3, <1>16, <1>18, <3>3
        <4>3. ASSUME NEW i \in DOMAIN expansion', NEW g \in present', <<expansion'[i].file, g>> \in Required'
              PROVE  \/ <<"require", g>> \in Range(expansion'[i].todo)
                     \/ ~AtWork(M, g)'
                     \/ i + 1 \in DOMAIN expansion' /\ g = expansion'[i + 1].file
          <5>1. CASE i = E + 1
            <6>1. <<f, g>> \in Required BY <4>3, <5>1, <1>e, <1>9, <1>16
            <6>. QED BY <6>1, <5>1, <1>0, <1>e, <1>9, RequiredIs
          <5>2. CASE i # E + 1
            <6>0. /\ i \in DOMAIN expansion /\ g \in present /\ <<expansion[i].file, g>> \in Required
                  /\ i \in 1..E
              BY <4>3, <5>2, <1>e, <1>16
            <6>1. \/ <<"require", g>> \in Range(expansion[i].todo)
                  \/ ~AtWork(M, g)
                  \/ i + 1 \in DOMAIN expansion /\ g = expansion[i + 1].file
              BY <6>0, <4>0, <1>4, <1>m DEF AcyclicInv
            <6>2. CASE <<"require", g>> \in Range(expansion[i].todo)
              <7>1. CASE <<"require", g>> \in Range(expansion'[i].todo) BY <7>1
              <7>2. CASE i = E /\ <<"require", g>> = s0
                <8>1. g = f BY <7>2, <1>3
                <8>. QED BY <7>2, <8>1, <1>e, <1>9
              <7>. QED BY <6>0, <6>2, <7>1, <7>2, <1>20
            <6>3. CASE i + 1 \in DOMAIN expansion /\ g = expansion[i + 1].file
              BY <6>3, <1>e
            <6>4. CASE ~AtWork(M, g) /\ g # f BY <6>4, <1>18
            <6>5. CASE g = f
              <7>1. expansion[i].file \in Merged(M) BY <6>0, <1>0, <1>m DEF StackInv
              <7>2. Waiting(M, expansion[i].file, <<"require", f>>) BY <6>0, <6>5, <7>1, <4>1
              <7>3. PICK j \in DOMAIN expansion : /\ expansion[j].file = expansion[i].file
                                                  /\ <<"require", f>> \in Range(expansion[j].todo)
                BY <7>2 DEF Waiting
              <7>4. i = j
                <8>1. i < j \/ j < i \/ i = j BY <6>0, <7>3, <1>e
                <8>. QED BY <8>1, <6>0, <7>3, <1>0 DEF StackInv
              <7>. QED BY <6>5, <6>2, <7>3, <7>4
            <6>. QED BY <6>1, <6>2, <6>3, <6>4, <6>5
          <5>. QED BY <5>1, <5>2
        <4>. QED BY <3>3, <4>2, <4>3 DEF AcyclicInv
      <3>. QED BY <3>1, <3>2, <3>3
    <2>3. FailInv(m)'
      <3>1. cycles'[m] \/ Merged(m)' \cap faulty' # {} => Fails(m)'
        BY <1>3, <1>11, <1>13, <1>16, <1>b, <2>0 DEF FailInv
      <3>2. m = M /\ b => Fails(M) \/ f \in faulty
        <4>1. Top.failed => Fails(M) BY <1>m, <1>0, <1>1, TopIs DEF Fails
        <4>. QED BY <4>1, <1>b
      <3>3. Fails(m)' => ~Compiles(m, Req, Brg)'
        BY <1>3, <1>13, <1>23, <2>0, <3>2, GraphFixed DEF FailInv
      <3>. QED BY <3>1, <3>3 DEF FailInv
    <2>4. BringInv(m)'
      <3>1. \A s \in Range(body'[m]) : s \in Range(body[m]) \/ m = Top.module BY <1>3
      <3>. QED BY <1>0, <1>1, <1>3, <1>6, <1>12, <1>13, <2>0, <3>1, BringInvStays
    <2>. QED BY <2>1, <2>2, <2>3, <2>4
  <1>. QED BY <1>14, <1>15, <1>21, <1>22, <1>24 DEF GraphInv

\* The brings of a module become the statements of its call.
LEMMA RefilledTop ==
    ASSUME GraphShape, frames # <<>>, NEW todo \in Seq(FileStatements), ChangeTop([Top EXCEPT !.todo = todo])
    PROVE  SameCalls(Top.failed) /\ frames' \in Seq(FrameSet) /\ frames'[Len(frames)].todo = todo
  <1>1. PICK fr : fr = [Top EXCEPT !.todo = todo] OBVIOUS
  <1>2. fr \in FrameSet /\ fr.module = Top.module /\ fr.todo = todo /\ fr.failed = Top.failed
    BY <1>1, TopIs DEF FrameSet
  <1>3. ChangeTop(fr) BY <1>1
  <1>. QED BY <1>2, <1>3, SameCallsChange

\* A call of expandRequires returns: the file lies on no cycle, unless one was
\* reported, because everything it leads to was left before.
LEMMA ExpandReturnsStep == ASSUME GraphInv, ExpandReturns PROVE GraphInv'
  <1>0. GraphShape /\ FrameInv /\ StackInv /\ Expanding /\ Call.todo = <<>> /\ Inputs
    BY ShapeInputs DEF GraphInv, ExpandReturns
  <1>1. frames # <<>> /\ expansion[1].file = Top.module BY <1>0 DEF FrameInv
  <1>m. PICK M : M = Top.module OBVIOUS
  <1>f. PICK F : F = Call.file OBVIOUS
  <1>3. /\ UNCHANGED inputs /\ state' = state /\ resolved' = resolved /\ body' = body
        /\ cycles' = cycles /\ unresolved' = unresolved /\ expansion' = Front(expansion)
        /\ IF Len(expansion) = 1 THEN ChangeTop([Top EXCEPT !.todo = body[M]]) ELSE frames' = frames
    BY <1>m DEF ExpandReturns, findings
  <1>4. /\ M \in SourceFiles /\ M \in present /\ Known(M)
        /\ FoundInv(M) /\ DealtInv(M) /\ AcyclicInv(M) /\ FailInv(M) /\ BringInv(M)
    BY <1>m, <1>1, TopKnown
  <1>. DEFINE E == Len(expansion)
  <1>e. /\ E \in Nat /\ E >= 1 /\ DOMAIN expansion = 1..E /\ E \in DOMAIN expansion
        /\ expansion[E].file = F /\ Range(expansion[E].todo) = {}
        /\ expansion' \in Seq(CallSet) /\ Len(expansion') = E - 1 /\ DOMAIN expansion' = 1..(E - 1)
        /\ \A i \in 1..(E - 1) : expansion'[i] = expansion[i] /\ i \in DOMAIN expansion /\ i < E
    <2>1. expansion \in Seq(CallSet) /\ expansion # <<>> BY <1>0 DEF GraphShape, Expanding
    <2>2. E \in Nat /\ E >= 1 /\ DOMAIN expansion = 1..E /\ E \in DOMAIN expansion /\ Call = expansion[E]
      BY <1>0, CallIs
    <2>3. expansion[E].file = F /\ Range(expansion[E].todo) = {} BY <2>2, <1>0, <1>f, NoElement
    <2>4. /\ expansion' \in Seq(CallSet) /\ Len(expansion') = E - 1 /\ DOMAIN expansion' = 1..(E - 1)
          /\ \A i \in 1..(E - 1) : expansion'[i] = expansion[i]
      BY <2>1, <1>3, FrontIs
    <2>5. \A i \in 1..(E - 1) : i \in DOMAIN expansion /\ i < E BY <2>2
    <2>. QED BY <2>2, <2>3, <2>4, <2>5
  <1>6. SameCalls(Top.failed) /\ frames' \in Seq(FrameSet)
        /\ IF E = 1 THEN frames'[Len(frames)].todo = body[M] ELSE frames' = frames
    <2>1. body[M] \in Seq(FileStatements) BY <1>0, <1>4 DEF GraphShape
    <2>2. CASE E = 1 BY <2>1, <2>2, <1>0, <1>1, <1>3, RefilledTop
    <2>3. CASE E # 1 BY <2>3, <1>0, <1>1, <1>3, SameCallsSame DEF GraphShape
    <2>. QED BY <2>2, <2>3
  <1>7. (Top.module)' = Top.module BY <1>0, <1>1, <1>6, TopSame
  <1>10. GraphShape' BY <1>0, <1>3, <1>6, <1>e DEF GraphShape, inputs
  <1>11. \A m : Merged(m)' = Merged(m) BY <1>3 DEF Merged
  <1>12. expansion' = <<>> \/ expansion'[1].file = Top.module
    <2>1. CASE E = 1 BY <2>1, <1>e
    <2>2. CASE E # 1
      <3>1. 1 \in 1..(E - 1) BY <2>2, <1>e
      <3>. QED BY <3>1, <1>e, <1>1
    <2>. QED BY <2>1, <2>2
  <1>13. \A m : Fails(m)' <=> Fails(m)
    <2>1. Top.failed \in BOOLEAN BY <1>0, <1>1, TopIs
    <2>2. \A m : m = Top.module /\ Top.failed => Fails(m) BY <1>0, <1>1, TopIs DEF Fails
    <2>3. \A m : Fails(m)' <=> (Fails(m) \/ (m = Top.module /\ Top.failed))
      BY <2>1, <1>0, <1>1, <1>3, <1>6, FailsThen
    <2>. QED BY <2>2, <2>3
  <1>14. FrameInv'
    <2>1. ASSUME NEW i \in DOMAIN frames
          PROVE  /\ Range(frames'[i].todo) \subseteq Range(body'[frames[i].module])
                 /\ state'[frames[i].module] \in {"resolving", "failed"}
      <3>1. Range(frames[i].todo) \subseteq Range(body[frames[i].module]) /\ state[frames[i].module] \in {"resolving", "failed"}
        BY <1>0 DEF FrameInv
      <3>2. CASE i = Len(frames) /\ E = 1 BY <3>1, <3>2, <1>0, <1>1, <1>3, <1>6, <1>m, TopIs
      <3>3. CASE i # Len(frames) \/ E # 1 BY <3>1, <3>3, <1>3, <1>6 DEF SameCalls
      <3>. QED BY <3>2, <3>3
    <2>. QED BY <1>0, <1>1, <1>3, <1>6, <1>12, <2>1, FrameInvSame
  <1>16. present' = present /\ text' = text /\ Req' = Req /\ faulty' = faulty /\ Required' = Required
    BY <1>3, GraphFixed DEF inputs
  <1>15. StackInv'
    <2>1. ASSUME NEW i \in DOMAIN expansion'
          PROVE  expansion'[i].file \in Merged(M)' /\ Range(expansion'[i].todo) \subseteq Range(text'[expansion'[i].file])
      BY <1>0, <1>e, <1>11, <1>16, <1>m DEF StackInv
    <2>2. \A i, j \in DOMAIN expansion' : i < j =>
            expansion'[i].file # expansion'[j].file /\ <<expansion'[i].file, expansion'[j].file>> \in Req
      BY <1>0, <1>e DEF StackInv
    <2>. QED BY <2>1, <2>2, <1>7, <1>16, <1>m DEF StackInv
  <1>18. \A g : AtWork(M, g)' <=> (AtWork(M, g) /\ g # F)
    <2>1. ASSUME NEW g, AtWork(M, g)' PROVE AtWork(M, g) /\ g # F
      <3>1. PICK i \in DOMAIN expansion' : expansion'[i].file = g BY <2>1 DEF AtWork
      <3>2. i \in DOMAIN expansion /\ expansion[i].file = g /\ i < E BY <3>1, <1>e
      <3>. QED BY <3>2, <1>0, <1>e, <1>m DEF AtWork, StackInv
    <2>2. ASSUME NEW g, AtWork(M, g), g # F PROVE AtWork(M, g)'
      <3>1. PICK i \in DOMAIN expansion : expansion[i].file = g BY <2>2 DEF AtWork
      <3>2. i # E BY <3>1, <2>2, <1>e
      <3>3. i \in DOMAIN expansion' /\ expansion'[i].file = g BY <3>1, <3>2, <1>e
      <3>. QED BY <3>3, <1>7, <1>m DEF AtWork
    <2>. QED BY <2>1, <2>2
  <1>19. \A m, g : m # M => ~AtWork(m, g)' /\ ~AtWork(m, g)
    BY <1>7, <1>m DEF AtWork
  <1>20. ASSUME NEW m, NEW g, NEW s, Waiting(m, g, s) PROVE Waiting(m, g, s)'
    <2>1. PICK i \in DOMAIN expansion : expansion[i].file = g /\ s \in Range(expansion[i].todo)
      BY <1>20 DEF Waiting
    <2>2. m = M BY <1>20, <1>m DEF Waiting
    <2>3. i # E BY <2>1, <1>e
    <2>4. i \in DOMAIN expansion' /\ expansion'[i] = expansion[i] BY <2>1, <2>3, <1>e
    <2>. QED BY <2>1, <2>2, <2>4, <1>7, <1>m DEF Waiting
  <1>21. ASSUME NEW m \in SourceFiles PROVE FoundInv(m)'
    BY <1>3, OthersSame DEF GraphInv
  <1>22. ASSUME ~cycles[M]
         PROVE  <<F, F>> \notin Req /\ \A g \in present : <<F, g>> \in Required => ~AtWork(M, g)
    <2>1. \A g \in present : <<F, g>> \in Required => ~AtWork(M, g)
      <3>1. E + 1 \notin DOMAIN expansion BY <1>e
      <3>. QED BY <3>1, <1>22, <1>4, <1>e, <1>m DEF AcyclicInv
    <2>. DEFINE S == {g \in Files : g \notin present \/ (g \in Merged(M) /\ ~AtWork(M, g))}
    <2>2. F \in Merged(M) /\ AtWork(M, F) /\ F \in present
      <3>1. F \in Merged(M) BY <1>0, <1>e, <1>m DEF StackInv
      <3>2. AtWork(M, F) BY <1>e, <1>m DEF AtWork
      <3>. QED BY <3>1, <3>2, <1>0, <1>4, OnMerged
    <2>3. ASSUME NEW h \in Merged(M), ~AtWork(M, h) \/ h = F, NEW g \in Files, <<h, g>> \in Required PROVE g \in S
      <3>1. CASE g \notin present BY <3>1
      <3>2. CASE g \in present
        <4>1. ~AtWork(M, g) BY <2>1, <2>3, <3>2, <1>22, <1>4 DEF AcyclicInv
        <4>2. <<"require", g>> \in Range(text[h]) BY <2>3, <1>0, RequiredIs
        <4>3. ~Waiting(M, h, <<"require", g>>)
          <5>1. CASE h = F
            <6>1. ASSUME NEW i \in DOMAIN expansion, expansion[i].file = F PROVE i = E
              <7>1. i < E \/ i = E BY <1>e
              <7>. QED BY <6>1, <7>1, <1>0, <1>e DEF StackInv
            <6>. QED BY <5>1, <6>1, <1>e DEF Waiting
          <5>2. CASE ~AtWork(M, h) BY <5>2, WaitsAtWork
          <5>. QED BY <2>3, <5>1, <5>2
        <4>4. Dealt(M, <<"require", g>>) BY <4>2, <4>3, <2>3, <1>4 DEF DealtInv
        <4>5. g \in Merged(M) BY <4>4, <3>2 DEF Dealt
        <4>. QED BY <4>1, <4>5
      <3>. QED BY <3>1, <3>2
    <2>4. ClosedUnder(S, Required)
      <3>1. \A h, g : <<h, g>> \in Required => h \in present BY <1>0, RequiredIs
      <3>. QED BY <2>3, <3>1 DEF ClosedUnder
    <2>5. \A g \in Files : <<F, g>> \in Required => g \in S BY <2>2, <2>3
    <2>6. F \notin S BY <2>2
    <2>. HIDE DEF S
    <2>7. <<F, F>> \notin Req BY <2>4, <2>5, <2>6, <1>0, RequiredIs, PathsStay DEF Req
    <2>. QED BY <2>1, <2>7
  <1>24. ASSUME NEW m \in SourceFiles, Known(m)'
         PROVE  DealtInv(m)' /\ AcyclicInv(m)' /\ FailInv(m)' /\ BringInv(m)'
    <2>0. Known(m) /\ DealtInv(m) /\ AcyclicInv(m) /\ FailInv(m) /\ BringInv(m)
      BY <1>3, <1>24 DEF Known, GraphInv
    <2>1. DealtInv(m)'
      <3>1. \A s : Dealt(m, s) => Dealt(m, s)'
        BY <1>3, <1>11, <1>13, <1>16 DEF Dealt
      <3>. QED BY <2>0, <3>1, <1>11, <1>16, <1>20 DEF DealtInv
    <2>2. AcyclicInv(m)'
      <3>1. CASE m # M
        <4>1. \A i \in DOMAIN expansion' : m # (Top.module)' BY <3>1, <1>7, <1>m
        <4>. QED BY <2>0, <3>1, <4>1, <1>3, <1>11, <1>16, <1>19 DEF AcyclicInv
      <3>2. CASE m = M /\ cycles'[m] BY <3>2 DEF AcyclicInv
      <3>3. CASE m = M /\ ~cycles'[m]
        <4>0. ~cycles[M] BY <1>3, <3>3
        <4>1. ASSUME NEW h \in Merged(m)', ~AtWork(m, h)'
              PROVE  <<h, h>> \notin Req' /\ \A g \in present' : <<h, g>> \in Required' => ~AtWork(m, g)'
          <5>1. h \in Merged(M) /\ (~AtWork(M, h) \/ h = F) BY <4>1, <3>3, <1>11, <1>18
          <5>2. <<h, h>> \notin Req /\ \A g \in present : <<h, g>> \in Required => ~AtWork(M, g)
            BY <5>1, <4>0, <1>4, <1>22 DEF AcyclicInv
          <5>. QED BY <5>2, <1>16, <1>18, <3>3
        <4>2. ASSUME NEW i \in DOMAIN expansion', NEW g \in present', <<expansion'[i].file, g>> \in Required'
              PROVE  \/ <<"require", g>> \in Range(expansion'[i].todo)
                     \/ ~AtWork(M, g)'
                     \/ i + 1 \in DOMAIN expansion' /\ g = expansion'[i + 1].file
          <5>1. /\ i \in DOMAIN expansion /\ expansion'[i] = expansion[i] /\ g \in present
                /\ <<expansion[i].file, g>> \in Required /\ i \in 1..(E - 1)
            BY <4>2, <1>e, <1>16
          <5>2. \/ <<"require", g>> \in Range(expansion[i].todo)
                \/ ~AtWork(M, g)
                \/ i + 1 \in DOMAIN expansion /\ g = expansion[i + 1].file
            BY <5>1, <4>0, <1>4, <1>m DEF AcyclicInv
          <5>3. CASE i + 1 \in DOMAIN expansion /\ g = expansion[i + 1].file
            <6>1. CASE i + 1 = E BY <5>3, <6>1, <1>e, <1>18
            <6>2. CASE i + 1 # E
              <7>1. i + 1 \in 1..(E - 1) BY <5>1, <6>2, <1>e
              <7>. QED BY <5>3, <7>1, <1>e
            <6>. QED BY <6>1, <6>2
          <5>. QED BY <5>1, <5>2, <5>3, <1>18
        <4>. QED BY <3>3, <4>1, <4>2 DEF AcyclicInv
      <3>. QED BY <3>1, <3>2, <3>3
    <2>3. FailInv(m)' BY <1>3, <1>11, <1>13, <1>16, <2>0, GraphFixed DEF FailInv
    <2>4. BringInv(m)'
      <3>1. ASSUME NEW s \in Range(body'[m]) PROVE ToBring(m, s)' \/ Fails(m)' \/ state'[s[2]] = "resolved"
        <4>1. CASE ToBring(m, s)
          <5>1. PICK i \in DOMAIN frames : frames[i].module = m /\ (s \in Range(frames[i].todo) \/ i = Len(frames))
            BY <4>1 DEF ToBring
          <5>2. i \in DOMAIN frames' /\ frames'[i].module = m /\ Len(frames') = Len(frames) BY <5>1, <1>6 DEF SameCalls
          <5>3. CASE i # Len(frames)
            <6>1. frames'[i] = frames[i] BY <5>1, <5>3, <1>6 DEF SameCalls
            <6>. QED BY <5>1, <5>2, <5>3, <6>1 DEF ToBring
          <5>4. CASE i = Len(frames) /\ E = 1
            <6>1. m = M BY <5>1, <5>4, <1>0, <1>1, <1>m, TopIs
            <6>2. s \in Range(frames'[i].todo) BY <3>1, <5>4, <6>1, <1>3, <1>6
            <6>. QED BY <5>2, <6>2 DEF ToBring
          <5>5. CASE i = Len(frames) /\ E # 1
            <6>1. Expanding' BY <5>5, <1>e, NoElement DEF Expanding
            <6>. QED BY <5>2, <5>5, <6>1 DEF ToBring
          <5>. QED BY <5>3, <5>4, <5>5
        <4>. QED BY <3>1, <4>1, <1>3, <1>13, <2>0 DEF BringInv
      <3>2. state'[m] = "resolved" => Compiles(m, Req, Brg)' BY <1>3, <2>0, GraphFixed DEF BringInv
      <3>. QED BY <3>1, <3>2 DEF BringInv
    <2>. QED BY <2>1, <2>2, <2>3, <2>4
  <1>. QED BY <1>10, <1>14, <1>15, <1>21, <1>24 DEF GraphInv

\* A bring is done.
LEMMA DoneTop ==
    ASSUME GraphShape, frames # <<>>, Top.todo # <<>>, NEW ok \in BOOLEAN, BringDone(ok)
    PROVE  SameCalls(Top.failed \/ ~ok) /\ frames' \in Seq(FrameSet) /\ frames'[Len(frames)].todo = Tail(Top.todo)
  <1>1. PICK fr : fr = [Top EXCEPT !.todo = Tail(@), !.failed = @ \/ ~ok] OBVIOUS
  <1>2. Tail(Top.todo) \in Seq(FileStatements) BY TopIs, RangeTail
  <1>3. Top.failed \in BOOLEAN /\ (Top.failed \/ ~ok) \in BOOLEAN BY TopIs
  <1>4. fr \in FrameSet /\ fr.module = Top.module /\ fr.todo = Tail(Top.todo) /\ fr.failed = (Top.failed \/ ~ok)
    BY <1>1, <1>2, <1>3, TopIs DEF FrameSet
  <1>5. ChangeTop(fr) BY <1>1 DEF BringDone
  <1>6. SameCalls(fr.failed) /\ frames' \in Seq(FrameSet) /\ frames'[Len(frames)] = fr
    BY <1>4, <1>5, SameCallsChange
  <1>. QED BY <1>4, <1>6

\* Between the walks nothing is at work.
LEMMA NoWork == ASSUME expansion = <<>>, NEW m PROVE Walked(m) /\ \A f, s : ~Waiting(m, f, s)
  BY DEF Walked, AtWork, Waiting

\* What a walk has found stays while nothing walks in that module.
LEMMA FindingsStay ==
    ASSUME UNCHANGED <<inputs, findings>>, NEW m, DealtInv(m), AcyclicInv(m), Walked(m),
           \A f : ~AtWork(m, f)', ~Expanding' \/ m # (Top.module)', Fails(m) => Fails(m)'
    PROVE  DealtInv(m)' /\ AcyclicInv(m)' /\ Merged(m)' = Merged(m)
  <1>1. /\ present' = present /\ text' = text /\ Req' = Req /\ faulty' = faulty /\ Required' = Required
        /\ resolved' = resolved /\ body' = body /\ cycles' = cycles /\ unresolved' = unresolved
    BY GraphFixed DEF inputs, findings
  <1>2. Merged(m)' = Merged(m) BY <1>1 DEF Merged
  <1>3. DealtInv(m)'
    <2>1. \A s : Dealt(m, s) => Dealt(m, s)' BY <1>1, <1>2 DEF Dealt
    <2>2. \A f, s : ~Waiting(m, f, s) BY WaitsAtWork DEF Walked
    <2>. QED BY <1>1, <1>2, <2>1, <2>2 DEF DealtInv
  <1>4. AcyclicInv(m)'
    <2>1. ASSUME ~cycles'[m], NEW f \in Merged(m)'
          PROVE  <<f, f>> \notin Req' /\ \A g \in present' : <<f, g>> \in Required' => ~AtWork(m, g)'
      <3>1. ~cycles[m] /\ f \in Merged(m) /\ ~AtWork(m, f) BY <1>1, <1>2, <2>1 DEF Walked
      <3>. QED BY <1>1, <3>1 DEF AcyclicInv
    <2>2. \A i \in DOMAIN expansion' : m # (Top.module)' BY DEF Expanding
    <2>. QED BY <1>1, <1>2, <2>1, <2>2 DEF AcyclicInv, Walked
  <1>. QED BY <1>2, <1>3, <1>4

\* What the three ways of answering a bring share.
LEMMA BringStep ==
    ASSUME GraphInv, ~Expanding, frames # <<>>, Top.todo # <<>>, NEW f, Head(Top.todo) = <<"bring", f>>,
           UNCHANGED <<inputs, expansion, findings>>, NEW b \in BOOLEAN, Top.failed => b, SameCalls(b),
           frames' \in Seq(FrameSet), frames'[Len(frames)].todo = Tail(Top.todo),
           state' \in [SourceFiles -> ModuleStates],
           \A m \in SourceFiles :
              \/ state'[m] = state[m]
              \/ state[m] \in {"resolving", "failed"} /\ state'[m] = "failed" /\ ~Compiles(m, Req, Brg),
           b => ~Compiles(Top.module, Req, Brg),
           ~b => state'[f] = "resolved"
    PROVE  GraphInv'
  <1>0. GraphShape /\ FrameInv /\ StackInv /\ Inputs
    BY ShapeInputs DEF GraphInv
  <1>m. PICK M : M = Top.module OBVIOUS
  <1>1. expansion = <<>> /\ expansion' = <<>> /\ DOMAIN expansion' = {} BY NoElement DEF Expanding
  <1>3. /\ UNCHANGED inputs /\ resolved' = resolved /\ body' = body /\ cycles' = cycles /\ unresolved' = unresolved
        /\ UNCHANGED <<inputs, findings>>
    BY DEF findings
  <1>4. /\ M \in SourceFiles /\ M \in present /\ Known(M)
        /\ FoundInv(M) /\ DealtInv(M) /\ AcyclicInv(M) /\ FailInv(M) /\ BringInv(M)
    BY <1>m, TopKnown
  <1>5. Range(Top.todo) = Range(Tail(Top.todo)) \cup {<<"bring", f>>} BY <1>0, TopIs, RangeTail
  <1>6. GraphShape' BY <1>0, <1>1, <1>3 DEF GraphShape, inputs
  <1>7. FrameInv'
    <2>1. ASSUME NEW i \in DOMAIN frames
          PROVE  /\ Range(frames'[i].todo) \subseteq Range(body'[frames[i].module])
                 /\ state'[frames[i].module] \in {"resolving", "failed"}
      <3>1. Range(frames[i].todo) \subseteq Range(body[frames[i].module]) /\ state[frames[i].module] \in {"resolving", "failed"}
            /\ frames[i].module \in SourceFiles
        BY <1>0 DEF FrameInv, Inputs
      <3>2. Range(frames'[i].todo) \subseteq Range(frames[i].todo)
        <4>1. CASE i = Len(frames) BY <4>1, <1>0, <1>5, TopIs
        <4>2. CASE i # Len(frames) BY <4>2 DEF SameCalls
        <4>. QED BY <4>1, <4>2
      <3>. QED BY <3>1, <3>2, <1>3
    <2>2. \A m \in SourceFiles : state'[m] = "resolving" => state[m] = "resolving"
      OBVIOUS
    <2>. QED BY <1>0, <1>1, <1>3, <2>1, <2>2, FrameInvSame
  <1>8. StackInv' BY <1>1 DEF StackInv
  <1>9. \A m \in SourceFiles : Known(m)' <=> Known(m) BY DEF Known
  <1>10. \A m : Merged(m)' = Merged(m) BY <1>3 DEF Merged
  <1>11. ASSUME NEW m \in SourceFiles PROVE FoundInv(m)'
    <2>1. present' = present /\ text' = text /\ Req' = Req BY <1>3, GraphFixed DEF inputs
    <2>2. After(m, Req)' = After(m, Req) BY <2>1 DEF After
    <2>3. FoundInv(m) BY DEF GraphInv
    <2>. QED BY <1>3, <1>9, <1>10, <2>1, <2>2, <2>3 DEF FoundInv
  <1>12. ASSUME NEW m \in SourceFiles
         PROVE  /\ Fails(m) => Fails(m)'
                /\ m = M /\ b => Fails(m)'
                /\ Fails(m)' => Fails(m) \/ ~Compiles(m, Req, Brg)
    <2>1. (\E i \in DOMAIN frames' : frames'[i].module = m /\ frames'[i].failed)
             <=> ((\E i \in DOMAIN frames : frames[i].module = m /\ frames[i].failed) \/ (m = Top.module /\ b))
      <3>1. GraphShape /\ frames # <<>> /\ b \in BOOLEAN /\ SameCalls(b) /\ (Top.failed => b) BY <1>0
      <3>. QED BY <3>1, CallFails
    <2>2. state[m] = "failed" => state'[m] = "failed" OBVIOUS
    <2>3. state'[m] = "failed" => state[m] = "failed" \/ ~Compiles(m, Req, Brg) OBVIOUS
    <2>. QED BY <2>1, <2>2, <2>3, <1>m DEF Fails
  <1>13. ASSUME NEW m \in SourceFiles, Known(m)'
         PROVE  DealtInv(m)' /\ AcyclicInv(m)' /\ FailInv(m)' /\ BringInv(m)'
    <2>0. Known(m) /\ DealtInv(m) /\ AcyclicInv(m) /\ FailInv(m) /\ BringInv(m)
      BY <1>9, <1>13 DEF GraphInv
    <2>1. DealtInv(m)' /\ AcyclicInv(m)'
      <3>1. ~Expanding' BY <1>1 DEF Expanding
      <3>2. \A g : ~AtWork(m, g)' BY <1>1 DEF AtWork
      <3>3. Walked(m) BY <1>1, NoWork
      <3>. QED BY <1>3, <1>12, <2>0, <3>1, <3>2, <3>3, FindingsStay
    <2>2. FailInv(m)'
      <3>1. faulty' = faulty BY <1>3 DEF inputs
      <3>2. cycles'[m] \/ Merged(m)' \cap faulty' # {} => Fails(m)'
        BY <1>3, <1>10, <1>12, <2>0, <3>1 DEF FailInv
      <3>3. Fails(m)' => ~Compiles(m, Req, Brg)' BY <1>3, <1>12, <2>0, GraphFixed DEF FailInv
      <3>. QED BY <3>2, <3>3 DEF FailInv
    <2>3. BringInv(m)'
      <3>1. ASSUME NEW s \in Range(body'[m]) PROVE ToBring(m, s)' \/ Fails(m)' \/ state'[s[2]] = "resolved"
        <4>1. CASE ToBring(m, s)
          <5>1. PICK i \in DOMAIN frames : frames[i].module = m /\ s \in Range(frames[i].todo)
            BY <4>1 DEF ToBring
          <5>2. i \in DOMAIN frames' /\ frames'[i].module = m BY <5>1 DEF SameCalls
          <5>3. CASE i # Len(frames)
            <6>1. frames'[i] = frames[i] BY <5>1, <5>3 DEF SameCalls
            <6>. QED BY <5>1, <5>2, <6>1 DEF ToBring
          <5>4. CASE i = Len(frames) /\ s \in Range(Tail(Top.todo)) BY <5>2, <5>4 DEF ToBring
          <5>5. CASE i = Len(frames) /\ s = <<"bring", f>>
            <6>1. m = M BY <5>1, <5>5, <1>0, <1>m, TopIs
            <6>2. s[2] = f BY <5>5
            <6>. QED BY <6>1, <6>2, <1>12
          <5>. QED BY <5>1, <5>3, <5>4, <5>5, <1>0, <1>5, TopIs
        <4>2. CASE state[s[2]] = "resolved"
          <5>1. s \in FileStatements /\ s[1] = "bring" /\ s[2] \in SourceFiles
            <6>1. body[m] \in Seq(FileStatements) BY <1>0 DEF GraphShape
            <6>2. s \in FileStatements BY <6>1, <3>1, <1>3 DEF Range
            <6>3. s[1] = "bring" BY <3>1, <1>3 DEF GraphInv, FoundInv
            <6>. QED BY <6>2, <6>3, StatementIs
          <5>. QED BY <4>2, <5>1
        <4>. QED BY <3>1, <4>1, <4>2, <1>3, <1>12, <2>0 DEF BringInv
      <3>2. state'[m] = "resolved" => Compiles(m, Req, Brg)' BY <1>3, <2>0, GraphFixed DEF BringInv
      <3>. QED BY <3>1, <3>2 DEF BringInv
    <2>. QED BY <2>1, <2>2, <2>3
  <1>. QED BY <1>6, <1>7, <1>8, <1>11, <1>13 DEF GraphInv

\* The bring that is answered is an edge from the module under analysis.
LEMMA BringFacts ==
    ASSUME GraphInv, NEW f \in SourceFiles, Brings(f)
    PROVE  /\ GraphShape /\ FrameInv /\ Inputs /\ frames # <<>> /\ ~Expanding /\ Top.todo # <<>>
           /\ Head(Top.todo) = <<"bring", f>> /\ Top.module \in SourceFiles
           /\ <<Top.module, f>> \in Bro /\ <<Top.module, f>> \in Brg
           /\ <<"bring", f>> \in Range(body[Top.module])
           /\ Top.failed \in BOOLEAN /\ (Top.failed => ~Compiles(Top.module, Req, Brg))
  <1>0. GraphShape /\ FrameInv /\ Inputs /\ frames # <<>> /\ ~Expanding /\ Top.todo # <<>> /\ Head(Top.todo) = <<"bring", f>>
    BY ShapeInputs DEF GraphInv, Brings
  <1>1. Top.module \in SourceFiles /\ Known(Top.module) /\ FoundInv(Top.module) /\ FailInv(Top.module)
    BY <1>0, TopKnown
  <1>2. <<"bring", f>> \in Range(Top.todo) BY <1>0, TopIs, RangeTail
  <1>3. <<"bring", f>> \in Range(body[Top.module]) BY <1>0, <1>2, TopIs DEF FrameInv
  <1>4. <<Top.module, f>> \in Bro BY <1>0, <1>1, <1>3, BringEdge
  <1>5. <<Top.module, f>> \in Brg BY <1>0, <1>4, BroIs, EdgeIsPath DEF Brg
  <1>6. Top.failed => Fails(Top.module) BY <1>0, TopIs DEF Fails
  <1>7. Top.failed \in BOOLEAN BY <1>0, TopIs
  <1>. QED BY <1>0, <1>1, <1>3, <1>4, <1>5, <1>6, <1>7 DEF FailInv

\* Resolve finds no such file.
LEMMA BringMissingStep == ASSUME GraphInv, NEW f \in SourceFiles, BringMissing(f) PROVE GraphInv'
  <1>0. Brings(f) /\ f \notin present /\ BringDone(FALSE) /\ UNCHANGED <<inputs, state, expansion, findings>>
    BY DEF BringMissing
  <1>1. ~Compiles(Top.module, Req, Brg) BY <1>0, BringFacts, SoundIs, CompilesIs
  <1>2. SameCalls(TRUE) /\ frames' \in Seq(FrameSet) /\ frames'[Len(frames)].todo = Tail(Top.todo)
    BY <1>0, BringFacts, DoneTop
  <1>3. state' \in [SourceFiles -> ModuleStates] BY <1>0 DEF GraphInv, GraphShape
  <1>. QED BY <1>0, <1>1, <1>2, <1>3, BringFacts, BringStep

\* The module was analysed before; what failed makes its bringer fail.
LEMMA BringKnownStep == ASSUME GraphInv, NEW f \in SourceFiles, BringKnown(f) PROVE GraphInv'
  <1>0. Brings(f) /\ f \in present /\ state[f] \in {"resolved", "failed"} /\ BringDone(Usable(f))
        /\ UNCHANGED <<inputs, state, expansion, findings>>
    BY DEF BringKnown
  <1>1. PICK b : b = (Top.failed \/ ~Usable(f)) OBVIOUS
  <1>2. b \in BOOLEAN /\ (Top.failed => b) /\ Usable(f) \in BOOLEAN BY <1>0, <1>1, BringFacts DEF Usable
  <1>3. SameCalls(b) /\ frames' \in Seq(FrameSet) /\ frames'[Len(frames)].todo = Tail(Top.todo)
    BY <1>0, <1>1, <1>2, BringFacts, DoneTop
  <1>4. ~Usable(f) => ~Compiles(Top.module, Req, Brg)
    <2>1. ~Usable(f) => Known(f) /\ Fails(f) BY <1>0 DEF Usable, Known, Fails
    <2>2. ~Usable(f) => ~Compiles(f, Req, Brg) BY <2>1 DEF GraphInv, FailInv
    <2>. QED BY <1>0, <2>2, BringFacts, CompilesInherits
  <1>5. b => ~Compiles(Top.module, Req, Brg) BY <1>0, <1>1, <1>4, BringFacts
  <1>6. ~b => state'[f] = "resolved" BY <1>0, <1>1 DEF Usable
  <1>7. state' \in [SourceFiles -> ModuleStates] BY <1>0 DEF GraphInv, GraphShape
  <1>. QED BY <1>0, <1>2, <1>3, <1>5, <1>6, <1>7, BringFacts, BringStep

\* The module is under analysis: all from it to the bringer lie on one cycle.
LEMMA BringCycleStep == ASSUME GraphInv, NEW f \in SourceFiles, BringCycle(f) PROVE GraphInv'
  <1>0. Brings(f) /\ f \in present /\ state[f] = "resolving" /\ BringDone(FALSE)
        /\ state' = [m \in SourceFiles |-> IF m \in Cycle(f) THEN "failed" ELSE state[m]]
        /\ UNCHANGED <<inputs, expansion, findings>>
    BY DEF BringCycle
  <1>m. PICK M : M = Top.module OBVIOUS
  <1>1. /\ GraphShape /\ FrameInv /\ Inputs /\ frames # <<>> /\ M \in SourceFiles /\ <<M, f>> \in Brg
        /\ Len(frames) \in Nat /\ DOMAIN frames = 1..Len(frames) /\ Len(frames) \in DOMAIN frames
        /\ frames[Len(frames)].module = M
    BY <1>0, <1>m, BringFacts, TopIs
  <1>2. \A i \in DOMAIN frames : frames[i].module = M \/ <<frames[i].module, M>> \in Brg
    <2>1. \A i \in DOMAIN frames : i = Len(frames) \/ i < Len(frames) BY <1>1
    <2>. QED BY <1>1, <2>1 DEF FrameInv
  <1>3. ASSUME NEW m \in Cycle(f)
        PROVE  m \in SourceFiles /\ state[m] \in {"resolving", "failed"} /\ ~Compiles(m, Req, Brg)
    <2>1. PICK j \in DOMAIN frames : frames[j].module = m /\ \E k \in 1..j : frames[k].module = f
      BY <1>3 DEF Cycle
    <2>2. PICK k \in 1..j : frames[k].module = f BY <2>1
    <2>3. k \in DOMAIN frames /\ (k = j \/ k < j) BY <1>1, <2>1, <2>2
    <2>4. f = m \/ <<f, m>> \in Brg BY <1>1, <2>1, <2>2, <2>3 DEF FrameInv
    <2>5. m = M \/ <<m, M>> \in Brg BY <1>2, <2>1
    <2>6. IsGraph(Bro) BY <1>1, BroIs
    <2>7. <<m, f>> \in Brg BY <1>1, <2>5, <2>6, PathsJoin DEF Brg
    <2>8. <<m, m>> \in Brg BY <2>4, <2>6, <2>7, PathsJoin DEF Brg
    <2>9. ~Compiles(m, Req, Brg) BY <1>1, <2>8, CompilesIs
    <2>. QED BY <1>1, <2>1, <2>9 DEF FrameInv, Inputs
  <1>4. M \in Cycle(f)
    <2>1. PICK i \in DOMAIN frames : frames[i].module = f BY <1>0, <1>1 DEF FrameInv
    <2>2. i \in 1..Len(frames) BY <1>1
    <2>. QED BY <1>1, <2>1, <2>2 DEF Cycle
  <1>5. ~Compiles(Top.module, Req, Brg) BY <1>3, <1>4, <1>m
  <1>6. SameCalls(TRUE) /\ frames' \in Seq(FrameSet) /\ frames'[Len(frames)].todo = Tail(Top.todo)
    BY <1>0, BringFacts, DoneTop
  <1>7. state' \in [SourceFiles -> ModuleStates]
    BY <1>0, <1>1 DEF GraphShape, ModuleStates
  <1>8. \A m \in SourceFiles :
              \/ state'[m] = state[m]
              \/ state[m] \in {"resolving", "failed"} /\ state'[m] = "failed" /\ ~Compiles(m, Req, Brg)
    BY <1>0, <1>3
  <1>. QED BY <1>0, <1>5, <1>6, <1>7, <1>8, BringFacts, BringStep

\* A new call of analyze and its first call of expandRequires.
LEMMA NewShape ==
    ASSUME GraphShape, NEW f \in SourceFiles, BringNew(f)
    PROVE  /\ GraphShape' /\ Len(frames) \in Nat /\ DOMAIN frames' = 1..(Len(frames) + 1) /\ DOMAIN frames = 1..Len(frames)
           /\ \A i \in 1..Len(frames) : frames'[i] = frames[i]
           /\ frames'[Len(frames) + 1].module = f /\ Range(frames'[Len(frames) + 1].todo) = {}
           /\ frames'[Len(frames) + 1].failed = (f \in faulty)
           /\ Top' = frames'[Len(frames) + 1] /\ frames' # <<>>
           /\ DOMAIN expansion' = {1} /\ expansion' # <<>>
           /\ expansion'[1].file = f /\ expansion'[1].todo = text[f]
  <1>1. PICK fr : fr = [module |-> f, todo |-> <<>>, failed |-> f \in faulty] OBVIOUS
  <1>2. PICK cl : cl = [file |-> f, todo |-> text[f]] OBVIOUS
  <1>3. /\ frames' = Append(frames, fr) /\ expansion' = <<cl>> /\ state' = [state EXCEPT ![f] = "resolving"]
        /\ UNCHANGED <<inputs, findings>>
    BY <1>1, <1>2 DEF BringNew
  <1>4. /\ fr \in FrameSet /\ fr.module = f /\ fr.todo = <<>> /\ fr.failed = (f \in faulty)
        /\ cl \in CallSet /\ cl.file = f /\ cl.todo = text[f]
    BY <1>1, <1>2, NoElement DEF FrameSet, CallSet, GraphShape
  <1>5. /\ frames' \in Seq(FrameSet) /\ Len(frames') = Len(frames) + 1 /\ DOMAIN frames' = 1..(Len(frames) + 1)
        /\ frames'[Len(frames) + 1] = fr /\ \A i \in DOMAIN frames : frames'[i] = frames[i]
        /\ Len(frames) \in Nat /\ DOMAIN frames = 1..Len(frames)
    BY <1>3, <1>4, AppendIs DEF GraphShape
  <1>6. /\ expansion' \in Seq(CallSet) /\ Len(expansion') = 1 /\ DOMAIN expansion' = {1} /\ expansion'[1] = cl
    BY <1>3, <1>4, OneElement
  <1>7. state' \in [SourceFiles -> ModuleStates] BY <1>3 DEF GraphShape, ModuleStates
  <1>8. GraphShape' BY <1>3, <1>5, <1>6, <1>7 DEF GraphShape, inputs, findings
  <1>9. Range(fr.todo) = {} BY <1>4, NoElement
  <1>10. frames' # <<>> /\ expansion' # <<>>
    <2>1. Len(frames') # 0 /\ Len(expansion') # 0 BY <1>5, <1>6
    <2>. QED BY <2>1, NoElement
  <1>. QED BY <1>4, <1>5, <1>6, <1>8, <1>9, <1>10 DEF Top

\* analyze of a module that is new.
LEMMA BringNewStep == ASSUME GraphInv, NEW f \in SourceFiles, BringNew(f) PROVE GraphInv'
  <1>0. /\ Brings(f) /\ f \in present /\ state[f] = "unknown" /\ state' = [state EXCEPT ![f] = "resolving"]
        /\ UNCHANGED <<inputs, findings>>
    BY DEF BringNew
  <1>m. PICK M : M = Top.module OBVIOUS
  <1>n. PICK N : N = Len(frames) OBVIOUS
  <1>1. /\ GraphShape /\ FrameInv /\ Inputs /\ frames # <<>> /\ ~Expanding
        /\ <<M, f>> \in Brg /\ N \in 1..N /\ frames[N].module = M
    BY <1>0, <1>m, <1>n, BringFacts, TopIs
  <1>2. expansion = <<>> BY <1>1 DEF Expanding
  <1>3. /\ GraphShape' /\ N \in Nat /\ DOMAIN frames' = 1..(N + 1) /\ DOMAIN frames = 1..N
        /\ \A i \in 1..N : frames'[i] = frames[i]
        /\ frames'[N + 1].module = f /\ Range(frames'[N + 1].todo) = {}
        /\ frames'[N + 1].failed = (f \in faulty)
        /\ (Top.module)' = f /\ frames' # <<>>
        /\ DOMAIN expansion' = {1} /\ expansion' # <<>>
        /\ expansion'[1].file = f /\ expansion'[1].todo = text[f]
    BY <1>1, <1>n, NewShape
  <1>4. state'[f] = "resolving" /\ \A m \in SourceFiles : m # f => state'[m] = state[m]
    BY <1>0, <1>1 DEF GraphShape
  <1>5. /\ present' = present /\ text' = text /\ Req' = Req /\ faulty' = faulty /\ Required' = Required /\ Brg' = Brg
        /\ resolved' = resolved /\ body' = body /\ cycles' = cycles /\ unresolved' = unresolved
    BY <1>0, GraphFixed DEF inputs, findings
  <1>6. \A m : Merged(m)' = Merged(m) BY <1>5 DEF Merged
  <1>7. \A i \in 1..N : frames[i].module # f /\ frames[i].module \in SourceFiles
    BY <1>0, <1>1, <1>3 DEF FrameInv, Inputs
  <1>8. FrameInv'
    <2>1. ASSUME NEW i \in DOMAIN frames'
          PROVE  /\ frames'[i].module \in present'
                 /\ state'[frames'[i].module] \in {"resolving", "failed"}
                 /\ Range(frames'[i].todo) \subseteq Range(body'[frames'[i].module])
      <3>1. CASE i = N + 1 BY <3>1, <1>0, <1>3, <1>4, <1>5
      <3>2. CASE i # N + 1
        <4>1. i \in 1..N BY <3>2, <2>1, <1>3
        <4>2. /\ frames[i].module \in present /\ state[frames[i].module] \in {"resolving", "failed"}
              /\ Range(frames[i].todo) \subseteq Range(body[frames[i].module])
          BY <4>1, <1>1, <1>3 DEF FrameInv
        <4>3. frames'[i] = frames[i] /\ state'[frames[i].module] = state[frames[i].module] BY <4>1, <1>3, <1>4, <1>7
        <4>. QED BY <4>2, <4>3, <1>5
      <3>. QED BY <3>1, <3>2
    <2>2. ASSUME NEW i \in DOMAIN frames', NEW j \in DOMAIN frames', i < j
          PROVE  frames'[i].module # frames'[j].module /\ <<frames'[i].module, frames'[j].module>> \in Brg'
      <3>1. i \in 1..N BY <2>2, <1>3
      <3>2. CASE j = N + 1
        <4>1. frames[i].module = M \/ <<frames[i].module, M>> \in Brg
          <5>1. i = N \/ i < N BY <3>1, <1>3
          <5>. QED BY <5>1, <3>1, <1>1, <1>3 DEF FrameInv
        <4>2. <<frames[i].module, f>> \in Brg BY <4>1, <1>1, BroIs, PathsJoin DEF Brg
        <4>. QED BY <3>1, <3>2, <4>2, <1>3, <1>5, <1>7
      <3>3. CASE j # N + 1
        <4>1. j \in 1..N BY <3>3, <2>2, <1>3
        <4>. QED BY <2>2, <3>1, <4>1, <1>1, <1>3, <1>5 DEF FrameInv
      <3>. QED BY <3>2, <3>3
    <2>3. ASSUME NEW m \in SourceFiles, state'[m] = "resolving" PROVE \E i \in DOMAIN frames' : frames'[i].module = m
      <3>1. N + 1 \in DOMAIN frames' BY <1>3
      <3>2. CASE m = f BY <3>1, <3>2, <1>3
      <3>3. CASE m # f
        <4>1. PICK i \in DOMAIN frames : frames[i].module = m BY <2>3, <3>3, <1>1, <1>4 DEF FrameInv
        <4>2. i \in DOMAIN frames' BY <4>1, <1>3
        <4>. QED BY <4>1, <4>2, <1>3
      <3>. QED BY <3>2, <3>3
    <2>. QED BY <2>1, <2>2, <2>3, <1>3 DEF FrameInv
  <1>9. StackInv'
    <2>1. f \in Merged(f) BY DEF Merged
    <2>. QED BY <2>1, <1>3, <1>5, <1>6 DEF StackInv
  <1>10. FoundInv(f) /\ resolved[f] = <<>> /\ body[f] = <<>> /\ ~cycles[f] /\ unresolved[f] = {}
    BY <1>0 DEF GraphInv, FoundInv, Known
  <1>11. Merged(f) = {f} BY <1>10, NoElement DEF Merged
  <1>12. ASSUME NEW m \in SourceFiles PROVE FoundInv(m)'
    <2>1. CASE m # f BY <2>1, <1>0, <1>4, <1>5, OthersSame DEF GraphInv
    <2>2. CASE m = f
      <3>1. After(f, Req)' = After(f, Req) BY <1>5 DEF After
      <3>. QED BY <2>2, <3>1, <1>0, <1>4, <1>5, <1>6, <1>10 DEF FoundInv, Known
    <2>. QED BY <2>1, <2>2
  <1>13. Fails(f)' <=> f \in faulty
    <2>1. N + 1 \in DOMAIN frames' BY <1>3
    <2>2. ASSUME NEW i \in DOMAIN frames', frames'[i].module = f PROVE i = N + 1
      <3>1. i \in 1..N \/ i = N + 1 BY <1>3
      <3>. QED BY <2>2, <3>1, <1>3, <1>7
    <2>. QED BY <2>1, <2>2, <1>3, <1>4 DEF Fails
  <1>14. ASSUME NEW m \in SourceFiles, m # f PROVE Fails(m)' <=> Fails(m)
    <2>1. (\E i \in DOMAIN frames' : frames'[i].module = m /\ frames'[i].failed)
            => \E i \in DOMAIN frames : frames[i].module = m /\ frames[i].failed
      <3>1. ASSUME NEW i \in DOMAIN frames', frames'[i].module = m PROVE i \in 1..N
        BY <3>1, <1>3, <1>14
      <3>. QED BY <3>1, <1>3
    <2>2. (\E i \in DOMAIN frames : frames[i].module = m /\ frames[i].failed)
            => \E i \in DOMAIN frames' : frames'[i].module = m /\ frames'[i].failed
      <3>1. \A i \in DOMAIN frames : i \in DOMAIN frames' BY <1>3
      <3>. QED BY <3>1, <1>3
    <2>. QED BY <2>1, <2>2, <1>4, <1>14 DEF Fails
  <1>15. ASSUME NEW m \in SourceFiles, m # f, Known(m)'
         PROVE  DealtInv(m)' /\ AcyclicInv(m)' /\ FailInv(m)' /\ BringInv(m)'
    <2>0. Known(m) /\ DealtInv(m) /\ AcyclicInv(m) /\ FailInv(m) /\ BringInv(m)
      BY <1>4, <1>15 DEF GraphInv, Known
    <2>1. DealtInv(m)' /\ AcyclicInv(m)'
      <3>1. m # (Top.module)' BY <1>3, <1>15
      <3>2. \A g : ~AtWork(m, g)' BY <3>1 DEF AtWork
      <3>3. Walked(m) BY <1>2, NoWork
      <3>. QED BY <1>0, <1>14, <1>15, <2>0, <3>1, <3>2, <3>3, FindingsStay
    <2>2. FailInv(m)' BY <1>0, <1>5, <1>6, <1>14, <1>15, <2>0, GraphFixed DEF FailInv
    <2>3. BringInv(m)'
      <3>1. ASSUME NEW s \in Range(body'[m]) PROVE ToBring(m, s)' \/ Fails(m)' \/ state'[s[2]] = "resolved"
        <4>1. CASE ToBring(m, s)
          <5>1. PICK i \in DOMAIN frames : frames[i].module = m /\ s \in Range(frames[i].todo)
            BY <4>1, <1>1 DEF ToBring
          <5>2. i \in DOMAIN frames' /\ frames'[i] = frames[i] BY <1>3
          <5>. QED BY <5>1, <5>2 DEF ToBring
        <4>2. CASE state[s[2]] = "resolved"
          <5>1. s[2] \in SourceFiles
            <6>1. body[m] \in Seq(FileStatements) BY <1>1 DEF GraphShape
            <6>2. s \in FileStatements BY <6>1, <3>1, <1>5 DEF Range
            <6>3. s[1] = "bring" BY <3>1, <1>5 DEF GraphInv, FoundInv
            <6>. QED BY <6>2, <6>3, StatementIs
          <5>. QED BY <4>2, <5>1, <1>0, <1>4
        <4>. QED BY <3>1, <4>1, <4>2, <1>5, <1>14, <1>15, <2>0 DEF BringInv
      <3>2. state'[m] = "resolved" => Compiles(m, Req, Brg)' BY <1>0, <1>4, <1>15, <2>0, GraphFixed DEF BringInv
      <3>. QED BY <3>1, <3>2 DEF BringInv
    <2>. QED BY <2>1, <2>2, <2>3
  <1>16. DealtInv(f)' BY <1>3, <1>5, <1>6, <1>11 DEF DealtInv, Waiting
  <1>17. AcyclicInv(f)'
    <2>1. AtWork(f, f)' BY <1>3 DEF AtWork
    <2>2. \A g : <<f, g>> \in Required => <<"require", g>> \in Range(expansion'[1].todo)
      BY <1>1, <1>3, RequiredIs
    <2>. QED BY <1>3, <1>5, <1>6, <1>11, <2>1, <2>2 DEF AcyclicInv
  <1>18. FailInv(f)'
    <2>1. f \in faulty => ~Compiles(f, Req, Brg) BY <1>1, SoundIs, CompilesIs
    <2>. QED BY <1>0, <1>5, <1>6, <1>10, <1>11, <1>13, <2>1, GraphFixed DEF FailInv
  <1>19. BringInv(f)' BY <1>4, <1>5, <1>10, NoElement DEF BringInv
  <1>. QED BY <1>3, <1>8, <1>9, <1>12, <1>15, <1>16, <1>17, <1>18, <1>19 DEF GraphInv

\* The statements that were kept are brings of files.
LEMMA BodyIs ==
    ASSUME GraphInv, NEW m \in SourceFiles, NEW s \in Range(body[m])
    PROVE  s[1] = "bring" /\ s[2] \in SourceFiles /\ s = <<"bring", s[2]>>
  <1>1. body[m] \in Seq(FileStatements) BY DEF GraphInv, GraphShape
  <1>2. s \in FileStatements BY <1>1 DEF Range
  <1>3. s[1] = "bring" BY DEF GraphInv, FoundInv
  <1>. QED BY <1>2, <1>3, StatementIs

\* A call of analyze that returns without a failure is for a module that
\* compiles: all it brings is resolved, what is resolved brings only what is, and
\* the module itself is not, so no path leads back to it.
LEMMA AnalysisCompiles ==
    ASSUME GraphInv, frames # <<>>, ~Expanding, Top.todo = <<>>, ~Fails(Top.module)
    PROVE  /\ Compiles(Top.module, Req, Brg)
           /\ \A s \in Range(body[Top.module]) : state[s[2]] = "resolved"
  <1>m. PICK M : M = Top.module OBVIOUS
  <1>0. GraphShape /\ FrameInv /\ Inputs BY ShapeInputs DEF GraphInv
  <1>1. /\ M \in SourceFiles /\ M \in present /\ Known(M)
        /\ FoundInv(M) /\ DealtInv(M) /\ AcyclicInv(M) /\ FailInv(M) /\ BringInv(M)
    BY <1>m, TopKnown
  <1>2. /\ Len(frames) \in Nat /\ DOMAIN frames = 1..Len(frames) /\ frames[Len(frames)].module = M
        /\ Len(frames) \in DOMAIN frames /\ Range(frames[Len(frames)].todo) = {}
    BY <1>0, <1>m, TopIs, NoElement
  <1>3. \A m : Walked(m)
    <2>1. expansion = <<>> BY DEF Expanding
    <2>. QED BY <2>1, NoWork
  <1>4. ASSUME NEW i \in DOMAIN frames, frames[i].module = M PROVE i = Len(frames)
    <2>1. i = Len(frames) \/ i < Len(frames) BY <1>2
    <2>2. \A j \in DOMAIN frames : j < Len(frames) => frames[j].module # frames[Len(frames)].module
      BY <1>0, <1>2 DEF FrameInv
    <2>. QED BY <2>1, <2>2, <1>2, <1>4
  <1>5. ASSUME NEW s \in Range(body[M]) PROVE state[s[2]] = "resolved"
    <2>1. ~ToBring(M, s) BY <1>2, <1>4 DEF ToBring
    <2>. QED BY <2>1, <1>1, <1>m DEF BringInv
  <1>6. SoundByItself(M, Req) BY <1>0, <1>1, <1>3, <1>m, WalkedSound
  <1>7. ASSUME NEW g, <<M, g>> \in Bro PROVE g \in SourceFiles /\ state[g] = "resolved"
    <2>1. <<"bring", g>> \in Range(body[M]) BY <1>0, <1>1, <1>3, <1>7, WalkedFrom
    <2>2. <<"bring", g>>[2] = g OBVIOUS
    <2>3. g \in SourceFiles BY <1>1, <2>1, <2>2, BodyIs
    <2>4. state[g] = "resolved" BY <1>5, <2>1, <2>2
    <2>. QED BY <2>3, <2>4
  <1>8. \A g \in SourceFiles : state[g] = "resolved" => Known(g) /\ Compiles(g, Req, Brg)
    BY DEF GraphInv, BringInv, Known
  <1>. DEFINE S == {x \in SourceFiles : state[x] = "resolved"}
  <1>9. ASSUME NEW x \in S, NEW y \in Files, <<x, y>> \in Bro PROVE y \in S
    <2>1. x \in SourceFiles /\ state[x] = "resolved" /\ Known(x) /\ Compiles(x, Req, Brg) BY <1>8
    <2>2. FoundInv(x) /\ DealtInv(x) /\ FailInv(x) /\ BringInv(x) BY <2>1 DEF GraphInv
    <2>3. <<"bring", y>> \in Range(body[x]) BY <1>0, <1>3, <1>9, <2>1, <2>2, WalkedFrom
    <2>4. <<"bring", y>>[2] = y OBVIOUS
    <2>5. y \in SourceFiles BY <2>1, <2>3, <2>4, BodyIs
    <2>6. ~Fails(x) BY <2>1, <2>2 DEF FailInv
    <2>7. ~ToBring(x, <<"bring", y>>) BY <1>0, <2>1 DEF ToBring, FrameInv
    <2>8. state[y] = "resolved" BY <2>2, <2>3, <2>4, <2>6, <2>7 DEF BringInv
    <2>. QED BY <2>5, <2>8
  <1>10. ClosedUnder(S, Bro) BY <1>9 DEF ClosedUnder, Files
  <1>11. \A h \in Files : <<M, h>> \in Bro => h \in S BY <1>7
  <1>12. M \notin S
    <2>1. state[M] \in {"resolving", "failed"} BY <1>0, <1>2 DEF FrameInv
    <2>. QED BY <2>1
  <1>. HIDE DEF S
  <1>13. <<M, M>> \notin Brg BY <1>0, <1>10, <1>11, <1>12, BroIs, PathsStay DEF Brg
  <1>14. Compiles(M, Req, Brg) BY <1>0, <1>6, <1>7, <1>8, <1>13, CompilesBuilds
  <1>. QED BY <1>5, <1>14, <1>m

\* analyze returns.
LEMMA AnalyzeReturnsStep == ASSUME GraphInv, AnalyzeReturns PROVE GraphInv'
  <1>m. PICK M : M = Top.module OBVIOUS
  <1>n. PICK N : N = Len(frames) OBVIOUS
  <1>0. /\ frames # <<>> /\ ~Expanding /\ Top.todo = <<>> /\ frames' = Front(frames)
        /\ state' = [state EXCEPT ![M] = IF state[M] = "failed" \/ Top.failed THEN "failed" ELSE "resolved"]
        /\ UNCHANGED <<inputs, expansion, findings>> /\ UNCHANGED <<inputs, findings>>
    BY <1>m DEF AnalyzeReturns
  <1>1. GraphShape /\ FrameInv /\ StackInv /\ Inputs BY ShapeInputs DEF GraphInv
  <1>2. /\ M \in SourceFiles /\ M \in present /\ Known(M)
        /\ FoundInv(M) /\ DealtInv(M) /\ AcyclicInv(M) /\ FailInv(M) /\ BringInv(M)
    BY <1>0, <1>m, TopKnown
  <1>3. /\ N \in Nat /\ N >= 1 /\ DOMAIN frames = 1..N /\ frames[N].module = M /\ N \in DOMAIN frames
        /\ frames[N] = Top
    BY <1>0, <1>1, <1>m, <1>n, TopIs
  <1>4. /\ frames' \in Seq(FrameSet) /\ DOMAIN frames' = 1..(N - 1)
        /\ \A i \in 1..(N - 1) : frames'[i] = frames[i] /\ i \in DOMAIN frames
    <2>1. frames \in Seq(FrameSet) BY <1>1 DEF GraphShape
    <2>2. /\ frames' \in Seq(FrameSet) /\ DOMAIN frames' = 1..(N - 1)
          /\ \A i \in 1..(N - 1) : frames'[i] = frames[i]
      BY <2>1, <1>0, <1>n, FrontIs
    <2>. QED BY <2>2, <1>3
  <1>5. \A i \in 1..(N - 1) : frames[i].module # M /\ frames[i].module \in SourceFiles
    <2>1. \A i \in 1..(N - 1) : i < N /\ i \in DOMAIN frames BY <1>3
    <2>. QED BY <2>1, <1>1, <1>3 DEF FrameInv, Inputs
  <1>6. \A i \in DOMAIN frames : i = N \/ i \in 1..(N - 1) BY <1>3
  <1>7. expansion = <<>> /\ expansion' = <<>> /\ DOMAIN expansion' = {} BY <1>0, NoElement DEF Expanding
  <1>8. /\ present' = present /\ text' = text /\ Req' = Req /\ faulty' = faulty /\ Required' = Required /\ Brg' = Brg
        /\ resolved' = resolved /\ body' = body /\ cycles' = cycles /\ unresolved' = unresolved
    BY <1>0, GraphFixed DEF inputs, findings
  <1>9. /\ state' \in [SourceFiles -> ModuleStates] /\ state'[M] \in {"failed", "resolved"}
        /\ state'[M] = "failed" <=> (state[M] = "failed" \/ Top.failed)
        /\ \A m \in SourceFiles : m # M => state'[m] = state[m]
    BY <1>0, <1>1, <1>2 DEF GraphShape, ModuleStates
  <1>10. GraphShape' BY <1>1, <1>4, <1>7, <1>8, <1>9 DEF GraphShape
  <1>11. FrameInv'
    <2>1. ASSUME NEW i \in DOMAIN frames'
          PROVE  /\ frames'[i].module \in present'
                 /\ state'[frames'[i].module] \in {"resolving", "failed"}
                 /\ Range(frames'[i].todo) \subseteq Range(body'[frames'[i].module])
      <3>1. i \in 1..(N - 1) /\ i \in DOMAIN frames /\ frames'[i] = frames[i] BY <1>4
      <3>2. state'[frames[i].module] = state[frames[i].module] BY <3>1, <1>5, <1>9
      <3>. QED BY <3>1, <3>2, <1>1, <1>8 DEF FrameInv
    <2>2. \A i, j \in DOMAIN frames' : i < j =>
             frames'[i].module # frames'[j].module /\ <<frames'[i].module, frames'[j].module>> \in Brg'
      BY <1>1, <1>4, <1>8 DEF FrameInv
    <2>3. ASSUME NEW m \in SourceFiles, state'[m] = "resolving" PROVE \E i \in DOMAIN frames' : frames'[i].module = m
      <3>1. m # M /\ state[m] = "resolving" BY <2>3, <1>9
      <3>2. PICK i \in DOMAIN frames : frames[i].module = m BY <3>1, <1>1 DEF FrameInv
      <3>3. i \in 1..(N - 1) BY <3>1, <3>2, <1>3, <1>6
      <3>. QED BY <3>2, <3>3, <1>4
    <2>. QED BY <2>1, <2>2, <2>3, <1>7 DEF FrameInv, Expanding
  <1>12. StackInv' BY <1>7 DEF StackInv
  <1>13. \A m : Merged(m)' = Merged(m) BY <1>8 DEF Merged
  <1>14. \A m \in SourceFiles : Known(m)' <=> Known(m) BY <1>2, <1>9 DEF Known
  <1>15. ASSUME NEW m \in SourceFiles PROVE FoundInv(m)'
    <2>1. After(m, Req)' = After(m, Req) BY <1>8 DEF After
    <2>2. FoundInv(m) BY DEF GraphInv
    <2>. QED BY <1>8, <1>13, <1>14, <2>1, <2>2 DEF FoundInv
  <1>16. ASSUME NEW m \in SourceFiles PROVE Fails(m)' <=> Fails(m)
    <2>1. CASE m = M
      <3>1. \A i \in DOMAIN frames' : frames'[i].module # M BY <1>4, <1>5
      <3>2. (\E i \in DOMAIN frames : frames[i].module = M /\ frames[i].failed) <=> Top.failed
        BY <1>3, <1>5, <1>6
      <3>. QED BY <2>1, <3>1, <3>2, <1>9 DEF Fails
    <2>2. CASE m # M
      <3>1. (\E i \in DOMAIN frames' : frames'[i].module = m /\ frames'[i].failed)
              <=> \E i \in DOMAIN frames : frames[i].module = m /\ frames[i].failed
        BY <2>2, <1>3, <1>4, <1>6
      <3>. QED BY <2>2, <3>1, <1>9 DEF Fails
    <2>. QED BY <2>1, <2>2
  <1>17. ASSUME NEW m \in SourceFiles, Known(m)'
         PROVE  DealtInv(m)' /\ AcyclicInv(m)' /\ FailInv(m)' /\ BringInv(m)'
    <2>0. Known(m) /\ DealtInv(m) /\ AcyclicInv(m) /\ FailInv(m) /\ BringInv(m)
      BY <1>14, <1>17 DEF GraphInv
    <2>1. DealtInv(m)' /\ AcyclicInv(m)'
      <3>1. ~Expanding' BY <1>7 DEF Expanding
      <3>2. \A g : ~AtWork(m, g)' BY <1>7 DEF AtWork
      <3>3. Walked(m) BY <1>7, NoWork
      <3>. QED BY <1>0, <1>16, <2>0, <3>1, <3>2, <3>3, FindingsStay
    <2>2. FailInv(m)' BY <1>0, <1>8, <1>13, <1>16, <2>0, GraphFixed DEF FailInv
    <2>3. BringInv(m)'
      <3>0. state[M] # "resolved" BY <1>1, <1>3 DEF FrameInv
      <3>1. ASSUME NEW s \in Range(body'[m]) PROVE ToBring(m, s)' \/ Fails(m)' \/ state'[s[2]] = "resolved"
        <4>0. s \in Range(body[m]) /\ s[2] \in SourceFiles BY <3>1, <1>8, BodyIs
        <4>1. CASE state[s[2]] = "resolved" BY <4>0, <4>1, <3>0, <1>9
        <4>2. CASE ToBring(m, s) /\ m # M
          <5>1. PICK i \in DOMAIN frames : frames[i].module = m /\ s \in Range(frames[i].todo)
            BY <4>2, <1>0 DEF ToBring
          <5>2. i \in DOMAIN frames' /\ frames'[i] = frames[i] BY <5>1, <4>2, <1>3, <1>4, <1>6
          <5>. QED BY <5>1, <5>2 DEF ToBring
        <4>3. CASE Fails(m) BY <4>3, <1>16
        <4>4. CASE m = M /\ ~Fails(m)
          <5>1. state[s[2]] = "resolved" BY <4>0, <4>4, <1>0, <1>m, AnalysisCompiles
          <5>. QED BY <5>1, <4>1
        <4>. QED BY <4>0, <4>1, <4>2, <4>3, <4>4, <2>0 DEF BringInv
      <3>2. ASSUME state'[m] = "resolved" PROVE Compiles(m, Req, Brg)'
        <4>1. CASE m # M BY <4>1, <3>2, <1>0, <1>9, <2>0, GraphFixed DEF BringInv
        <4>2. CASE m = M
          <5>1. ~Fails(m)' 
            <6>1. \A i \in DOMAIN frames' : frames'[i].module # M BY <1>4, <1>5
            <6>. QED BY <4>2, <3>2, <6>1 DEF Fails
          <5>2. ~Fails(m) BY <5>1, <1>16
          <5>. QED BY <4>2, <5>2, <1>0, <1>m, AnalysisCompiles, GraphFixed
        <4>. QED BY <4>1, <4>2
      <3>. QED BY <3>1, <3>2 DEF BringInv
    <2>. QED BY <2>1, <2>2, <2>3
  <1>. QED BY <1>10, <1>11, <1>12, <1>15, <1>17 DEF GraphInv

\* Steps of other components.
LEMMA GraphStutter == ASSUME GraphInv, UNCHANGED graphVars PROVE GraphInv'
  <1>1. UNCHANGED inputs /\ UNCHANGED findings /\ state' = state /\ frames' = frames /\ expansion' = expansion
    BY DEF graphVars, inputs, findings
  <1>2. /\ present' = present /\ text' = text /\ Req' = Req /\ faulty' = faulty /\ Required' = Required /\ Brg' = Brg
        /\ resolved' = resolved /\ body' = body /\ cycles' = cycles /\ unresolved' = unresolved
    BY <1>1, GraphFixed DEF inputs, findings
  <1>3. Top' = Top /\ \A m : Merged(m)' = Merged(m) /\ (Known(m)' <=> Known(m)) /\ (Fails(m)' <=> Fails(m))
    BY <1>1, <1>2 DEF Top, Merged, Known, Fails
  <1>4. GraphShape' BY <1>1, <1>2 DEF GraphInv, GraphShape
  <1>5. FrameInv' BY <1>1, <1>2, <1>3 DEF GraphInv, FrameInv, Expanding
  <1>6. StackInv' BY <1>1, <1>2, <1>3 DEF GraphInv, StackInv
  <1>7. /\ \A m, f : AtWork(m, f)' <=> AtWork(m, f)
        /\ \A m, f, s : Waiting(m, f, s)' <=> Waiting(m, f, s)
        /\ \A m, s : ToBring(m, s)' <=> ToBring(m, s)
        /\ \A m, s : Dealt(m, s)' <=> Dealt(m, s)
    BY <1>1, <1>2, <1>3 DEF AtWork, Waiting, ToBring, Dealt, Expanding
  <1>8. ASSUME NEW m \in SourceFiles PROVE FoundInv(m)' BY <1>1, <1>2, OthersSame DEF GraphInv
  <1>9. ASSUME NEW m \in SourceFiles, Known(m)'
        PROVE  DealtInv(m)' /\ AcyclicInv(m)' /\ FailInv(m)' /\ BringInv(m)'
    <2>0. DealtInv(m) /\ AcyclicInv(m) /\ FailInv(m) /\ BringInv(m) BY <1>3, <1>9 DEF GraphInv
    <2>1. DealtInv(m)' BY <2>0, <1>2, <1>3, <1>7 DEF DealtInv
    <2>2. AcyclicInv(m)' BY <2>0, <1>1, <1>2, <1>3, <1>7 DEF AcyclicInv
    <2>3. FailInv(m)' BY <2>0, <1>1, <1>2, <1>3, GraphFixed DEF FailInv
    <2>4. BringInv(m)' BY <2>0, <1>1, <1>2, <1>3, <1>7, GraphFixed DEF BringInv
    <2>. QED BY <2>1, <2>2, <2>3, <2>4
  <1>. QED BY <1>4, <1>5, <1>6, <1>8, <1>9 DEF GraphInv

\* Every step keeps the invariant.
LEMMA GraphInvNext == ASSUME GraphInv, [GraphNext]_graphVars PROVE GraphInv'
  <1>1. CASE KeepStatement BY <1>1, KeepStep
  <1>2. CASE ExpandReturns BY <1>2, ExpandReturnsStep
  <1>3. CASE AnalyzeReturns BY <1>3, AnalyzeReturnsStep
  <1>4. ASSUME NEW f \in Files, RequireFails(f) PROVE GraphInv' BY <1>4, RequireFailsStep
  <1>5. ASSUME NEW f \in Files, RequireAgain(f) PROVE GraphInv' BY <1>5, RequireAgainStep
  <1>6. ASSUME NEW f \in Files, RequireFile(f) PROVE GraphInv' BY <1>6, RequireFileStep
  <1>7. ASSUME NEW f \in SourceFiles, BringMissing(f) PROVE GraphInv' BY <1>7, BringMissingStep
  <1>8. ASSUME NEW f \in SourceFiles, BringCycle(f) PROVE GraphInv' BY <1>8, BringCycleStep
  <1>9. ASSUME NEW f \in SourceFiles, BringKnown(f) PROVE GraphInv' BY <1>9, BringKnownStep
  <1>10. ASSUME NEW f \in SourceFiles, BringNew(f) PROVE GraphInv' BY <1>10, BringNewStep
  <1>11. CASE UNCHANGED graphVars BY <1>11, GraphStutter
  <1>. QED BY <1>1, <1>2, <1>3, <1>4, <1>5, <1>6, <1>7, <1>8, <1>9, <1>10, <1>11 DEF GraphNext, Files

\* The invariant includes the types.
LEMMA GraphInvTypes == ASSUME GraphInv PROVE GraphTypes
  <1>0. GraphShape BY DEF GraphInv
  <1>1. ASSUME NEW m \in SourceFiles PROVE Range(resolved[m]) \cup unresolved[m] \subseteq SourceFiles
    <2>1. resolved[m] \in Seq(SourceFiles) /\ unresolved[m] \subseteq SourceFiles BY <1>0 DEF GraphShape
    <2>. QED BY <2>1 DEF Range
  <1>2. ASSUME NEW i \in DOMAIN frames PROVE frames[i].failed \in BOOLEAN
    <2>1. frames[i] \in FrameSet BY <1>0 DEF GraphShape
    <2>. QED BY <2>1 DEF FrameSet
  <1>. QED BY <1>0, <1>1, <1>2 DEF GraphTypes, GraphShape

\* compiler.state, state.order and the stacks of analyze and expandRequires have
\* their types.
THEOREM GraphTypesAlways == GraphSpec => []GraphTypes
  <1>1. GraphInit => GraphInv BY GraphInvInit
  <1>2. GraphInv /\ [GraphNext]_graphVars => GraphInv' BY GraphInvNext
  <1>3. GraphInv => GraphTypes BY GraphInvTypes
  <1>. QED BY <1>1, <1>2, <1>3, PTL DEF GraphSpec

\* For all programs, of any number of files and with any texts: what the two
\* depth-first walks of compiler.go and require.go say of the modules is what the
\* graphs of requires and brings say. Cycles are found though a walk meets each
\* file once, and although BringCycle fails modules in the middle of theirs.
THEOREM CompilationRightAlways == GraphSpec => []CompilationRight
  <1>1. GraphInit => GraphInv BY GraphInvInit
  <1>2. GraphInv /\ [GraphNext]_graphVars => GraphInv' BY GraphInvNext
  <1>3. GraphInv => CompilationRight BY GraphInvRight
  <1>. QED BY <1>1, <1>2, <1>3, PTL DEF GraphSpec

-----------------------------------------------------------------------------
(* The run cache.                                                          *)

\* A run's own name and its place decide what is under that name.
OwnName(r) ==
    /\ pc[r] \in {"touch", "prune", "removing"} => target[r] = Program[r]
    /\ pc[r] \in {"build", "writing", "publish"} => target[r] = r
    /\ pc[r] \in {"launch", "running"} => target[r] \in {r, Program[r]}
    /\ r \in Names => /\ target[r] = r
                      /\ pc[r] \in {"writing", "publish", "launch", "running"}
                      /\ pc[r] # "writing" => dir[r] = Program[r]

\* What a key names is a finished build of that key's program.
Complete == \A k \in Names \cap Keys : dir[k] = k

CacheShape ==
    /\ Names \subseteq Runs \cup Keys
    /\ pc \in [Runs -> RunPlaces]
    /\ target \in [Runs -> Runs \cup Keys \cup {"none"}]
    /\ doomed \in [Runs -> SUBSET (Runs \cup Keys)]
    /\ DOMAIN started = Runs

LaunchInv ==
    /\ CacheShape /\ Complete
    /\ \A r \in Runs : OwnName(r) /\ started[r] \in {"none", Program[r]}

\* The entries no prune is about to remove.
Condemned == UNION {doomed[r] : r \in {q \in Runs : pc[q] = "removing"}}
Surviving == (Names \cap Keys) \ Condemned

\* Somebody is about to prune, or what the prunes under way leave fits.
BoundInv ==
    \/ \E r \in Runs : pc[r] = "prune"
    \/ Cardinality(Surviving) <= Limit

-----------------------------------------------------------------------------
\* An empty directory.
LEMMA LaunchInit == ASSUME Init PROVE LaunchInv
  <1>1. Names = {}
    BY DEF Init, Names
  <1>. QED BY <1>1 DEF Init, LaunchInv, CacheShape, Complete, OwnName, RunPlaces

\* What a step of r does to the directory and to its own state is all that
\* matters: the others keep theirs.
LEMMA LaunchFrame ==
    ASSUME LaunchInv, NEW r \in Runs, CacheShape', Complete', OwnName(r)',
           started'[r] \in {"none", Program[r]},
           \A q \in Runs : q # r =>
               /\ pc'[q] = pc[q] /\ target'[q] = target[q] /\ started'[q] = started[q]
               /\ q \in Names' => q \in Names /\ dir'[q] = dir[q]
    PROVE  LaunchInv'
  <1>1. ASSUME NEW q \in Runs, q # r PROVE OwnName(q)' /\ started'[q] \in {"none", Program[q]}
    BY <1>1 DEF LaunchInv, OwnName
  <1>. QED BY <1>1 DEF LaunchInv

\* Every step of a run keeps the contents of the cache right.
LEMMA LaunchNext == ASSUME LaunchInv, [Next]_vars PROVE LaunchInv'
  <1>. USE CacheAssumption DEF CacheAssumption
  <1>1. CASE UNCHANGED vars
    BY <1>1 DEF vars, LaunchInv, CacheShape, Complete, OwnName, Names
  <1>2. ASSUME NEW r \in Runs, Step(r) PROVE LaunchInv'
    <2>0. CacheShape /\ Complete /\ OwnName(r) /\ started[r] \in {"none", Program[r]}
      BY DEF LaunchInv
    <2>1. Program[r] \in Keys /\ r \notin Keys
      BY DEF Keys
    <2>2. CASE lookup(r)
      <3>1. /\ UNCHANGED <<dir, doomed, started>> /\ Names' = Names
            /\ pc[r] = "lookup" /\ r \notin Names
        BY <2>0, <2>2 DEF lookup, files, Names, OwnName
      <3>2. /\ \/ pc' = [pc EXCEPT ![r] = "touch"] /\ target' = [target EXCEPT ![r] = Program[r]]
               \/ pc' = [pc EXCEPT ![r] = "build"] /\ target' = [target EXCEPT ![r] = r]
        BY <2>2 DEF lookup, Goto, Returns, Reserved
      <3>3. CacheShape' /\ Complete'
        BY <2>0, <2>1, <3>1, <3>2 DEF CacheShape, Complete, RunPlaces
      <3>4. /\ \/ pc'[r] = "touch" /\ target'[r] = Program[r]
               \/ pc'[r] = "build" /\ target'[r] = r
            /\ \A q \in Runs : q # r => pc'[q] = pc[q] /\ target'[q] = target[q]
        BY <2>0, <3>2 DEF CacheShape
      <3>5. OwnName(r)'
        BY <3>1, <3>4 DEF OwnName
      <3>. QED BY <2>0, <3>1, <3>3, <3>4, <3>5, LaunchFrame
    <2>3. CASE MarkUsed(r)
      <3>1. /\ UNCHANGED <<dir, target, doomed, started>> /\ Names' = Names
            /\ pc[r] = "touch" /\ pc' = [pc EXCEPT ![r] = "launch"]
        BY <2>3 DEF MarkUsed, Goto, Names
      <3>2. CacheShape' /\ Complete'
        BY <2>0, <3>1 DEF CacheShape, Complete, RunPlaces
      <3>3. pc'[r] = "launch" /\ \A q \in Runs : q # r => pc'[q] = pc[q]
        BY <2>0, <3>1 DEF CacheShape
      <3>4. OwnName(r)'
        BY <2>0, <3>1, <3>3 DEF OwnName
      <3>. QED BY <2>0, <3>1, <3>2, <3>3, <3>4, LaunchFrame
    <2>4. CASE BuildWrites(r) \/ (BuildExecutable(r) /\ target[r] \in Names)
      <3>1. PICK content \in {"partial", Program[r]}, spot \in {"writing", "publish"} :
               /\ dir' = [n \in Names \cup {r} |-> IF n = r THEN content ELSE dir[n]]
               /\ pc' = [pc EXCEPT ![r] = spot]
               /\ spot = "publish" => content = Program[r]
        <4>1. CASE BuildWrites(r)
          <5>1. target[r] = r
            BY <2>0, <4>1 DEF BuildWrites, OwnName
          <5>2. /\ dir' = [n \in Names \cup {r} |-> IF n = r THEN "partial" ELSE dir[n]]
                /\ pc' = [pc EXCEPT ![r] = "writing"]
            BY <4>1, <5>1 DEF BuildWrites, Write, Goto
          <5>. QED BY <5>2
        <4>2. CASE BuildExecutable(r) /\ target[r] \in Names
          <5>1. target[r] = r
            BY <2>0, <4>2 DEF BuildExecutable, OwnName
          <5>2. /\ dir' = [n \in Names \cup {r} |-> IF n = r THEN Program[r] ELSE dir[n]]
                /\ pc' = [pc EXCEPT ![r] = "publish"]
            BY <4>2, <5>1 DEF BuildExecutable, Write, Goto
          <5>. QED BY <5>2
        <4>. QED BY <2>4, <4>1, <4>2
      <3>2. UNCHANGED <<target, doomed, started>> /\ target[r] = r
        BY <2>0, <2>4 DEF BuildWrites, BuildExecutable, OwnName
      <3>3. /\ Names' = Names \cup {r} /\ dir'[r] = content
            /\ \A n \in Names : n # r => dir'[n] = dir[n]
        BY <3>1 DEF Names
      <3>4. CacheShape' /\ Complete'
        BY <2>0, <2>1, <3>1, <3>2, <3>3 DEF CacheShape, Complete, RunPlaces
      <3>5. pc'[r] = spot /\ \A q \in Runs : q # r => pc'[q] = pc[q]
        BY <2>0, <3>1 DEF CacheShape
      <3>6. OwnName(r)'
        BY <3>1, <3>2, <3>3, <3>5 DEF OwnName
      <3>. QED BY <2>0, <3>2, <3>3, <3>4, <3>5, <3>6, LaunchFrame
    <2>5. CASE \/ BuildExecutable(r) /\ target[r] \notin Names
               \/ publish(r) /\ pc' = [pc EXCEPT ![r] = "launch"] /\ UNCHANGED <<files, target>>
      <3>1. PICK spot \in {"publish", "launch"} : pc' = [pc EXCEPT ![r] = spot]
        BY <2>5 DEF BuildExecutable, Goto
      <3>2. /\ UNCHANGED <<dir, target, doomed, started>> /\ Names' = Names
            /\ target[r] = r /\ (r \in Names => pc[r] = "publish")
        BY <2>0, <2>5 DEF BuildExecutable, publish, files, Names, OwnName
      <3>3. CacheShape' /\ Complete'
        BY <2>0, <3>1, <3>2 DEF CacheShape, Complete, RunPlaces
      <3>4. pc'[r] = spot /\ \A q \in Runs : q # r => pc'[q] = pc[q]
        BY <2>0, <3>1 DEF CacheShape
      <3>5. OwnName(r)'
        BY <2>0, <3>1, <3>2, <3>4 DEF OwnName
      <3>. QED BY <2>0, <3>2, <3>3, <3>4, <3>5, LaunchFrame
    <2>6. CASE \/ BuildFails(r) \/ (Finish(r) /\ target[r] # Program[r])
      <3>1. PICK spot \in {"failed", "done"} : pc' = [pc EXCEPT ![r] = spot]
        BY <2>6 DEF BuildFails, Finish, Goto
      <3>2. UNCHANGED <<target, doomed, started>> /\ target[r] = r
        BY <2>0, <2>6 DEF BuildFails, Finish, OwnName
      <3>3. dir' = [n \in Names \ {r} |-> dir[n]]
        BY <2>6, <3>2 DEF BuildFails, Finish, Unlink, Restrict
      <3>4. Names' = Names \ {r} /\ \A n \in Names' : dir'[n] = dir[n]
        BY <3>3 DEF Names
      <3>5. CacheShape' /\ Complete'
        BY <2>0, <3>1, <3>2, <3>4 DEF CacheShape, Complete, RunPlaces
      <3>6. pc'[r] = spot /\ \A q \in Runs : q # r => pc'[q] = pc[q]
        BY <2>0, <3>1 DEF CacheShape
      <3>7. OwnName(r)'
        BY <3>1, <3>4, <3>6 DEF OwnName
      <3>. QED BY <2>0, <3>2, <3>4, <3>5, <3>6, <3>7, LaunchFrame
    <2>7. CASE publish(r) /\ target[r] \in Names /\ Rename(target[r], Program[r])
               /\ Returns(r, Program[r]) /\ Goto(r, "prune")
      <3>1. /\ dir' = [n \in (Names \ {r}) \cup {Program[r]} |->
                          IF n = Program[r] THEN dir[r] ELSE dir[n]]
            /\ pc[r] = "publish" /\ target[r] = r /\ dir[r] = Program[r] /\ r \in Names
        BY <2>0, <2>7 DEF Rename, publish, OwnName
      <3>2. /\ pc' = [pc EXCEPT ![r] = "prune"] /\ target' = [target EXCEPT ![r] = Program[r]]
            /\ UNCHANGED <<doomed, started>>
        BY <2>7 DEF publish, Goto, Returns
      <3>3. /\ Names' = (Names \ {r}) \cup {Program[r]} /\ dir'[Program[r]] = Program[r]
            /\ \A n \in Names' : n # Program[r] => n \in Names /\ dir'[n] = dir[n]
        BY <3>1 DEF Names
      <3>4. CacheShape' /\ Complete'
        BY <2>0, <2>1, <3>2, <3>3 DEF CacheShape, Complete, RunPlaces
      <3>5. /\ pc'[r] = "prune" /\ target'[r] = Program[r]
            /\ \A q \in Runs : q # r => pc'[q] = pc[q] /\ target'[q] = target[q]
        BY <2>0, <3>2 DEF CacheShape
      <3>6. OwnName(r)'
        BY <2>1, <3>3, <3>5 DEF OwnName
      <3>7. \A q \in Runs : q # Program[r]
        BY <2>1
      <3>. QED BY <2>0, <3>2, <3>3, <3>4, <3>5, <3>6, <3>7, LaunchFrame
    <2>8. CASE PruneReads(r)
      <3>1. /\ UNCHANGED <<dir, target, started>> /\ Names' = Names
            /\ pc[r] = "prune" /\ pc' = [pc EXCEPT ![r] = "removing"]
            /\ doomed' = [doomed EXCEPT ![r] = Names \ Kept]
        BY <2>8 DEF PruneReads, Goto, Names, files
      <3>2. CacheShape' /\ Complete'
        BY <2>0, <3>1 DEF CacheShape, Complete, RunPlaces
      <3>3. pc'[r] = "removing" /\ \A q \in Runs : q # r => pc'[q] = pc[q]
        BY <2>0, <3>1 DEF CacheShape
      <3>4. OwnName(r)'
        BY <2>0, <3>1, <3>3 DEF OwnName
      <3>. QED BY <2>0, <3>1, <3>2, <3>3, <3>4, LaunchFrame
    <2>9. CASE PruneRemoves(r)
      <3>1. /\ UNCHANGED <<target, started>> /\ dir' = [n \in Names \ doomed[r] |-> dir[n]]
            /\ pc[r] = "removing" /\ pc' = [pc EXCEPT ![r] = "launch"]
            /\ doomed' = [doomed EXCEPT ![r] = {}]
        BY <2>9 DEF PruneRemoves, Goto, Unlink, Restrict
      <3>2. Names' \subseteq Names /\ \A n \in Names' : dir'[n] = dir[n]
        BY <3>1 DEF Names
      <3>3. CacheShape' /\ Complete'
        BY <2>0, <3>1, <3>2 DEF CacheShape, Complete, RunPlaces
      <3>4. pc'[r] = "launch" /\ \A q \in Runs : q # r => pc'[q] = pc[q]
        BY <2>0, <3>1 DEF CacheShape
      <3>5. OwnName(r)'
        BY <2>0, <3>1, <3>2, <3>4 DEF OwnName
      <3>. QED BY <2>0, <3>1, <3>2, <3>3, <3>4, <3>5, LaunchFrame
    <2>10. CASE Start(r)
      <3>1. /\ UNCHANGED <<dir, target, doomed>> /\ Names' = Names /\ pc[r] = "launch"
        BY <2>10 DEF Start, files, Names
      <3>2. \/ /\ target[r] \in Names /\ started' = [started EXCEPT ![r] = dir[target[r]]]
               /\ pc' = [pc EXCEPT ![r] = "running"]
            \/ /\ target[r] \notin Names /\ UNCHANGED started
               /\ pc' = [pc EXCEPT ![r] = "missing"]
        BY <2>10 DEF Start, Goto
      <3>3. target[r] \in Names => dir[target[r]] = Program[r]
        BY <2>0, <2>1, <3>1 DEF OwnName, Complete
      <3>4. /\ started'[r] \in {"none", Program[r]} /\ DOMAIN started' = Runs
            /\ \A q \in Runs : q # r => started'[q] = started[q]
        BY <2>0, <3>2, <3>3 DEF CacheShape
      <3>5. CacheShape' /\ Complete'
        BY <2>0, <3>1, <3>2, <3>4 DEF CacheShape, Complete, RunPlaces
      <3>6. /\ pc'[r] \in {"running", "missing"} /\ (pc'[r] = "missing" => target[r] \notin Names)
            /\ \A q \in Runs : q # r => pc'[q] = pc[q]
        BY <2>0, <3>2 DEF CacheShape
      <3>7. OwnName(r)'
        BY <2>0, <3>1, <3>6 DEF OwnName
      <3>. QED BY <3>1, <3>4, <3>5, <3>6, <3>7, LaunchFrame
    <2>11. CASE Finish(r) /\ target[r] = Program[r]
      <3>1. /\ UNCHANGED <<dir, target, doomed, started>> /\ Names' = Names /\ r \notin Names
            /\ pc' = [pc EXCEPT ![r] = "done"]
        BY <2>0, <2>1, <2>11 DEF Finish, Goto, files, Names, OwnName
      <3>2. CacheShape' /\ Complete'
        BY <2>0, <3>1 DEF CacheShape, Complete, RunPlaces
      <3>3. pc'[r] = "done" /\ \A q \in Runs : q # r => pc'[q] = pc[q]
        BY <2>0, <3>1 DEF CacheShape
      <3>4. OwnName(r)'
        BY <3>1, <3>3 DEF OwnName
      <3>. QED BY <2>0, <3>1, <3>2, <3>3, <3>4, LaunchFrame
    <2>12. publish(r) => \/ /\ target[r] \in Names /\ Rename(target[r], Program[r])
                            /\ Returns(r, Program[r]) /\ Goto(r, "prune")
                         \/ pc' = [pc EXCEPT ![r] = "launch"] /\ UNCHANGED <<files, target>>
      BY DEF publish, Goto
    <2>. QED BY <1>2, <2>2, <2>3, <2>4, <2>5, <2>6, <2>7, <2>8, <2>9, <2>10, <2>11, <2>12 DEF Step
  <1>. QED BY <1>1, <1>2 DEF Next

\* A run launches a finished build of its own program or nothing at all
\* (RightProgram): for any number of runs, programs and any bound.
THEOREM RightProgramAlways == Spec => []RightProgram
  <1>1. LaunchInv => RightProgram
    BY DEF LaunchInv, RightProgram
  <1>. QED BY <1>1, LaunchInit, LaunchNext, PTL DEF Spec

-----------------------------------------------------------------------------
\* The programs are no more than the runs.
LEMMA KeysFinite == IsFiniteSet(Keys)
  <1>. DEFINE f == [r \in Runs |-> Program[r]]
  <1>1. f \in Surjection(Runs, Keys)
    BY DEF Surjection, Keys
  <1>. QED BY <1>1, CacheAssumption, FS_Surjection DEF CacheAssumption, ExistsSurjection

\* prune keeps at most Limit names.
LEMMA KeptBounded == IsFiniteSet(Kept) /\ Cardinality(Kept) <= Limit
  <1>. DEFINE S == 1..LastKept \cap DOMAIN recent
              f == [i \in S |-> recent[i]]
  <1>0. LastKept \in Nat \ {0}
    BY CacheAssumption DEF CacheAssumption, LastKept
  <1>1. IsFiniteSet(1..LastKept) /\ Cardinality(1..LastKept) = Limit
    BY <1>0, FS_Interval DEF LastKept
  <1>2. IsFiniteSet(S) /\ Cardinality(S) <= Limit /\ Cardinality(S) \in Nat
    BY <1>1, FS_Subset, FS_CardinalityType
  <1>3. f \in Surjection(S, Kept)
    BY DEF Surjection, Kept
  <1>4. IsFiniteSet(Kept) /\ Cardinality(Kept) <= Cardinality(S)
    BY <1>2, <1>3, FS_Surjection DEF ExistsSurjection
  <1>. HIDE DEF S
  <1>. QED BY <1>2, <1>4, FS_CardinalityType, CacheAssumption DEF CacheAssumption

\* Fewer entries survive, or the same.
LEMMA FewerSurvive ==
    ASSUME Cardinality(Surviving) <= Limit, Surviving' \subseteq Surviving
    PROVE  Cardinality(Surviving') <= Limit
  <1>1. IsFiniteSet(Surviving)
    BY KeysFinite, FS_Subset DEF Surviving
  <1>2. Cardinality(Surviving') <= Cardinality(Surviving)
    BY <1>1, FS_Subset
  <1>3. IsFiniteSet(Surviving')
    BY <1>1, FS_Subset
  <1>. QED BY <1>1, <1>2, <1>3, FS_CardinalityType, CacheAssumption DEF CacheAssumption

\* Nothing is cached at first.
LEMMA BoundInit == ASSUME Init PROVE BoundInv
  <1>1. Surviving = {}
    BY DEF Init, Surviving, Names
  <1>. QED BY <1>1, FS_EmptySet, CacheAssumption DEF CacheAssumption, BoundInv

\* A publication is followed by its own prune; the names a prune has listed
\* stay condemned until it has removed them, whatever other prunes do.
LEMMA BoundNext == ASSUME LaunchInv, BoundInv, [Next]_vars PROVE BoundInv'
  <1>. USE CacheAssumption DEF CacheAssumption
  <1>1. CASE UNCHANGED vars
    BY <1>1 DEF vars, BoundInv, Surviving, Condemned, Names
  <1>2. ASSUME NEW r \in Runs, Step(r) PROVE BoundInv'
    <2>0. CacheShape /\ OwnName(r)
      BY DEF LaunchInv
    <2>1. r \notin Keys
      OBVIOUS
    <2>2. CASE PruneReads(r)
      <3>1. /\ Names' = Names /\ pc' = [pc EXCEPT ![r] = "removing"]
            /\ doomed' = [doomed EXCEPT ![r] = Names \ Kept]
        BY <2>2 DEF PruneReads, Goto, Names, files
      <3>2. pc'[r] = "removing" /\ doomed'[r] = Names \ Kept
        BY <2>0, <3>1 DEF CacheShape
      <3>3. Names \ Kept \subseteq Condemned'
        BY <3>2 DEF Condemned
      <3>4. Surviving' \subseteq Kept
        BY <3>1, <3>3 DEF Surviving
      <3>5. Cardinality(Surviving') <= Cardinality(Kept) /\ IsFiniteSet(Surviving')
        BY <3>4, KeptBounded, FS_Subset
      <3>6. Cardinality(Surviving') <= Limit
        BY <3>5, KeptBounded, FS_CardinalityType
      <3>. QED BY <3>6 DEF BoundInv
    <2>3. CASE publish(r) /\ pc'[r] = "prune"
      BY <2>3 DEF BoundInv
    <2>4. CASE PruneRemoves(r)
      <3>1. /\ dir' = [n \in Names \ doomed[r] |-> dir[n]]
            /\ pc[r] = "removing" /\ pc' = [pc EXCEPT ![r] = "launch"]
            /\ doomed' = [doomed EXCEPT ![r] = {}]
        BY <2>4 DEF PruneRemoves, Goto, Unlink, Restrict
      <3>2. /\ Names' = Names \ doomed[r] /\ pc'[r] = "launch"
            /\ \A q \in Runs : q # r => pc'[q] = pc[q] /\ doomed'[q] = doomed[q]
        BY <2>0, <3>1 DEF Names, CacheShape
      <3>3. Condemned \subseteq doomed[r] \cup Condemned'
        BY <3>2 DEF Condemned
      <3>4. Surviving' \subseteq Surviving
        BY <3>2, <3>3 DEF Surviving
      <3>5. (\E q \in Runs : pc[q] = "prune") => \E q \in Runs : pc'[q] = "prune"
        BY <3>1, <3>2
      <3>. QED BY <3>4, <3>5, FewerSurvive DEF BoundInv
    <2>5. CASE /\ pc[r] \notin {"prune", "removing"} /\ pc'[r] \notin {"prune", "removing"}
               /\ \A q \in Runs : q # r => pc'[q] = pc[q]
               /\ doomed' = doomed /\ Names' \cap Keys \subseteq Names
      <3>1. Condemned' = Condemned
        BY <2>5 DEF Condemned
      <3>2. Surviving' \subseteq Surviving
        BY <2>5, <3>1 DEF Surviving
      <3>3. (\E q \in Runs : pc[q] = "prune") => \E q \in Runs : pc'[q] = "prune"
        BY <2>5
      <3>. QED BY <3>2, <3>3, FewerSurvive DEF BoundInv
    <2>6. PruneReads(r) \/ PruneRemoves(r) \/ (publish(r) /\ pc'[r] = "prune")
          \/ /\ pc[r] \notin {"prune", "removing"} /\ doomed' = doomed
             /\ \E spot \in RunPlaces \ {"prune", "removing"} : pc' = [pc EXCEPT ![r] = spot]
             /\ Names' \cap Keys \subseteq Names
      <3>1. CASE lookup(r) \/ MarkUsed(r) \/ Start(r) \/ (Finish(r) /\ target[r] = Program[r])
        <4>1. Names' = Names /\ doomed' = doomed /\ pc[r] \notin {"prune", "removing"}
          BY <3>1 DEF lookup, MarkUsed, Start, Finish, files, Names
        <4>2. \E spot \in {"touch", "build", "launch", "running", "missing", "done"} :
                 pc' = [pc EXCEPT ![r] = spot]
          BY <3>1 DEF lookup, MarkUsed, Start, Finish, Goto
        <4>. QED BY <4>1, <4>2 DEF RunPlaces
      <3>2. CASE BuildWrites(r) \/ BuildExecutable(r)
        <4>1. doomed' = doomed /\ target[r] = r /\ pc[r] \notin {"prune", "removing"}
          BY <2>0, <3>2 DEF BuildWrites, BuildExecutable, OwnName
        <4>2. Names' \subseteq Names \cup {r}
          BY <3>2, <4>1 DEF BuildWrites, BuildExecutable, Write, Names, files
        <4>3. \E spot \in {"writing", "publish"} : pc' = [pc EXCEPT ![r] = spot]
          BY <3>2 DEF BuildWrites, BuildExecutable, Goto
        <4>. QED BY <2>1, <4>1, <4>2, <4>3 DEF RunPlaces
      <3>3. CASE BuildFails(r) \/ (Finish(r) /\ target[r] # Program[r])
        <4>1. doomed' = doomed /\ pc[r] \notin {"prune", "removing"}
          BY <3>3 DEF BuildFails, Finish
        <4>2. Names' \subseteq Names
          BY <3>3 DEF BuildFails, Finish, Unlink, Restrict, Names
        <4>3. \E spot \in {"failed", "done"} : pc' = [pc EXCEPT ![r] = spot]
          BY <3>3 DEF BuildFails, Finish, Goto
        <4>. QED BY <4>1, <4>2, <4>3 DEF RunPlaces
      <3>4. CASE publish(r)
        <4>1. doomed' = doomed /\ pc[r] = "publish"
          BY <3>4 DEF publish
        <4>2. \/ pc' = [pc EXCEPT ![r] = "prune"]
              \/ pc' = [pc EXCEPT ![r] = "launch"] /\ Names' = Names
          BY <3>4 DEF publish, Goto, files, Names
        <4>3. pc' = [pc EXCEPT ![r] = "prune"] => pc'[r] = "prune"
          BY <2>0 DEF CacheShape
        <4>. QED BY <3>4, <4>1, <4>2, <4>3 DEF RunPlaces
      <3>. QED BY <1>2, <3>1, <3>2, <3>3, <3>4 DEF Step
    <2>7. ASSUME NEW spot \in RunPlaces \ {"prune", "removing"}, pc' = [pc EXCEPT ![r] = spot]
          PROVE  pc'[r] \notin {"prune", "removing"} /\ \A q \in Runs : q # r => pc'[q] = pc[q]
      BY <2>0, <2>7 DEF CacheShape
    <2>. QED BY <2>2, <2>3, <2>4, <2>5, <2>6, <2>7
  <1>. QED BY <1>1, <1>2 DEF Next

\* When every run is over the directory is within its bound (CacheBounded),
\* however many runs there were and however their publications and prunes
\* overlapped.
THEOREM CacheBoundedAlways == Spec => []CacheBounded
  <1>1. LaunchInv /\ BoundInv => CacheBounded
    <2>. SUFFICES ASSUME LaunchInv, BoundInv,
                         \A r \in Runs : pc[r] \in {"done", "failed", "missing"}
                  PROVE  Cardinality(Names) <= Limit
      BY DEF CacheBounded
    <2>1. Condemned = {}
      BY DEF Condemned
    <2>2. Names \subseteq Keys
      BY DEF LaunchInv, CacheShape, OwnName
    <2>3. Surviving = Names
      BY <2>1, <2>2 DEF Surviving
    <2>. QED BY <2>3 DEF BoundInv
  <1>2. Init => LaunchInv /\ BoundInv
    BY LaunchInit, BoundInit
  <1>3. LaunchInv /\ BoundInv /\ [Next]_vars => (LaunchInv /\ BoundInv)'
    BY LaunchNext, BoundNext
  <1>. QED BY <1>1, <1>2, <1>3, PTL DEF Spec

-----------------------------------------------------------------------------
(* The Studio cache.                                                       *)

\* The processes between lockDir and unlockDir.
Inside(p) == at[p] \in {"recheck", "stage", "remove", "rename", "unlock"}

\* Until the lock of a live holder is removed, the lock file is of whoever is
\* inside, the directory is not ready while it is being replaced, and nothing
\* is ever half removed.
StudioInv ==
    /\ StudioTypes
    /\ \/ overtaken
       \/ /\ \A p \in Processes : Inside(p) => lock = p
          /\ \A p \in Processes :
                at[p] \in {"stage", "remove", "rename"} => studio \in {"absent", "damaged"}
          /\ studio # "hollow"
          /\ \A p \in Processes : outcome[p] = "dest" => studio = "whole"

\* The invariant holds before any process has begun.
LEMMA StudioInvInit == ASSUME StudioInit PROVE StudioInv
  BY DEF StudioInit, StudioInv, StudioTypes, Inside

\* Every step of Materialize, and a kill at any point of it, keeps the types.
LEMMA StudioTypesStep ==
    ASSUME StudioTypes, NEW p \in Processes, StudioStep(p) PROVE StudioTypes'
  <1>. USE DEF StudioTypes, Proceed, Outcome
  <1>1. CASE Check(p)
    BY <1>1 DEF Check
  <1>2. CASE TryLock(p)
    BY <1>2 DEF TryLock
  <1>3. CASE DeadlinePasses(p)
    BY <1>3 DEF DeadlinePasses
  <1>4. CASE Retry(p)
    BY <1>4 DEF Retry
  <1>5. CASE Recheck(p)
    BY <1>5 DEF Recheck
  <1>6. CASE extractBundle(p)
    BY <1>6 DEF extractBundle
  <1>7. CASE RemoveSome(p)
    BY <1>7 DEF RemoveSome
  <1>8. CASE RemoveAll(p)
    BY <1>8 DEF RemoveAll
  <1>9. CASE Publish(p)
    BY <1>9 DEF Publish
  <1>10. CASE unlockDir(p)
    BY <1>10 DEF unlockDir
  <1>11. CASE Killed(p)
    BY <1>11 DEF Killed
  <1>. QED
    BY <1>1, <1>2, <1>3, <1>4, <1>5, <1>6, <1>7, <1>8, <1>9, <1>10, <1>11 DEF StudioStep

\* Every step keeps the invariant.
LEMMA StudioInvStep ==
    ASSUME StudioInv, NEW p \in Processes, StudioStep(p) PROVE StudioInv'
  <1>. USE StudioAssumption DEF StudioInv, StudioTypes, Inside, Proceed, Outcome, StudioAssumption
  <1>0. StudioTypes'
    BY StudioTypesStep
  <1>1. CASE Check(p)
    BY <1>0, <1>1 DEF Check, studioReady
  <1>2. CASE TryLock(p)
    BY <1>0, <1>2 DEF TryLock
  <1>3. CASE DeadlinePasses(p)
    BY <1>0, <1>3 DEF DeadlinePasses
  <1>4. CASE Retry(p)
    BY <1>0, <1>4 DEF Retry
  <1>5. CASE Recheck(p)
    BY <1>0, <1>5 DEF Recheck, studioReady
  <1>6. CASE extractBundle(p)
    BY <1>0, <1>6 DEF extractBundle
  <1>7. CASE RemoveSome(p)
    BY <1>0, <1>7 DEF RemoveSome
  <1>8. CASE RemoveAll(p)
    BY <1>0, <1>8 DEF RemoveAll
  <1>9. CASE Publish(p)
    BY <1>0, <1>9 DEF Publish
  <1>10. CASE unlockDir(p)
    BY <1>0, <1>10 DEF unlockDir
  <1>11. CASE Killed(p)
    BY <1>0, <1>11 DEF Killed
  <1>. QED
    BY <1>1, <1>2, <1>3, <1>4, <1>5, <1>6, <1>7, <1>8, <1>9, <1>10, <1>11 DEF StudioStep

\* Materialize answers with a whole Studio that stays whole (StudioKept), for
\* any number of processes.
THEOREM StudioKeptAlways == StudioSpec => []StudioKept
  <1>1. StudioInv /\ [StudioNext]_studioVars => StudioInv'
    <2>1. ASSUME StudioInv, UNCHANGED studioVars PROVE StudioInv'
      BY <2>1 DEF studioVars, StudioInv, StudioTypes, Inside
    <2>. QED BY <2>1, StudioInvStep DEF StudioNext
  <1>2. StudioInv => StudioKept
    BY DEF StudioInv, StudioKept
  <1>. QED BY <1>1, <1>2, StudioInvInit, PTL DEF StudioSpec
=============================================================================
