------------------------------ MODULE MCSafety ------------------------------
(***************************************************************************)
(* The parts whose properties are all about what may never happen: three   *)
(* stores that processes or requests share (the run cache, the sessions of *)
(* a web application, the Studio's directory) and two searches (for the    *)
(* next occurrence of a schedule, and through the files of a program).     *)
(* They share nothing: a behaviour is one of one part, and the variables   *)
(* of the others stay as they began.                                       *)
(***************************************************************************)
EXTENDS RunCache, HttpSessions, StudioCache, CronCalendar, ModuleGraph

CONSTANTS r1, r2, r3, r4, a, b, c, v1, v2, p1, p2, p3, app, f1, f2

\* r1 and r2 build the same program.
FourRuns == r1 :> a @@ r2 :> a @@ r3 :> b @@ r4 :> c

\* The visits are alike.
MCSymmetry == Permutations({v1, v2})

-----------------------------------------------------------------------------
Item(kind, low, high, step) == [kind |-> kind, low |-> low, high |-> high, step |-> step]
Every == <<Item("star", 0, 0, NoStep)>>
EverySecond == <<Item("star", 0, 0, 2)>>
Only(n) == <<Item("number", n, n, NoStep)>>
Between(low, high) == <<Item("range", low, high, NoStep)>>
OneAndRange == <<Item("number", 1, 1, NoStep), Item("range", 2, 3, 1)>>
StepWithoutRange == <<Item("number", 0, 0, 1)>>

\* Restricted and unrestricted fields in all mixtures, and fields that are
\* invalid.
MCExpressions ==
    ({Every, Only(1)} \X {Every, Only(0), Only(1)}
       \X {Every, EverySecond, Only(3), OneAndRange}
       \X {Every, Only(2)}
       \X {Every, EverySecond, Only(3), Between(1, 2)})
    \cup ({Every} \X {Between(1, 0), StepWithoutRange, EverySecond}
             \X {Every, Only(3)} \X {Every} \X {Every})

\* Two years of two months, of 3 and 1 days, then 3 and 2.
MCMonthStarts == <<0, 3, 4, 7, 9>>
MCAfters == {1, 3, 6, 7, 9, 11}
\* Forward and back, by half an hour or one, around the end of the first month.
MCChanges == {<<2, 0>>} \cup ({8, 10, 12, 14} \X {-2, -1, 1, 2})

-----------------------------------------------------------------------------
Statements == {"bring", "require"} \X SourceFiles

\* All programs of three files with up to two statements each, about two files.
MCTexts ==
    {<<>>, <<<<"require", Outside>>>>} \cup {<<s>> : s \in Statements}
    \cup {p \in Statements \X Statements : p[1][2] # p[2][2]}

\* All is well, a file is missing, a file has an error.
MCConditions ==
    {<<SourceFiles, {}>>, <<{app, f1}, {}>>, <<SourceFiles, {f1}>>}

-----------------------------------------------------------------------------
VARIABLE kind

safetyVars == <<kind, vars, sessionVars, studioVars, calendarVars, graphVars>>

\* A part that is not looked at.
NoCalendar ==
    /\ search = "idle" /\ expression = <<>> /\ schedule = <<>>
    /\ after = 0 /\ change = 0 /\ shift = 0 /\ candidate = 0
NoModules ==
    /\ text = <<>> /\ present = {} /\ faulty = {} /\ state = <<>>
    /\ frames = <<"idle">> /\ expansion = <<>>
    /\ resolved = <<>> /\ body = <<>> /\ cycles = <<>> /\ unresolved = <<>>

SafetyInit ==
    /\ kind \in {"cache", "sessions", "studio", "calendar", "modules"}
    /\ Init /\ SessionsInit /\ StudioInit
    /\ kind # "studio" => studio = "absent"
    /\ IF kind = "calendar" THEN CalendarInit ELSE NoCalendar
    /\ IF kind = "modules" THEN GraphInit ELSE NoModules

CacheSteps == kind = "cache" /\ Next /\ UNCHANGED <<kind, sessionVars, studioVars, calendarVars, graphVars>>
SessionSteps == kind = "sessions" /\ SessionsNext /\ UNCHANGED <<kind, vars, studioVars, calendarVars, graphVars>>
StudioSteps == kind = "studio" /\ StudioNext /\ UNCHANGED <<kind, vars, sessionVars, calendarVars, graphVars>>
CalendarSteps == kind = "calendar" /\ CalendarNext /\ UNCHANGED <<kind, vars, sessionVars, studioVars, graphVars>>
ModuleSteps == kind = "modules" /\ GraphNext /\ UNCHANGED <<kind, vars, sessionVars, studioVars, calendarVars>>

SafetyNext == CacheSteps \/ SessionSteps \/ StudioSteps \/ CalendarSteps \/ ModuleSteps

SafetySpec == SafetyInit /\ [][SafetyNext]_safetyVars

\* Type invariant.
SafetyTypes ==
    /\ TypeOK /\ SessionsTypes /\ StudioTypes
    /\ kind = "calendar" => CalendarTypes
    /\ kind = "modules" => GraphTypes
=============================================================================
