------------------------------- MODULE MCLinks -------------------------------
(***************************************************************************)
(* Processes and the helpers or programs they start: a program's link to   *)
(* the helper of its windows, its link to the helper of its databases, and *)
(* the supervisors of `ahdcode run` with a command that kills. They share  *)
(* nothing, so TLC looks at each by itself.                                *)
(***************************************************************************)
EXTENDS HelperLink, SqliteSession, MCRunControl

VARIABLE scene    \* "window", "sqlite" or "run"

LinksInit ==
    /\ Init /\ SqliteInit /\ ControlInit
    /\ scene \in {"window", "sqlite", "run"} /\ (scene # "sqlite" => hardLinks)

WindowSteps == scene = "window" /\ Next /\ UNCHANGED <<sqliteVars, controlVars, scene>>
SqliteSteps == scene = "sqlite" /\ SqliteNext /\ UNCHANGED <<vars, controlVars, scene>>
RunSteps == scene = "run" /\ ControlNext /\ UNCHANGED <<vars, sqliteVars, scene>>

LinksNext == WindowSteps \/ SqliteSteps \/ RunSteps

\* The fairness of ControlFairSpec, where the supervisors are looked at.
ControlFairness ==
    /\ \A r \in Runs :
          /\ WF_controlVars(scene = "run" /\ RunStep(r))
          /\ WF_controlVars(scene = "run" /\ signal[r] = "kill" /\ ChildExits(r))
    /\ \A c \in Commands : WF_controlVars(scene = "run" /\ CommandStep(c))

\* The fairness of each, where it is looked at.
LinksSpec ==
    /\ LinksInit /\ [][LinksNext]_<<vars, sqliteVars, controlVars, scene>>
    /\ WF_vars(scene = "window" /\ ReaderStep) /\ WF_vars(scene = "window" /\ ProgramStep)
    /\ WF_sqliteVars(scene = "sqlite" /\ Handle)
    /\ WF_sqliteVars(scene = "sqlite" /\ (Decode \/ DecodeFails))
    /\ ControlFairness

\* The type invariants of the three.
LinkTypes == TypeOK /\ SqliteTypes /\ ControlTypes

\* Both links to helpers keep the contract of CallLink: one request at a time,
\* each settled by its own answer or by a failure after which there is no other.
BothKeepCallLink == KeepsCallLink /\ SqliteKeepsCallLink
=============================================================================
