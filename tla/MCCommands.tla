----------------------------- MODULE MCCommands -----------------------------
(***************************************************************************)
(* What the processes of the command line may never do: a session of       *)
(* `ahdcode dev`, or the supervisors of `ahdcode run` with the commands    *)
(* that stop them. They share nothing, so TLC looks at each by itself.     *)
(***************************************************************************)
EXTENDS DevSession, MCRunControl

VARIABLE scene    \* "session" or "run"

CommandsInit ==
    /\ Init /\ ControlInit
    /\ scene \in {"session", "run"}
    /\ scene = "run" => disk = [f \in Files |-> 1] /\ requires = {}

SessionSteps == scene = "session" /\ Next /\ UNCHANGED <<controlVars, scene>>
RunSteps == scene = "run" /\ ControlNext /\ UNCHANGED <<vars, scene>>

CommandsNext == SessionSteps \/ RunSteps

CommandsSpec == CommandsInit /\ [][CommandsNext]_<<vars, controlVars, scene>>
=============================================================================
