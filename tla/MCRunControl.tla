---------------------------- MODULE MCRunControl ----------------------------
(* Instances of RunControl for TLC.                                        *)
EXTENDS RunControl, TLC

CONSTANTS r1, r2, c1, c2

\* A graceful stop next to a forced kill.
StopAndForce == c1 :> "stop" @@ c2 :> "force"
\* One forced kill.
OneForce == c1 :> "force"
\* Runs start alike and nothing orders them.
RunSymmetry == Permutations(Runs)
=============================================================================
