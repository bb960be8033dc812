------------------------------- MODULE MCDev ---------------------------------
(***************************************************************************)
(* What must come to pass in `ahdcode dev`: a session's event loop, and    *)
(* the routers of several sessions. TLC looks at each by itself.           *)
(***************************************************************************)
EXTENDS DevSession, LocalRouter

VARIABLE scene    \* "session" or "router"

DevInit ==
    /\ Init /\ RouterInit
    /\ scene \in {"session", "router"}
    /\ scene = "router" => disk = [f \in Files |-> 0] /\ requires = {}

SessionSteps == scene = "session" /\ Next /\ UNCHANGED <<routerVars, scene>>
RouterSteps == scene = "router" /\ RouterNext /\ UNCHANGED <<vars, scene>>

DevNext == SessionSteps \/ RouterSteps

\* The fairness of DevSession, where it is looked at.
SessionFairness ==
    /\ WF_vars(scene = "session" /\ Watcher)
    /\ WF_vars(scene = "session" /\ Watcher /\ applyPathSet)
    /\ SF_vars(scene = "session" /\ Watcher /\ Report)
    /\ WF_vars(scene = "session" /\ Builder)
    /\ SF_vars(scene = "session" /\ BuildReports)
    /\ WF_vars(scene = "session" /\ \E g \in DOMAIN procs : ChildReaped(g) \/ ExitReported(g))
    /\ WF_vars(scene = "session" /\ \E g \in signalled : ChildEnds(g))
    /\ WF_vars(scene = "session" /\ Loop)
    /\ WF_vars(scene = "session" /\ GraceExpires)
    /\ \A s \in Stoppers :
          SF_vars(scene = "session" /\ SendStop(s)) /\ WF_vars(scene = "session" /\ StopAnswered(s))

\* Nothing is under way among the routers before their first step.
DevSpec ==
    /\ DevInit /\ [][DevNext]_<<vars, routerVars, scene>>
    /\ SessionFairness /\ RouterFairness

\* The type invariants of both.
DevTypes == TypeOK /\ RouterTypes
=============================================================================
