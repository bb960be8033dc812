----------------------------- MODULE MCRuntime ------------------------------
(***************************************************************************)
(* Two parts of the runtime library that wait: the cron scheduler and the  *)
(* PostgreSQL pool. They share nothing, so a behaviour is one of either.   *)
(***************************************************************************)
EXTENDS MCCronScheduler, PostgresPool

CONSTANTS k1, k2, k3, t1, t2

VARIABLE library    \* "cron" or "postgres"

RuntimeInit == CronInit /\ PoolInit /\ library \in {"cron", "postgres"}

CronSteps == library = "cron" /\ CronNext /\ UNCHANGED <<poolVars, library>>
PoolSteps == library = "postgres" /\ PoolNext /\ UNCHANGED <<cronVars, library>>

RuntimeNext == CronSteps \/ PoolSteps

\* The fairness of both; neither has anything under way before it is used.
RuntimeSpec ==
    /\ RuntimeInit /\ [][RuntimeNext]_<<cronVars, poolVars, library>>
    /\ WF_cronVars(LoopStep) /\ WF_cronVars(TaskStep)
    /\ PoolFairness

\* The type invariants of both.
RuntimeTypes == CronTypes /\ PoolTypes
=============================================================================
