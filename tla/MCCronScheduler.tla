--------------------------- MODULE MCCronScheduler ---------------------------
(* Schedules for TLC: even instants are minutes, odd ones lie in between.   *)
EXTENDS CronScheduler

\* Every minute, and every other minute.
TwoJobs == <<{2, 4, 6, 8}, {4, 8}>>
=============================================================================
