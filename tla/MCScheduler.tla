---------------------------- MODULE MCScheduler ----------------------------
(***************************************************************************)
(* Scheduler with crons that fire at every other or every third moment.    *)
(***************************************************************************)
EXTENDS Scheduler, TLC

CONSTANTS every2, every3

Period(v) == IF v = every2 THEN 2 ELSE 3

MCNextCron(v, t) ==
  ((t \div Period(v)) + 1) * Period(v)
=============================================================================
