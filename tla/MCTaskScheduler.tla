-------------------------- MODULE MCTaskScheduler --------------------------
(* One tracked and one direct mutation against the run loop. *)
EXTENDS TaskScheduler, TLC

CONSTANTS m1, m2
=============================================================================
