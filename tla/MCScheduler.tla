---------------------------- MODULE MCScheduler ----------------------------
(* Instances of Scheduler for TLC. *)
EXTENDS Scheduler, TLC

CONSTANTS t1, t2, t3, t4

FourTasks == {t1, t2, t3, t4}

\* Two tasks wait when `run` is called.
TwoInitial == <<t1, t2>>
=============================================================================
