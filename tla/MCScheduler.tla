----------------------------- MODULE MCScheduler -----------------------------
(* Instance of Scheduler for TLC; the cfg file names the tasks and workers.    *)
EXTENDS Scheduler
=============================================================================
