---------------------------- MODULE MCScheduler -----------------------------
(***************************************************************************)
(* Scheduler.tla on a table of four threads: boot, idle and two workers    *)
(* whose slots are reused, so the ring wraps and fills completely.         *)
(***************************************************************************)
EXTENDS Scheduler

MCMaxThreads == 4

\* Two values suffice to see whether a counter moved.
MCCounterMod == 2

=============================================================================
