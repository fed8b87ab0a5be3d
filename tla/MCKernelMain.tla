---------------------------- MODULE MCKernelMain ----------------------------
(***************************************************************************)
(* The smallest self-check in which every step has two threads to mix up:  *)
(* two lock workers, two appenders with two rounds each, a waiter and a    *)
(* setter, beside the boot context, the idle thread and the service.       *)
(***************************************************************************)
EXTENDS KernelMain
=============================================================================
