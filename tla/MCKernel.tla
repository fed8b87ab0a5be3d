------------------------------ MODULE MCKernel ------------------------------
(***************************************************************************)
(* Kernel.tla with a table of five threads (boot, idle and three more that *)
(* come and go).                                                           *)
(***************************************************************************)
EXTENDS Kernel

MCMaxThreads == 5

\* No property of this module looks at the counters.
MCCounterMod == 1

\* A stack for every thread but boot, and one for the service.
EnoughStacks == 5

\* Idle and two workers; the third finds nothing.
FewStacks == 3

\* One stack only, which the idle thread takes.
ScarceStacks == 1

=============================================================================
