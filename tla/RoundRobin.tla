----------------------------- MODULE RoundRobin -----------------------------
(***************************************************************************)
(* What the scheduler promises, with no thread table and no ring buffer:   *)
(* strict round robin over a FIFO of ready threads, one running thread, an *)
(* idle thread that waits outside the FIFO, and threads that have exited   *)
(* and wait to be reaped.  Scheduler.tla is shown to implement it.         *)
(***************************************************************************)
EXTENDS Sequences

CONSTANTS
    Thread,
    None     \* not a thread

VARIABLES
    ready,    \* the FIFO of ready threads, without the idle thread
    running,  \* the thread that has the CPU, or None before boot
    idle,     \* the idle thread, or None before it is registered
    exited    \* threads that stopped and are not reaped yet

vars == <<ready, running, idle, exited>>

\* Threads that hold a slot in one of the roles above.
Taken == {ready[i] : i \in DOMAIN ready} \cup {running, idle} \cup exited

Init ==
    /\ ready = <<>>
    /\ running = None
    /\ idle = None
    /\ exited = {}

\* The boot context is running from the start; nothing precedes it.
Boot(t) ==
    /\ running = None
    /\ t \notin Taken
    /\ running' = t
    /\ UNCHANGED <<ready, idle, exited>>

AddIdle(t) ==
    /\ idle = None
    /\ t \notin Taken
    /\ idle' = t
    /\ UNCHANGED <<ready, running, exited>>

\* A new thread waits behind everyone who is already ready.
Spawn(t) ==
    /\ t \notin Taken
    /\ ready' = Append(ready, t)
    /\ UNCHANGED <<running, idle, exited>>

\* The running thread goes to the back, the front runs.  The idle thread
\* steps aside without joining the FIFO.
Turn ==
    /\ running # None
    /\ ready # <<>>
    /\ ready' = IF running = idle
                THEN Tail(ready)
                ELSE Append(Tail(ready), running)
    /\ running' = Head(ready)
    /\ UNCHANGED <<idle, exited>>

\* The running thread stops; the idle thread runs only if nobody is ready.
Stop ==
    /\ running \notin {None, idle}
    /\ exited' = exited \cup {running}
    /\ \/ /\ ready # <<>>
          /\ running' = Head(ready)
          /\ ready' = Tail(ready)
       \/ /\ ready = <<>>
          /\ idle # None
          /\ running' = idle
          /\ ready' = ready
    /\ UNCHANGED idle

Reap(t) ==
    /\ t \in exited
    /\ exited' = exited \ {t}
    /\ UNCHANGED <<ready, running, idle>>

Next ==
    \/ Turn
    \/ Stop
    \/ \E t \in Thread : Boot(t) \/ AddIdle(t) \/ Spawn(t) \/ Reap(t)

Spec == Init /\ [][Next]_vars

=============================================================================
