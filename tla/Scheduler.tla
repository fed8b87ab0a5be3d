----------------------------- MODULE Scheduler ------------------------------
(***************************************************************************)
(* The scheduler of crates/kernel-sched as a state machine: one action per *)
(* public method that changes it, called in any order that the kernel      *)
(* (crates/kernel/src/sched.rs) can produce.  Each call runs in a          *)
(* critical() section with interrupts off, so a call is one step.          *)
(*                                                                         *)
(* The caller's side of the contract, which the methods do not check:      *)
(*   - init_boot registers thread 0 once, before anything else;            *)
(*   - the idle thread never exits (idle_main is an endless loop);         *)
(*   - nothing exits before the idle thread is registered.                 *)
(***************************************************************************)
EXTENDS SchedulerOps, Sequences

VARIABLE sched

vars == <<sched>>

BOOT_THREAD == 0

Init == sched = New

CallRegisterBoot ==
    /\ sched.current = NO_THREAD
    /\ sched' = RegisterBoot(sched, BOOT_THREAD)

CallRegisterIdle(id) ==
    /\ sched.current # NO_THREAD
    /\ sched' = RegisterIdle(sched, id).sched

CallRegisterIdleAny ==
    /\ sched.current # NO_THREAD
    /\ sched' = RegisterIdleAny(sched).sched

CallCreate ==
    /\ sched.current # NO_THREAD
    /\ sched' = Create(sched).sched

CallOnTick(reschedule) == sched' = OnTick(sched, reschedule).sched

CallYieldCurrent == sched' = YieldCurrent(sched).sched

CallExitCurrent ==
    /\ sched.idle # NO_THREAD
    /\ sched.current # sched.idle
    /\ sched' = ExitCurrent(sched).sched

CallTakeReapable == sched' = TakeReapable(sched).sched

Next ==
    \/ CallRegisterBoot
    \/ \E id \in ThreadId : CallRegisterIdle(id)
    \/ CallRegisterIdleAny
    \/ CallCreate
    \/ \E reschedule \in BOOLEAN : CallOnTick(reschedule)
    \/ CallYieldCurrent
    \/ CallExitCurrent
    \/ CallTakeReapable

\* The timer never stops: pic::init programs the PIT to fire periodically
\* and irq_handler acknowledges every tick.
Fairness == WF_vars(CallOnTick(TRUE))

Spec == Init /\ [][Next]_vars

FairSpec == Spec /\ Fairness

-----------------------------------------------------------------------------
(* Properties *)

\* Every field of `struct Scheduler` stays in its range: in particular the
\* ring never holds more than MAX_THREADS entries and head stays an index.
TypeOK == sched \in SchedulerStruct

\* The ready queue holds exactly the Ready threads other than the idle
\* thread, each of them once, across every wrap of the ring: no ready thread
\* is forgotten and none is queued twice (enqueue, dequeue, rotate).
QueueIsReadySet == QueueHolds(sched, ReadySet(sched))

\* From boot on, the current thread is Running and no other thread is,
\* whatever sequence of rotations and exits happened.
OnlyCurrentRuns ==
    ThreadsIn(sched, "Running") =
        IF sched.current = NO_THREAD THEN {} ELSE {sched.current}

\* The idle thread is the one thread of kind Idle, is always Ready or
\* Running, and so is never reaped or handed out as a free slot.
IdleStaysAvailable ==
    /\ {t \in ThreadId : sched.kinds[t] = "Idle"} =
           IF sched.idle = NO_THREAD THEN {} ELSE {sched.idle}
    /\ sched.idle # NO_THREAD => sched.states[sched.idle] \in {"Ready", "Running"}

\* take_reapable never hands out the thread that is still current: its stack
\* would be freed underneath it.
NeverReapCurrent ==
    [][\A t \in ThreadId :
          sched.states[t] = "Exited" /\ sched'.states[t] = "Unused"
              => t # sched.current]_vars

\* As long as the timer ticks, every queued thread gets the CPU, although
\* threads keep being created, yielding and exiting.
ReadyThreadsRun ==
    \A t \in ThreadId :
        (sched.states[t] = "Ready" /\ sched.kinds[t] # "Idle")
            ~> sched.current = t

\* The scheduler implements strict round robin.
RR == INSTANCE RoundRobin WITH
          Thread  <- ThreadId,
          None    <- NO_THREAD,
          ready   <- ReadyQueue(sched),
          running <- sched.current,
          idle    <- sched.idle,
          exited  <- ThreadsIn(sched, "Exited")

\* Every call is a step of the abstract round robin or changes nothing there:
\* FIFO order, turns and stops are exactly the promised ones.
ImplementsRoundRobin == RR!Spec

=============================================================================
