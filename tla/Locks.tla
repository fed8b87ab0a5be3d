-------------------------------- MODULE Locks --------------------------------
(***************************************************************************)
(* crates/kernel/src/lock.rs on the one CPU: critical(), SpinLock, the     *)
(* interrupt flag and the counter HELD, under every program the threads    *)
(* may run and every thread an interrupt may switch to.                    *)
(*                                                                         *)
(* The grain is one access to IF, to a lock's flag or to HELD per step, so *)
(* that the timer can strike wherever the hardware lets it.  An interrupt  *)
(* is one step: its gate clears IF.  In it reap_exited may give stacks     *)
(* back, which takes the lock of the frame allocator.                      *)
(***************************************************************************)
EXTENDS Naturals, Sequences, FiniteSets

CONSTANTS
    Thread,
    Boot,       \* the thread that runs kernel_main
    Lock,       \* the SpinLocks
    FrameLock,  \* FRAME_ALLOCATOR, which handlers take too
    NoLock      \* marks the guard of a plain critical()

ASSUME LocksAssumption ==
    Boot \in Thread /\ FrameLock \in Lock /\ NoLock \notin Lock

VARIABLES
    running,  \* the thread that has the CPU
    enabled,  \* kernel_main has called enable_interrupts
    IFlag,    \* RFLAGS.IF of the CPU
    saved,    \* the flag in the IrqFrame of a thread that does not run
    HELD,     \* the static counter
    locked,   \* SpinLock.locked
    section,  \* the guards on a thread's stack, innermost last
    phase,    \* where a thread is inside lock() or a guard's drop
    stuck     \* a handler spins on a lock, with interrupts off

lockVars == <<running, enabled, IFlag, saved, HELD, locked, section, phase, stuck>>

\* restore is the field of CriticalSection.
Guard == [lock : Lock \cup {NoLock}, restore : BOOLEAN]

\* "read": IF has been read but not cleared.  "spin": before the swap.
\* "count": before HELD is raised.  "unlock": HELD was lowered, the flag is
\* still set.  "sti": the flag is clear, IF is about to be restored.
Phase == {"none", "read", "spin", "count", "unlock", "sti"}

LockInit ==
    /\ running = Boot
    /\ enabled = FALSE
    /\ IFlag = FALSE
    /\ saved = [t \in Thread |-> TRUE]
    /\ HELD = 0
    /\ locked = [l \in Lock |-> FALSE]
    /\ section = [t \in Thread |-> <<>>]
    /\ phase = [t \in Thread |-> "none"]
    /\ stuck = FALSE

Innermost(t) == section[t][Len(section[t])]

Outer(t) == SubSeq(section[t], 1, Len(section[t]) - 1)

Push(t, guard) == section' = [section EXCEPT ![t] = Append(@, guard)]

Pop(t) == section' = [section EXCEPT ![t] = Outer(t)]

GoTo(t, p) == phase' = [phase EXCEPT ![t] = p]

\* No function of the kernel takes a lock while it has one.
HasLock(t) == \E i \in DOMAIN section[t] : section[t][i].lock # NoLock

-----------------------------------------------------------------------------
(* What the running thread does *)

\* Mutated form: the guard always turns interrupts on when it is dropped.
EnterAssumingEnabled(l) ==
    /\ ~ stuck
    /\ phase[running] = "none"
    /\ l # NoLock => ~ HasLock(running)
    /\ Push(running, [lock |-> l, restore |-> TRUE])
    /\ GoTo(running, "read")
    /\ UNCHANGED <<running, enabled, IFlag, saved, HELD, locked, stuck>>

\* CriticalSection::enter, first half: interrupts_enabled().  lock() and
\* critical() both begin here.
Enter(l) ==
    /\ ~ stuck
    /\ phase[running] = "none"
    /\ l # NoLock => ~ HasLock(running)
    /\ Push(running, [lock |-> l, restore |-> IFlag])
    /\ GoTo(running, "read")
    /\ UNCHANGED <<running, enabled, IFlag, saved, HELD, locked, stuck>>

\* Mutated form: the lock is taken with interrupts on.
CliSkipped ==
    /\ phase[running] = "read"
    /\ GoTo(running, IF Innermost(running).lock = NoLock THEN "none" ELSE "spin")
    /\ UNCHANGED <<running, enabled, IFlag, saved, HELD, locked, section, stuck>>

\* Second half: cli, if interrupts were on.
Cli ==
    /\ phase[running] = "read"
    /\ IFlag' = (IFlag /\ ~ Innermost(running).restore)
    /\ GoTo(running, IF Innermost(running).lock = NoLock THEN "none" ELSE "spin")
    /\ UNCHANGED <<running, enabled, saved, HELD, locked, section, stuck>>

\* locked.swap(true) that finds false.  While it finds true the loop spins.
Swap ==
    /\ phase[running] = "spin"
    /\ ~ locked[Innermost(running).lock]
    /\ locked' = [locked EXCEPT ![Innermost(running).lock] = TRUE]
    /\ GoTo(running, "count")
    /\ UNCHANGED <<running, enabled, IFlag, saved, HELD, section, stuck>>

Count ==
    /\ phase[running] = "count"
    /\ HELD' = HELD + 1
    /\ GoTo(running, "none")
    /\ UNCHANGED <<running, enabled, IFlag, saved, locked, section, stuck>>

\* Mutated form: HELD is not lowered.
DiscountForgotten ==
    /\ phase[running] = "none"
    /\ section[running] # <<>>
    /\ Innermost(running).lock # NoLock
    /\ GoTo(running, "unlock")
    /\ UNCHANGED <<running, enabled, IFlag, saved, HELD, locked, section, stuck>>

\* SpinLockGuard::drop.
Discount ==
    /\ phase[running] = "none"
    /\ section[running] # <<>>
    /\ Innermost(running).lock # NoLock
    /\ HELD' = HELD - 1
    /\ GoTo(running, "unlock")
    /\ UNCHANGED <<running, enabled, IFlag, saved, locked, section, stuck>>

Unlock ==
    /\ phase[running] = "unlock"
    /\ locked' = [locked EXCEPT ![Innermost(running).lock] = FALSE]
    /\ GoTo(running, "sti")
    /\ UNCHANGED <<running, enabled, IFlag, saved, HELD, section, stuck>>

\* CriticalSection::drop, of a plain section or as the _irq of a lock guard.
Leave ==
    /\ section[running] # <<>>
    /\ phase[running] = IF Innermost(running).lock = NoLock THEN "none" ELSE "sti"
    /\ IFlag' = (IFlag \/ Innermost(running).restore)
    /\ Pop(running)
    /\ GoTo(running, "none")
    /\ UNCHANGED <<running, enabled, saved, HELD, locked, stuck>>

\* kernel_main's one call of enable_interrupts.
EnableInterrupts ==
    /\ running = Boot
    /\ ~ enabled
    /\ phase[Boot] = "none"
    /\ section[Boot] = <<>>
    /\ enabled' = TRUE
    /\ IFlag' = TRUE
    /\ UNCHANGED <<running, saved, HELD, locked, section, phase, stuck>>

\* thread::create ends: a stack with an IrqFrame that has IF set.  The slot
\* may have belonged to a thread that exited.
Spawn(t) ==
    /\ enabled
    /\ t # running
    /\ saved' = [saved EXCEPT ![t] = TRUE]
    /\ section' = [section EXCEPT ![t] = <<>>]
    /\ GoTo(t, "none")
    /\ UNCHANGED <<running, enabled, IFlag, HELD, locked, stuck>>

-----------------------------------------------------------------------------
(* Interrupts *)

\* irq_handler: the frame keeps the flag of the interrupted thread and iretq
\* loads that of the next one.  If the handler has a stack to free and
\* finds the lock of the frame allocator taken, it spins for ever.
Handler(next, reaps) ==
    /\ ~ stuck
    /\ stuck' = (reaps /\ locked[FrameLock])
    /\ running' = IF stuck' THEN running ELSE next
    /\ saved' = [saved EXCEPT ![running] = IFlag]
    /\ IFlag' = (~ stuck' /\ saved'[next])
    /\ UNCHANGED <<enabled, HELD, locked, section, phase>>

\* A hardware interrupt needs IF.
Timer(next, reaps) == IFlag /\ Handler(next, reaps)

\* yield_now and exit refuse while held_count() is not 0 ...
MaySwitch == enabled /\ phase[running] = "none" /\ HELD = 0

\* ... and then raise a software interrupt, which IF does not stop.
Yield(next, reaps) == MaySwitch /\ Handler(next, reaps)

-----------------------------------------------------------------------------
LockNext ==
    \/ \E l \in Lock \cup {NoLock} : Enter(l)
    \/ Cli
    \/ Swap
    \/ Count
    \/ Discount
    \/ Unlock
    \/ Leave
    \/ EnableInterrupts
    \/ \E t \in Thread : Spawn(t)
    \/ \E next \in Thread, reaps \in BOOLEAN :
          Timer(next, reaps) \/ Yield(next, reaps)

LockSpec == LockInit /\ [][LockNext]_lockVars

-----------------------------------------------------------------------------
(* Properties *)

\* t is between the swap that took l and the store that gives it back.
Owns(t, l) ==
    \E i \in DOMAIN section[t] :
        /\ section[t][i].lock = l
        /\ i = Len(section[t]) => phase[t] \notin {"read", "spin", "sti"}

\* ... and HELD counts it.
Counted(t, l) ==
    \E i \in DOMAIN section[t] :
        /\ section[t][i].lock = l
        /\ i = Len(section[t]) => phase[t] = "none"

\* On one core a lock that is taken when somebody asks for it is never given
\* back.  So every lock() finds its flag clear, in threads and in handlers
\* (lock.rs:112-117: "first interrupts, then the flag").
NeverSpins ==
    /\ ~ stuck
    /\ phase[running] = "spin" => ~ locked[Innermost(running).lock]

\* HELD is one static for all threads.  It is nevertheless the number of locks
\* of the thread that reads it, and no thread that was switched away from has
\* one: no lock is held across a context switch.
HeldCountsOwnLocks ==
    /\ \A l \in Lock : locked[l] <=> Owns(running, l)
    /\ \A t \in Thread \ {running}, l \in Lock : ~ Owns(t, l)
    /\ HELD = IF \E l \in Lock : Counted(running, l) THEN 1 ELSE 0

\* A thread has entered a section once the flag it found is cleared.
Inside(t) ==
    /\ section[t] # <<>>
    /\ ~ (Len(section[t]) = 1 /\ phase[t] = "read")

\* Nested guards restore exactly what they found: the CPU accepts interrupts
\* if and only if kernel_main has enabled them and the running thread is in
\* no critical section.
FlagFollowsGuards == ~ stuck => (IFlag <=> enabled /\ ~ Inside(running))

=============================================================================
