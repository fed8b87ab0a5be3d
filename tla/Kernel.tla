------------------------------- MODULE Kernel -------------------------------
(***************************************************************************)
(* Threads of crates/kernel on the one CPU: the interrupt path             *)
(* (idt.rs, sched.rs), the thread slots and their stacks (thread.rs), the  *)
(* user service (user.rs, TSS.rsp0 in gdt.rs) and the boot context that    *)
(* creates everybody else (main.rs, self_check.rs).                        *)
(*                                                                         *)
(* An interrupt gate clears IF and nothing nests, so one pass through      *)
(* irq_handler is one step, and so is every critical() section.  Between   *)
(* those sections the timer may strike: thread::create is three steps.     *)
(*                                                                         *)
(* Two views of "who runs" are kept apart.  sched.current is what the      *)
(* scheduler believes; cpu is the program whose registers are really in    *)
(* the CPU.  A program is named by the slot its stack was prepared for.    *)
(***************************************************************************)
EXTENDS SchedulerOps

CONSTANTS
    NUM_STACKS,          \* four-page blocks the frame allocator can hand out
    PREEMPTION_ENABLED,  \* FALSE in builds with the inject-no-preempt feature
    TICK_IN_CREATE       \* may the timer strike inside thread::create?

ASSUME NumStacksAssumption == NUM_STACKS \in Nat
ASSUME SwitchesAssumption == {PREEMPTION_ENABLED, TICK_IN_CREATE} \subseteq BOOLEAN

VARIABLES
    sched,       \* the scheduler's struct
    slots,       \* thread.rs: the machine side of every thread
    program,     \* what runs on the stack prepared for a slot
    home,        \* the kernel stack that program runs on
    cpu,         \* the program in the CPU, or Wild
    xmm,         \* whose XMM state is in the CPU
    rsp0,        \* TSS.rsp0: the stack the CPU switches to from CPL 3
    freeStacks,  \* blocks the frame allocator holds
    boot,        \* where kernel_main is: see BootStage
    userStack,   \* the block user::init mapped as the service's own stack
    reachedCpl3, \* user.rs REACHED_CPL3
    halted       \* finish() was called: IF = 0 and hlt for ever

vars == <<sched, slots, program, home, cpu, xmm, rsp0, freeStacks, boot,
          userStack, reachedCpl3, halted>>

BOOT == 0

\* Stacks are numbered; 0 is Option::None and the address 0.
Stack == 1 .. NUM_STACKS
NoStack == 0
BootStack == NUM_STACKS + 1

\* A saved stack pointer is the program whose live IrqFrame it points at, Null
\* for 0, or Stale when the frame it points at has been popped since.
Null == NO_THREAD
Stale == NO_THREAD + 1
Wild == Stale

\* Contents of an FXSAVE area or of the XMM registers: a program's state, or
\* the zeroes of a slot that was never prepared.
Zeroed == NO_THREAD

Slot ==
    [rsp   : ThreadId \cup {Null, Stale},
     stack : Stack \cup {NoStack},
     top   : Stack \cup {NoStack},
     user  : BOOLEAN,
     fx    : ThreadId \cup {Zeroed}]

EmptySlot ==
    [rsp |-> Null, stack |-> NoStack, top |-> NoStack, user |-> FALSE, fx |-> Zeroed]

Program == {"none", "boot", "worker", "user", "idle"}

\* kernel_main between creations ("main"), inside thread::create after the
\* scheduler knows the thread ("registered"), after its stack is allocated
\* ("allocated"), or on its way to finish after a failed creation.
BootStage == {"main", "registered", "allocated", "failed"}

-----------------------------------------------------------------------------
(* The interrupt path *)

Reapable == ThreadsIn(sched, "Exited")

\* ... and release clears its slot and frees its stack.  fx stays as it is.
ReleasedSlots ==
    [t \in ThreadId |->
        IF t \in Reapable
        THEN [EmptySlot EXCEPT !.fx = slots[t].fx]
        ELSE slots[t]]

\* Mutated form: the stack is never given back.
LeakedStacks == {}

ReleasedStacks == {slots[t].stack : t \in Reapable} \ {NoStack}

\* Where the CPU pushes the frame of the interrupted program: from CPL 3 on
\* TSS.rsp0, otherwise on the stack it is running on.
FrameStack == IF program[cpu] = "user" THEN rsp0 ELSE home[cpu]

\* switch_to has three effects: the interrupted program is saved into from,
\* rsp0 follows a user thread, and the XMM state of the next thread is loaded.

\* Mutated form: the XMM state is not saved.
SavedNoFx(from) == [ReleasedSlots EXCEPT ![from].rsp = cpu]

Saved(from) == [ReleasedSlots EXCEPT ![from].rsp = cpu, ![from].fx = xmm]

\* Mutated form: TSS.rsp0 does not follow the thread.
Rsp0Unset(slot) == rsp0
Rsp0For(slot) == IF slot.user THEN slot.top ELSE rsp0

XmmFor(slot) == slot.fx

\* switch_to(from, to).  What irq_common does with the returned rsp decides who
\* continues.
SwitchContext(from, to) ==
    \E saved \in {Saved(from)} :
    LET next == saved[to].rsp
        \* Once a program continues, pointers to its frame dangle.
        Resumed(p) == [t \in ThreadId |->
                          IF saved[t].rsp = p THEN [saved[t] EXCEPT !.rsp = Stale]
                                              ELSE saved[t]]
    IN  /\ rsp0' = Rsp0For(saved[to])
        /\ xmm' = XmmFor(saved[to])
        /\ \/ /\ next = Null       \* irq_common takes 0 for "stay here"
              /\ cpu' = cpu
              /\ slots' = Resumed(cpu)
              /\ home' = home
           \/ /\ next = Stale
              /\ cpu' = Wild
              /\ slots' = saved
              /\ home' = home
           \/ /\ next \in ThreadId
              /\ cpu' = next
              /\ slots' = Resumed(next)
              /\ home' = [home EXCEPT ![cpu] = FrameStack]

\* irq_handler: reap first, then the branch of the vector, then the switch.
\* (\E x \in {e} names the value of e.)
Handle(Branch(_)) ==
    /\ ~ halted
    /\ cpu # Wild
    /\ freeStacks' = freeStacks \cup ReleasedStacks
    /\ \E reaped \in {ReapAll(sched)} : \E result \in {Branch(reaped)} :
          /\ sched' = result.sched
          /\ IF result.ret.tag = "Switch"
             THEN SwitchContext(result.ret.from, result.ret.to)
             ELSE /\ slots' = ReleasedSlots
                  /\ UNCHANGED <<cpu, xmm, rsp0, home>>
    /\ UNCHANGED <<program, boot, userStack, halted>>

\* Mutated form: the exiting thread stays on the CPU.
ExitInPlace(s) == Ok(SetState(s, s.current, "Exited"), Keep)

\* exit_thread: an error is reported and the caller kept.
ExitThread(s) ==
    LET r == ExitCurrent(s)
    IN  IF r.ret.tag = "Failed" THEN Ok(r.sched, Keep) ELSE r

Tick(s) == OnTick(s, PREEMPTION_ENABLED)

KeepCurrent(s) == Ok(s, Keep)

\* The steps of thread::create that the timer may interrupt with the new
\* thread already in the ready queue.
InCreate ==
    /\ cpu = BOOT
    /\ boot.stage \in {"registered", "allocated"}
    /\ boot.kind # "idle"

\* TIMER_VECTOR; the EOI that ends the branch lets the next tick through.
TimerInterrupt ==
    /\ InCreate => TICK_IN_CREATE
    /\ Handle(Tick)
    /\ UNCHANGED reachedCpl3

\* YIELD_VECTOR, raised by thread::yield_now.
Yield ==
    /\ cpu # Wild
    /\ program[cpu] = "worker"
    /\ Handle(YieldCurrent)
    /\ UNCHANGED reachedCpl3

\* EXIT_VECTOR, raised by thread::exit.
Exit ==
    /\ cpu # Wild
    /\ program[cpu] = "worker"
    /\ Handle(ExitThread)
    /\ UNCHANGED reachedCpl3

\* SYSCALL_VECTOR, raised by the service; on_syscall ends its thread.
Syscall ==
    /\ cpu # Wild
    /\ program[cpu] = "user"
    /\ Handle(ExitThread)
    /\ reachedCpl3' = TRUE

\* A spurious IRQ7, or a vector nobody expects: both only log, yet both pass
\* through reap_exited.
OtherInterrupt ==
    /\ Handle(KeepCurrent)
    /\ UNCHANGED reachedCpl3

-----------------------------------------------------------------------------
(* The boot context *)

BootRuns == cpu = BOOT /\ ~ halted

Created(kind, id) == [stage |-> "registered", kind |-> kind, id |-> id, stack |-> NoStack]
InMain == [stage |-> "main", kind |-> "none", id |-> NO_THREAD, stack |-> NoStack]
GivenUp == [InMain EXCEPT !.stage = "failed"]

\* The first critical section of thread::create, create_user and create_idle.
Register(kind, result) ==
    /\ sched' = result.sched
    /\ boot' = IF result.ret = NO_THREAD THEN GivenUp ELSE Created(kind, result.ret)
    /\ UNCHANGED <<slots, program, home, cpu, xmm, rsp0, reachedCpl3, halted>>

\* main.rs creates the idle thread before any other.
CreateIdle ==
    /\ BootRuns
    /\ boot = InMain
    /\ sched.idle = NO_THREAD
    /\ Register("idle", RegisterIdleAny(sched))
    /\ UNCHANGED <<freeStacks, userStack>>

\* The self-check creates its workers, several at a time.
CreateWorker ==
    /\ BootRuns
    /\ boot = InMain
    /\ sched.idle # NO_THREAD
    /\ userStack = NoStack
    /\ Register("worker", Create(sched))
    /\ UNCHANGED <<freeStacks, userStack>>

\* user::init allocates the service's own stack and calls create_user.  It runs once, after the self-check saw its workers gone.
InitUser ==
    /\ BootRuns
    /\ boot = InMain
    /\ sched.idle # NO_THREAD
    /\ Live(sched) = 2
    /\ userStack = NoStack
    /\ \/ \E stack \in freeStacks :
             /\ \A other \in freeStacks : stack <= other
             /\ userStack' = stack
             /\ freeStacks' = freeStacks \ {stack}
             /\ Register("user", Create(sched))
       \/ /\ freeStacks = {}
          /\ boot' = GivenUp
          /\ UNCHANGED <<sched, slots, program, home, cpu, xmm, rsp0, freeStacks,
                         userStack, reachedCpl3, halted>>

\* Mutated form: the block stays with the allocator.
AllocStackShared ==
    /\ BootRuns
    /\ boot.stage = "registered"
    /\ \E stack \in freeStacks :
          boot' = [boot EXCEPT !.stage = "allocated", !.stack = stack]
    /\ UNCHANGED <<sched, slots, program, home, cpu, xmm, rsp0, freeStacks, userStack,
                   reachedCpl3, halted>>

\* memory::alloc_frames(THREAD_STACK_PAGES): first fit, or nothing left.
AllocStack ==
    /\ BootRuns
    /\ boot.stage = "registered"
    /\ \/ \E stack \in freeStacks :
             /\ \A other \in freeStacks : stack <= other
             /\ freeStacks' = freeStacks \ {stack}
             /\ boot' = [boot EXCEPT !.stage = "allocated", !.stack = stack]
       \/ /\ freeStacks = {}
          /\ boot' = GivenUp
          /\ UNCHANGED freeStacks
    /\ UNCHANGED <<sched, slots, program, home, cpu, xmm, rsp0, userStack,
                   reachedCpl3, halted>>

\* prepare_stack and prepare_user_frame: the initial frame goes to the top of
\* the new stack, then the slot is filled in one critical section.
PrepareStack ==
    /\ BootRuns
    /\ boot.stage = "allocated"
    /\ slots' = [slots EXCEPT ![boot.id] =
                     [rsp |-> boot.id, stack |-> boot.stack, top |-> boot.stack,
                      user |-> boot.kind = "user", fx |-> boot.id]]
    /\ program' = [program EXCEPT ![boot.id] = boot.kind]
    /\ home' = [home EXCEPT ![boot.id] = boot.stack]
    /\ boot' = InMain
    /\ UNCHANGED <<sched, cpu, xmm, rsp0, freeStacks, userStack, reachedCpl3, halted>>

\* finish(): after a failed creation, after an exhausted waiting budget, or
\* with everything done.  Interrupts are off from here on.
Finish ==
    /\ BootRuns
    /\ boot.stage \in {"main", "failed"}
    /\ halted' = TRUE
    /\ UNCHANGED <<sched, slots, program, home, cpu, xmm, rsp0, freeStacks, boot,
                   userStack, reachedCpl3>>

\* halt_loop.
Halt == halted /\ UNCHANGED vars

\* The CPU popped a frame that no longer is one: nothing is known from here on.
RunWild == cpu = Wild /\ UNCHANGED vars

-----------------------------------------------------------------------------
(* The specification *)

\* kernel_main after init_boot and enable_interrupts.
Init ==
    /\ sched = RegisterBoot(New, BOOT)
    /\ slots = [t \in ThreadId |-> EmptySlot]
    /\ program = [t \in ThreadId |-> IF t = BOOT THEN "boot" ELSE "none"]
    /\ home = [t \in ThreadId |-> IF t = BOOT THEN BootStack ELSE NoStack]
    /\ cpu = BOOT
    /\ xmm = BOOT
    /\ rsp0 = NoStack
    /\ freeStacks = Stack
    /\ boot = InMain
    /\ userStack = NoStack
    /\ reachedCpl3 = FALSE
    /\ halted = FALSE

Next ==
    \/ TimerInterrupt
    \/ Yield
    \/ Exit
    \/ Syscall
    \/ OtherInterrupt
    \/ CreateIdle
    \/ CreateWorker
    \/ InitUser
    \/ AllocStack
    \/ PrepareStack
    \/ Finish
    \/ Halt
    \/ RunWild

Spec == Init /\ [][Next]_vars

\* The PIT fires periodically and every handler ends with the interrupt
\* flag restored, so ticks keep coming; and the boot context, whenever it has
\* the CPU for good, gets on with the creation it is in.
Fairness ==
    /\ WF_vars(TimerInterrupt)
    /\ WF_vars(AllocStack)
    /\ WF_vars(PrepareStack)

FairSpec == Spec /\ Fairness

-----------------------------------------------------------------------------
(* Properties *)

\* Threads that are in the table and whose creation is complete.
Complete == (ThreadId \ ThreadsIn(sched, "Unused")) \ {boot.id}

\* When the scheduler decides on a switch the machine really switches: the
\* program in the CPU is the thread the scheduler calls current, its own XMM
\* state came with it, and nobody else can get the stack it runs on: reap_exited
\* frees a stack only after its owner was switched away from.
CpuFollowsScheduler ==
    /\ cpu = sched.current
    /\ xmm = cpu
    /\ home[cpu] \notin freeStacks

\* Context.rsp of every thread that waits for the CPU points at a live
\* IrqFrame of that very thread, on that thread's own stack, so whichever
\* thread is picked next can be resumed.
ReadyThreadsAreResumable ==
    \A t \in ThreadsIn(sched, "Ready") \ {boot.id} :
        /\ slots[t].rsp = t
        /\ slots[t].fx = t
        /\ home[t] = IF t = BOOT THEN BootStack ELSE slots[t].stack

\* Every four-page block is in exactly one place: with the allocator, in one
\* thread's slot, in the creation under way, or mapped for the service.  So
\* reaping neither leaks nor frees twice, and no two threads share a stack.
StacksAreAccountedFor ==
    LET inSlots == [t \in {u \in ThreadId : slots[u].stack # NoStack} |-> slots[t].stack]
        inSlot(st) == {t \in DOMAIN inSlots : inSlots[t] = st}
        holders(st) == Cardinality(inSlot(st))
                     + (IF st \in freeStacks THEN 1 ELSE 0)
                     + (IF st = boot.stack THEN 1 ELSE 0)
                     + (IF st = userStack THEN 1 ELSE 0)
    IN  \A st \in Stack : holders(st) = 1

\* While CPL 3 code runs, TSS.rsp0 is the top of that thread's own kernel
\* stack, so its next interrupt does not land on a stale stack.
Rsp0BelongsToUser ==
    cpu # Wild /\ program[cpu] = "user" =>
        rsp0 = slots[cpu].stack /\ rsp0 # NoStack

\* A thread in the table is either complete, with a stack of its own, or the
\* one being created: a failed creation leaves nothing behind.
NoGhostThreads ==
    \A t \in Complete \ {BOOT} : slots[t].stack # NoStack


\* Whatever exits is reclaimed: the next interrupt, of whichever thread, frees
\* its slot.
ExitedThreadsAreReclaimed ==
    \A t \in ThreadId :
        sched.states[t] = "Exited" ~> (sched.states[t] = "Unused" \/ halted)

\* A created thread gets the CPU, workers and the service alike, unless the
\* kernel finishes first.
CreatedThreadsRun ==
    \A t \in ThreadId :
        (sched.states[t] = "Ready" /\ sched.kinds[t] = "Normal") ~> (cpu = t \/ halted)

=============================================================================
