----------------------------- MODULE KernelMain -----------------------------
(***************************************************************************)
(* kernel_main from its first line to the exit code, with the scheduling   *)
(* self-check it runs and the threads that self-check creates: main.rs,    *)
(* self_check.rs and user::init on top of the scheduler (SchedulerOps) and *)
(* of the locks and the interrupt flag (Locks).                            *)
(*                                                                         *)
(* What the boot context does in a fixed order is a table of instructions, *)
(* BootCode; one action per kind of instruction executes it.  A worker     *)
(* thread has a label.  Everything done with interrupts off in a           *)
(* critical() of its own is one step; a SpinLock is taken and given back   *)
(* in the steps of Locks.                                                  *)
(*                                                                         *)
(* A tick that switches away from a half-made thread is the race that      *)
(* Kernel studies (TICK_IN_CREATE); it is left out here.  The canaries are *)
(* taken to be intact.                                                     *)
(***************************************************************************)
EXTENDS SchedulerOps, Locks, Sequences

CONSTANTS
    COUNTER, ROUND_ROBIN_LOCK,  \* the two SpinLocks of self_check.rs
    LOCK_WORKERS, LOCK_INCREMENTS,
    ROUND_ROBIN_WORKERS, ROUND_ROBIN_ROUNDS,
    PREEMPTION_TICK_BUDGET,
    WANTED_TICKS,               \* the argument of wait_for_ticks: 3
    FREE_FRAMES,                \* pages free after init_allocators
    IST_PAGES, THREAD_STACK_PAGES, USER_STACK_PAGES

ASSUME KernelMainAssumption ==
    /\ Thread = ThreadId
    /\ {COUNTER, ROUND_ROBIN_LOCK, FrameLock} = Lock
    /\ {LOCK_WORKERS, LOCK_INCREMENTS, ROUND_ROBIN_WORKERS, ROUND_ROBIN_ROUNDS,
        PREEMPTION_TICK_BUDGET, WANTED_TICKS} \subseteq Nat \ {0}

VARIABLES
    preemption,  \* PREEMPTION_ENABLED: FALSE with the inject-no-preempt feature
    sched,       \* the scheduler's struct
    frames,      \* pages the frame allocator holds
    thread,      \* label and locals of every thread but boot
    boot,        \* the next instruction and the locals of kernel_main
    statics,     \* the statics of self_check.rs
    age,         \* ticks since the clock was last read for later comparison
    inService,   \* IRQ0 in the in-service register of the PIC
    rsp0,        \* has TSS.rsp0 been set?
    switched,    \* stats().switches # 0
    reachedCpl3, \* user.rs REACHED_CPL3
    failure,     \* the step that failed and why
    disturbed    \* history: a tick struck where steps 2 and 4 are sensitive

vars == <<lockVars, preemption, sched, frames, thread, boot, statics, age,
          inService, rsp0, switched, reachedCpl3, failure, disturbed>>

\* What only interrupts and the boot context change.
machine == <<preemption, sched, frames, inService, rsp0, switched, reachedCpl3, disturbed>>

AGE_CAP == IF WANTED_TICKS > PREEMPTION_TICK_BUDGET THEN WANTED_TICKS
                                                    ELSE PREEMPTION_TICK_BUDGET

-----------------------------------------------------------------------------
(* What kernel_main executes *)

\* step: the stage or self-check step that reports a failure.
Do(op, arg, step) == [op |-> op, arg |-> arg, step |-> step]

Times(n, code) == [i \in 1 .. (n * Len(code)) |-> code[((i - 1) % Len(code)) + 1]]

\* thread::create, create_idle and create_user.
Creation(entry, step) ==
    <<Do("register", entry, step),
      Do("alloc", THREAD_STACK_PAGES, step),
      Do("prepare", entry, step)>>

\* Everything up to the sti.
SetupCode ==
    <<Do("try", "validate", "handoff"),
      Do("try", "has_memory_map", "handoff"),
      Do("try", "rsdp", "handoff"),
      Do("try", "install", "memory"),
      Do("try", "init_allocators", "memory"),
      Do("try", "self_check", "memory"),
      Do("alloc", IST_PAGES, "sched"),
      Do("try", "gdt_install", "sched"),
      Do("try", "cr4_osfxsr", "sched"),
      Do("init_boot", 0, "sched"),
      Do("sti", 0, "sched")>>

\* The clock, the round trip of a page, and the idle thread.
ClockCode ==
    <<Do("wait", "ticks", "sched"),
      Do("note", 0, "sched"),
      Do("alloc", 1, "sched"),
      Do("free", 1, "sched"),
      Do("compare", 0, "sched"),
      Do("held", 0, "sched")>>
    \o Creation("idle", "sched")

\* step3_and_4_preemption.
PreemptCode ==
    <<Do("reset", "preempt", "step3")>>
    \o Creation("start", "step3")
    \o Creation("set", "step3")
    \o <<Do("wait", "result", "step3"),
         Do("verify", "preempted", "step3"),
         Do("verify", "ticked", "step4"),
         Do("verify", "switched", "step4")>>

\* step1_mutual_exclusion.
MutexCode ==
    <<Do("zero", 0, "step1"),
      Do("reset", "mutex", "step1")>>
    \o Times(LOCK_WORKERS, Creation("lock", "step1"))
    \o <<Do("wait", "lockers", "step1"),
         Do("tally", 0, "step1")>>

\* step2_round_robin.
OrderCode ==
    <<Do("reset", "order", "step2")>>
    \o Times(ROUND_ROBIN_WORKERS, Creation("turn", "step2"))
    \o <<Do("wait", "appenders", "step2"),
         Do("verify", "in_turn", "step2")>>

\* Mutated form: the steps run in the order of their numbers.
SelfCheckByNumber ==
    <<Do("note", 0, "step5")>> \o MutexCode \o OrderCode \o PreemptCode

\* self_check::run, the steps in the order it calls them ...
SelfCheckCode ==
    <<Do("note", 0, "step5")>> \o PreemptCode \o MutexCode \o OrderCode

\* ... and its own checks 5 and 6.
SettleCode ==
    <<Do("wait", "settled", "step5"),
      Do("verify", "queue_empty", "step5"),
      Do("verify", "boot_runs", "step5"),
      Do("verify", "idle_ready", "step5"),
      Do("compare", 0, "step5"),
      Do("held", 0, "step6"),
      Do("probe", 0, "step6"),
      Do("held", 0, "step6")>>

\* user::init, and what main checks of the service.
UserCode ==
    <<Do("try", "has_user_image", "user"),
      Do("alloc", USER_STACK_PAGES, "user"),
      Do("try", "map_user_region", "user"),
      Do("clock", 0, "user")>>
    \o Creation("user", "user")
    \o <<Do("wait", "served", "user"),
         Do("verify", "elapsed", "user"),
         Do("verify", "rsp0", "user")>>

\* The exit protocol: main's _quiet, then finish with a guard of its own.
FinishCode ==
    <<Do("critical", 0, "exit"),
      Do("critical", 0, "exit"),
      Do("report", 0, "exit")>>

BootCode == SetupCode \o ClockCode \o SelfCheckCode \o SettleCode \o UserCode \o FinishCode

\* finish(value): the instruction a failure jumps to.
Finish == Len(BootCode) - 1

halted == boot.at > Len(BootCode)

Instruction == BootCode[boot.at]

NoFailure == [step |-> "none", what |-> "none"]

\* The value finish writes to isa-debug-exit: EXIT_VALUE_KERNEL_OK is "ok".
ExitValue ==
    CASE failure = NoFailure -> "ok"
      [] failure.step = "handoff" -> "kernel_failure"
      [] failure.step = "memory" -> "memory_failure"
      [] failure.step = "user" -> "user_failure"
      [] OTHER -> "sched_failure"

-----------------------------------------------------------------------------
(* Boot: the instructions *)

\* boot has the CPU, is in no lock operation, and is about to do op.
At(op) ==
    /\ running = Boot /\ phase[Boot] = "none" /\ ~ stuck
    /\ ~ halted
    /\ Instruction.op = op
    /\ ~ HasLock(Boot)

Advance == boot' = [boot EXCEPT !.at = @ + 1] /\ UNCHANGED failure

Fail(what) ==
    /\ boot' = [boot EXCEPT !.at = Finish]
    /\ failure' = [step |-> Instruction.step, what |-> what]

\* An early return unless cond.
AdvanceIf(cond, what) ==
    /\ boot' = [boot EXCEPT !.at = IF cond THEN @ + 1 ELSE Finish]
    /\ failure' = IF cond THEN failure ELSE [step |-> Instruction.step, what |-> what]

Try ==
    /\ At("try")
    /\ Advance
    /\ UNCHANGED <<lockVars, machine, thread, statics, age>>

TryFails ==
    /\ At("try")
    /\ Fail("refused")
    /\ UNCHANGED <<lockVars, machine, thread, statics, age>>

\* sched::init_boot.
InitBoot ==
    /\ At("init_boot")
    /\ sched' = RegisterBoot(sched, Boot)
    /\ Advance
    /\ UNCHANGED <<lockVars, preemption, frames, thread, statics, age, inService,
                   rsp0, switched, reachedCpl3, disturbed>>

Sti ==
    /\ At("sti")
    /\ EnableInterrupts
    /\ Advance
    /\ UNCHANGED <<machine, thread, statics, age>>

\* The functions that work under a lock, and which one.
LockOf ==
    [op \in {"alloc", "free", "note", "compare", "zero", "tally", "probe"} |->
        CASE op \in {"zero", "tally"} -> COUNTER
          [] op = "probe" -> ROUND_ROBIN_LOCK
          [] OTHER -> FrameLock]


\* SpinLock::lock starts; LockStep takes it from there.
Acquire(l) == Enter(l)

BootLock ==
    /\ \E op \in DOMAIN LockOf : At(op) /\ Acquire(LockOf[op])
    /\ UNCHANGED <<machine, thread, boot, statics, age, failure>>

\* What is done under the lock, up to the first step of the guard's drop.
Under(op) ==
    /\ running = Boot /\ phase[Boot] = "none" /\ HasLock(Boot)
    /\ Instruction.op = op
    /\ Discount
    /\ UNCHANGED <<preemption, sched, thread, age, inService, rsp0, switched, reachedCpl3, disturbed>>

AllocFrames ==
    /\ Under("alloc")
    /\ frames' = IF Instruction.arg <= frames THEN frames - Instruction.arg ELSE frames
    /\ AdvanceIf(Instruction.arg <= frames, "no_frames")
    /\ UNCHANGED statics

FreeFrames ==
    /\ Under("free")
    /\ frames' = frames + Instruction.arg
    /\ Advance
    /\ UNCHANGED statics

\* frames_before and free_before.
NoteFrames ==
    /\ Under("note")
    /\ boot' = [boot EXCEPT !.at = @ + 1, !.before = frames]
    /\ UNCHANGED <<frames, statics, failure>>

CompareFrames ==
    /\ Under("compare")
    /\ AdvanceIf(frames = boot.before, "frames")
    /\ UNCHANGED <<frames, statics>>

ZeroCounter ==
    /\ Under("zero")
    /\ statics' = [statics EXCEPT !.COUNTER = 0]
    /\ Advance
    /\ UNCHANGED frames

TallyCounter ==
    /\ Under("tally")
    /\ AdvanceIf(statics.COUNTER = LOCK_WORKERS * LOCK_INCREMENTS, "lost_update")
    /\ UNCHANGED <<frames, statics>>

\* Step 6 looks at held_count while it has the lock.
ProbeLock ==
    /\ Under("probe")
    /\ AdvanceIf(HELD = 1, "held")
    /\ UNCHANGED <<frames, statics>>

CheckHeld ==
    /\ At("held")
    /\ AdvanceIf(HELD = 0, "held")
    /\ UNCHANGED <<lockVars, machine, thread, statics, age>>

\* ROUND_ROBIN with nothing written: 0xFF everywhere.
Blank == [i \in 1 .. ROUND_ROBIN_ROUNDS * ROUND_ROBIN_WORKERS |-> NO_THREAD]

\* Mutated form: FINISHED keeps the count of the step before.
ResetKeepsFinished(step) ==
    CASE step = "preempt" ->
            [statics EXCEPT !.PREEMPTED = FALSE, !.PREEMPT_RESULT = 0]
      [] step = "mutex" -> statics
      [] step = "order" ->
            [statics EXCEPT !.ROUND_ROBIN = Blank, !.ROUND_ROBIN_INDEX = 0]

\* The stores a step begins with.
Reset(step) ==
    CASE step = "preempt" ->
            [statics EXCEPT !.PREEMPTED = FALSE, !.PREEMPT_RESULT = 0, !.FINISHED = 0]
      [] step = "mutex" -> [statics EXCEPT !.FINISHED = 0]
      [] step = "order" ->
            [statics EXCEPT !.ROUND_ROBIN = Blank, !.ROUND_ROBIN_INDEX = 0, !.FINISHED = 0]

ResetStatics ==
    /\ At("reset")
    /\ statics' = Reset(Instruction.arg)
    /\ Advance
    /\ UNCHANGED <<lockVars, machine, thread, age>>

\* user::init stores TICKS_BEFORE.
ReadClock ==
    /\ At("clock")
    /\ age' = 0
    /\ Advance
    /\ UNCHANGED <<lockVars, machine, thread, statics>>

\* The ring buffer's position is not observable: turn it so that the head is
\* slot 0.
Turned(s) ==
    [s EXCEPT !.head = 0,
              !.queue = [i \in ThreadId |->
                            IF i < s.len THEN s.queue[RingSlot(s, i)] ELSE NO_THREAD]]

\* The scheduler's part of a creation.
Register ==
    /\ At("register")
    /\ \E r \in {IF Instruction.arg = "idle" THEN RegisterIdleAny(sched) ELSE Create(sched)} :
          /\ sched' = Turned(r.sched)
          /\ IF r.ret = NO_THREAD
             THEN Fail("no_slot")
             ELSE /\ boot' = [boot EXCEPT !.at = @ + 1, !.id = r.ret]
                  /\ UNCHANGED failure
    /\ UNCHANGED <<lockVars, preemption, frames, thread, statics, age, inService,
                   rsp0, switched, reachedCpl3, disturbed>>

\* Rounds a thread has ahead of it when it starts.
Rounds(entry) ==
    CASE entry = "lock" -> LOCK_INCREMENTS
      [] entry = "turn" -> ROUND_ROBIN_ROUNDS
      [] OTHER -> 0

\* prepare_stack and prepare_user_frame; step 2 keeps the ids of its workers.
Prepare ==
    /\ At("prepare")
    /\ Spawn(boot.id)
    /\ thread' = [thread EXCEPT ![boot.id] =
                      [pc |-> Instruction.arg, left |-> Rounds(Instruction.arg), reg |-> 0]]
    /\ boot' = [boot EXCEPT
                    !.at = @ + 1,
                    !.id = NO_THREAD,
                    !.workers = CASE Instruction.arg = "turn" -> Append(@, boot.id)
                                  [] OTHER -> @]
    /\ UNCHANGED <<machine, statics, age, failure>>

\* Mutated form: main does not wait until the service is reaped.
AwaitedUnreaped(what) ==
    CASE what = "ticks" -> age >= WANTED_TICKS
      [] what = "result" -> statics.PREEMPT_RESULT # 0
      [] what = "lockers" -> statics.FINISHED >= LOCK_WORKERS
      [] what = "appenders" -> statics.FINISHED >= ROUND_ROBIN_WORKERS
      [] what = "settled" -> Live(sched) = 2
      [] what = "served" -> reachedCpl3

\* The conditions of wait_for_ticks and wait_until.
Awaited(what) ==
    CASE what = "ticks" -> age >= WANTED_TICKS
      [] what = "result" -> statics.PREEMPT_RESULT # 0
      [] what = "lockers" -> statics.FINISHED >= LOCK_WORKERS
      [] what = "appenders" -> statics.FINISHED >= ROUND_ROBIN_WORKERS
      [] what = "settled" -> Live(sched) = 2
      [] what = "served" -> reachedCpl3 /\ Live(sched) = 2

WaitEnds ==
    /\ At("wait")
    /\ Awaited(Instruction.arg)
    /\ Advance
    /\ UNCHANGED <<lockVars, machine, thread, statics, age>>

\* The budget, counted in spins, runs out.
WaitTimesOut ==
    /\ At("wait")
    /\ ~ Awaited(Instruction.arg)
    /\ Fail("late")
    /\ UNCHANGED <<lockVars, machine, thread, statics, age>>

InTurn ==
    statics.ROUND_ROBIN =
        [i \in DOMAIN Blank |-> boot.workers[((i - 1) % ROUND_ROBIN_WORKERS) + 1]]

\* What a step checks once its wait has ended.
Verified(what) ==
    CASE what = "preempted" -> statics.PREEMPT_RESULT = 1
      [] what = "ticked" -> statics.TICKED
      [] what = "switched" -> switched
      [] what = "in_turn" -> InTurn
      [] what = "queue_empty" -> sched.len = 0
      [] what = "boot_runs" -> sched.states[Boot] = "Running"
      [] what = "idle_ready" -> sched.states[sched.idle] = "Ready"
      [] what = "elapsed" -> age # 0
      [] what = "rsp0" -> rsp0

Verify ==
    /\ At("verify")
    /\ AdvanceIf(Verified(Instruction.arg), Instruction.arg)
    /\ disturbed' = (disturbed /\ ~ (/\ Instruction.arg \in {"ticked", "in_turn"}
                                      /\ Verified(Instruction.arg)))
    /\ UNCHANGED <<lockVars, preemption, sched, frames, thread, statics, age, inService,
                   rsp0, switched, reachedCpl3>>

\* Mutated form: finish reports with interrupts on.
CriticalSkipped ==
    /\ At("critical")
    /\ Advance
    /\ UNCHANGED <<lockVars, machine, thread, statics, age>>

\* let _quiet = lock::critical().  Nobody drops the two guards.
Critical ==
    /\ At("critical")
    /\ Enter(NoLock)
    /\ Advance
    /\ UNCHANGED <<machine, thread, statics, age>>

\* The write to isa-debug-exit, then halt_loop.
Report ==
    /\ At("report")
    /\ Advance
    /\ UNCHANGED <<lockVars, machine, thread, statics, age>>

BootStep ==
    \/ Try \/ InitBoot \/ Sti \/ BootLock
    \/ AllocFrames \/ FreeFrames \/ NoteFrames \/ CompareFrames
    \/ ZeroCounter \/ TallyCounter \/ ProbeLock \/ CheckHeld
    \/ ResetStatics \/ ReadClock \/ Register \/ Prepare
    \/ WaitEnds \/ Verify \/ Critical \/ Report

-----------------------------------------------------------------------------
(* The threads of the self-check, and the service *)

AtLabel(label) ==
    /\ running # Boot /\ phase[running] = "none" /\ ~ stuck
    /\ thread[running].pc = label

Go(label) == thread' = [thread EXCEPT ![running].pc = label]

Work(label) ==
    /\ AtLabel(label)
    /\ UNCHANGED <<machine, boot, failure>>

\* lock_worker: COUNTER.lock() ...
LockerLocks ==
    /\ Work("lock")
    /\ Acquire(COUNTER)
    /\ Go("load")
    /\ UNCHANGED <<statics, age>>

\* ... *counter += 1 reads ...
LockerLoads ==
    /\ Work("load")
    /\ thread' = [thread EXCEPT ![running].pc = "store", ![running].reg = statics.COUNTER]
    /\ UNCHANGED <<lockVars, statics, age>>

\* ... and writes, and the guard is dropped.
LockerStores ==
    /\ Work("store")
    /\ statics' = [statics EXCEPT !.COUNTER = thread[running].reg + 1]
    /\ thread' = [thread EXCEPT ![running] =
                      [pc |-> IF @.left = 1 THEN "finish" ELSE "lock", left |-> @.left - 1, reg |-> 0]]
    /\ Discount
    /\ UNCHANGED age

\* round_robin_worker.
AppenderLocks ==
    /\ Work("turn")
    /\ Acquire(ROUND_ROBIN_LOCK)
    /\ Go("index")
    /\ UNCHANGED <<statics, age>>

AppenderCounts ==
    /\ Work("index")
    /\ statics' = [statics EXCEPT !.ROUND_ROBIN_INDEX = @ + 1]
    /\ thread' = [thread EXCEPT ![running].pc = "write",
                                ![running].reg = statics.ROUND_ROBIN_INDEX]
    /\ UNCHANGED <<lockVars, age>>

AppenderWrites ==
    /\ Work("write")
    /\ statics' = [statics EXCEPT !.ROUND_ROBIN[thread[running].reg + 1] = running]
    /\ thread' = [thread EXCEPT ![running] = [pc |-> "yield", left |-> @.left - 1, reg |-> 0]]
    /\ Discount
    /\ UNCHANGED age

\* FINISHED.fetch_add, of both.
WorkerFinishes ==
    /\ Work("finish")
    /\ statics' = [statics EXCEPT !.FINISHED = @ + 1]
    /\ Go("exit")
    /\ UNCHANGED <<lockVars, age>>

\* preempt_waiter: reads the clock ...
WaiterStarts ==
    /\ Work("start")
    /\ age' = 0
    /\ Go("flag")
    /\ UNCHANGED <<lockVars, statics>>

\* ... polls the flag; reg is its result ...
WaiterPolls ==
    /\ Work("flag")
    /\ thread' = [thread EXCEPT ![running] =
                      IF statics.PREEMPTED
                      THEN [pc |-> "end", left |-> 0, reg |-> 1]
                      ELSE [pc |-> "budget", left |-> 0, reg |-> 2]]
    /\ UNCHANGED <<lockVars, statics, age>>

\* ... and the clock ...
WaiterCounts ==
    /\ Work("budget")
    /\ Go(IF age >= PREEMPTION_TICK_BUDGET THEN "end" ELSE "flag")
    /\ UNCHANGED <<lockVars, statics, age>>

\* ... notes how long it took, and publishes the result.
WaiterEnds ==
    /\ Work("end")
    /\ statics' = [statics EXCEPT !.TICKED = age # 0]
    /\ age' = AGE_CAP
    /\ Go("publish")
    /\ UNCHANGED lockVars

WaiterPublishes ==
    /\ Work("publish")
    /\ statics' = [statics EXCEPT !.PREEMPT_RESULT = thread[running].reg]
    /\ thread' = [thread EXCEPT ![running].pc = "exit", ![running].reg = 0]
    /\ UNCHANGED <<lockVars, age>>

\* preempt_setter.
SetterSets ==
    /\ Work("set")
    /\ statics' = [statics EXCEPT !.PREEMPTED = TRUE]
    /\ Go("exit")
    /\ UNCHANGED <<lockVars, age>>

\* The steps inside lock() and a guard's drop.
LockStep ==
    /\ Cli \/ Swap \/ Count \/ Unlock \/ (phase[running] = "sti" /\ Leave)
    /\ ~ stuck
    /\ UNCHANGED <<machine, thread, boot, statics, age, failure>>

-----------------------------------------------------------------------------
(* Interrupts *)

Reaps == ThreadsIn(sched, "Exited") # {}

NextThread(decision) ==
    IF decision.tag = "Switch" THEN decision.to ELSE running

\* irq_handler around the branch of the vector: the stacks of reaped threads
\* are freed first, the decision r.ret is carried out last.  A handler that
\* spins in free_frames gets no further.
Serve(r) ==
    /\ sched' = IF stuck' THEN sched ELSE Turned(r.sched)
    /\ frames' = IF stuck' THEN frames
                 ELSE frames + THREAD_STACK_PAGES * Cardinality(ThreadsIn(sched, "Exited"))
    /\ switched' = (switched \/ r.ret.tag = "Switch")
    /\ rsp0' = (rsp0 \/ (r.ret.tag = "Switch" /\ thread[r.ret.to].pc = "user"))
    /\ UNCHANGED <<preemption, boot, statics, failure>>

\* Places where losing the CPU shows: an appender that has entries to write
\* loses its turn, the first appenders get ahead of those still to be created,
\* and the waiter starts its clock late.
Sensitive ==
    IF running = Boot
    THEN Len(boot.workers) \in 1 .. (ROUND_ROBIN_WORKERS - 1)
    ELSE \/ thread[running].pc \in {"turn", "index", "write", "start"}
         \/ thread[running].pc = "yield" /\ thread[running].left > 0

\* Mutated form: the PIC is never told.
EoiForgotten == TRUE

\* pic::eoi clears the in-service bit that delivery has set.
Eoi == FALSE

\* finish has its guard.
Reporting == boot.at > Finish /\ phase[Boot] = "none"

\* TIMER_VECTOR.  Between a failed check and the guard of finish the boot
\* context looks at nothing any more: ticks there are left out.
Tick ==
    /\ IFlag /\ ~ inService
    /\ failure = NoFailure \/ Reporting
    /\ UNCHANGED <<thread, phase, reachedCpl3>>
    /\ \E r \in {OnTick(ReapAll(sched), preemption)} :
          /\ boot.id # NO_THREAD => r.ret = Keep
          /\ Timer(NextThread(r.ret), Reaps)
          /\ Serve(r)
    /\ inService' = Eoi
    /\ age' = IF age < AGE_CAP THEN age + 1 ELSE age
    /\ disturbed' = (disturbed \/ Sensitive)

\* YIELD_VECTOR, from round_robin_worker.
YieldNow ==
    /\ AtLabel("yield")
    /\ \E r \in {YieldCurrent(ReapAll(sched))} :
          /\ Yield(NextThread(r.ret), Reaps)
          /\ Serve(r)
    /\ Go(IF thread[running].left = 0 THEN "finish" ELSE "turn")
    /\ UNCHANGED <<age, inService, reachedCpl3, disturbed>>

\* EXIT_VECTOR.
Exit ==
    /\ AtLabel("exit")
    /\ \E r \in {ExitCurrent(ReapAll(sched))} :
          /\ Yield(NextThread(r.ret), Reaps)
          /\ Serve(r)
    /\ Go("none")
    /\ UNCHANGED <<age, inService, reachedCpl3, disturbed>>

\* SYSCALL_VECTOR: on_syscall notes CPL 3 and ends the thread.
Syscall ==
    /\ AtLabel("user")
    /\ \E r \in {ExitCurrent(ReapAll(sched))} :
          /\ Handler(NextThread(r.ret), Reaps)
          /\ Serve(r)
    /\ reachedCpl3' = TRUE
    /\ Go("none")
    /\ UNCHANGED <<age, inService, disturbed>>

WorkerStep ==
    \/ LockerLocks \/ LockerLoads \/ LockerStores
    \/ AppenderLocks \/ AppenderCounts \/ AppenderWrites \/ YieldNow
    \/ WaiterStarts \/ WaiterPolls \/ WaiterCounts \/ WaiterEnds \/ WaiterPublishes
    \/ SetterSets \/ WorkerFinishes \/ Exit \/ Syscall

\* halt_loop.
Halt == halted /\ UNCHANGED vars

-----------------------------------------------------------------------------
(* The specification *)

Init ==
    /\ LockInit
    /\ preemption \in BOOLEAN
    /\ sched = New
    /\ frames = FREE_FRAMES
    /\ thread = [t \in ThreadId |-> [pc |-> "none", left |-> 0, reg |-> 0]]
    /\ boot = [at |-> 1, id |-> NO_THREAD, workers |-> <<>>, before |-> 0]
    /\ statics = [COUNTER |-> 0, FINISHED |-> 0, ROUND_ROBIN |-> Blank,
                  ROUND_ROBIN_INDEX |-> 0, PREEMPTED |-> FALSE, PREEMPT_RESULT |-> 0,
                  TICKED |-> FALSE]
    /\ age = 0
    /\ inService = FALSE
    /\ rsp0 = FALSE
    /\ switched = FALSE
    /\ reachedCpl3 = FALSE
    /\ failure = NoFailure
    /\ disturbed = FALSE

Next ==
    \/ BootStep
    \/ WorkerStep
    \/ LockStep
    \/ Tick
    \/ TryFails
    \/ WaitTimesOut
    \/ Halt

Step == BootStep \/ WorkerStep \/ LockStep

\* The PIT keeps firing, and a slice of ten milliseconds is long enough for a
\* step: not every thread is struck for ever before it has done one.  Nothing
\* makes a waiting budget run out: the verdict has to come from the threads.
Fairness == WF_vars(Tick) /\ SF_vars(Step)

Spec == Init /\ [][Next]_vars /\ Fairness

-----------------------------------------------------------------------------
(* Properties *)

\* The self-check accuses nobody wrongly.  Whatever the interleaving, it fails
\* only because something was too late, or because a tick struck where step 2
\* or step 4 cannot tell it from a fault; a lost update, a missing slot, a
\* leaked page, a lock still held or an idle clock is never reported, and
\* what one step leaves behind (threads that counted themselves in FINISHED
\* but have not exited yet) never spoils the next.
NoFalseAlarm ==
    \/ failure = NoFailure
    \/ failure.what \in {"refused", "late", "preempted"}
    \/ failure.what \in {"in_turn", "ticked"} /\ disturbed

\* EXIT_VALUE_KERNEL_OK means what the exit protocol (main.rs:355-398) promises:
\* only the boot context and the idle thread are left, the stack of every thread
\* of the self-check and of the service is back (the pages of the service's own
\* stack are FramesReturn's subject), no lock is held, and preemption really
\* works.
OkMeansDone ==
    halted /\ ExitValue = "ok" =>
        /\ preemption /\ switched /\ reachedCpl3
        /\ ThreadsIn(sched, "Running") = {Boot}
        /\ ThreadsIn(sched, "Ready") = {sched.idle}
        /\ Live(sched) = 2 /\ sched.len = 0
        /\ boot.before - frames \in 0 .. USER_STACK_PAGES
        /\ HELD = 0 /\ \A l \in Lock : ~ locked[l]

\* When all went well the service has given back what it took: the frame count
\* is what it was before the service (docs/architecture/user_mode.md:227), which
\* is what it was before the self-check.  user.rs:64 allocates the user stack
\* and nothing frees it.
FramesReturn == halted /\ ExitValue = "ok" => frames = boot.before

\* A kernel that never switches (inject-no-preempt) is told so by the step that
\* is about preemption and by no other: self_check.rs:78-80 runs it first for
\* that reason.
NoPreemptionIsNoticed ==
    ~ preemption /\ failure # NoFailure =>
        failure.step \in {"handoff", "memory", "sched", "step3"}

\* From the moment finish has its guard, nothing comes between the report and
\* the halt: the boot context keeps the CPU and the scheduler stands still.
ReportIsUndisturbed ==
    [][Reporting =>
           UNCHANGED <<running, sched, statics, frames>>]_vars

\* With preemption the kernel reaches a verdict although no waiting budget has
\* to run out: no thread of the self-check is starved, none waits for a lock
\* for ever, every one is reaped and the clock never stops.
VerdictIsReached == preemption ~> halted

=============================================================================
