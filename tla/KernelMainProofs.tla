-------------------------- MODULE KernelMainProofs --------------------------
(***************************************************************************)
(* kernel_main, its self-check and the threads use the locks as Locks says *)
(* programs do: every step is a step of LockSpec.  What KernelStepsProofs  *)
(* proves of all such programs is therefore true of this one, for every    *)
(* number of workers, of rounds and of thread slots.                       *)
(*                                                                         *)
(* That the handlers switch to threads that exist, and that none is ended  *)
(* inside a critical section, is not a matter of the locks: the invariant  *)
(* says where in BootCode the boot context is, what the scheduler holds    *)
(* there, and that user code runs outside every section.                   *)
(*                                                                         *)
(* From the same invariant: the report is printed with nobody left who     *)
(* could disturb it, and a kernel that never preempts is told so.          *)
(***************************************************************************)
EXTENDS KernelStepsProofs, SchedulerOpsProofs

\* A leaf that names no prover goes to the SMT solver, with time to spare.
USE SMTT(60)

-----------------------------------------------------------------------------
(* The scheduler *)

\* Turning the ring changes nothing that is said about the scheduler.
LEMMA TurnedPart ==
    ASSUME NEW s, SchedPart(s, Boot)
    PROVE  SchedPart(Turned(s), Boot) /\ Turned(s).current = s.current
<1>1. /\ s \in SchedulerStruct /\ SchedInv(s) /\ QueueHolds(s, ReadySet(s))
      /\ s.len \in 0 .. MAX_THREADS
      /\ s.queue \in [ThreadId -> ThreadId \cup {NO_THREAD}]
  BY ZenonT(60), InvFacts, StructFields DEF SchedPart
<1>2. PICK q : q = [i \in ThreadId |-> IF i < s.len THEN s.queue[RingSlot(s, i)] ELSE NO_THREAD]
  BY ZenonT(60)
<1>3. q \in [ThreadId -> ThreadId \cup {NO_THREAD}]
  <2>1. ASSUME NEW i \in ThreadId
        PROVE  s.queue[RingSlot(s, i)] \in ThreadId \cup {NO_THREAD}
    <3>1. i \in 0 .. MAX_THREADS
      BY MaxThreadsAssumption DEF ThreadId
    <3> QED
      BY ZenonT(60), <1>1, <3>1, RingSlots
  <2> QED
    BY <1>2, <2>1
<1>4. PICK r : r = Turned(s)
  OBVIOUS
<1>5. r = [s EXCEPT !.head = 0, !.queue = q]
  BY ZenonT(60), <1>2, <1>4 DEF Turned
<1>6. /\ r.states = s.states /\ r.kinds = s.kinds /\ r.current = s.current
      /\ r.idle = s.idle /\ r.len = s.len /\ r.head = 0 /\ r.queue = q
  BY <1>1, <1>5 DEF SchedulerStruct
<1>7. 0 \in ThreadId
  BY MaxThreadsAssumption DEF ThreadId
<1>8. r \in SchedulerStruct
  BY ZenonT(60), <1>1, <1>3, <1>5, <1>7 DEF SchedulerStruct
<1>9. ASSUME NEW i \in 1 .. s.len
      PROVE  ReadyQueue(r)[i] = ReadyQueue(s)[i]
  <2>1. i - 1 \in ThreadId /\ i - 1 < s.len /\ (0 + (i - 1)) % MAX_THREADS = i - 1
    <3>1. PICK k : k = i - 1
      BY ZenonT(60)
    <3>2. k \in 0 .. MAX_THREADS /\ k \in ThreadId /\ k < s.len /\ k < MAX_THREADS
      BY <1>1, <3>1, MaxThreadsAssumption DEF ThreadId
    <3>3. (0 + k) % MAX_THREADS = k
      BY <1>7, <3>2, RingIndex
    <3> QED
      BY ZenonT(60), <3>1, <3>2, <3>3
  <2>2. RingSlot(r, i - 1) = i - 1
    BY ZenonT(60), <1>6, <2>1 DEF RingSlot
  <2>3. ReadyQueue(r)[i] = q[i - 1]
    BY <1>6, <1>8, <2>2, QueueEntries
  <2> QED
    BY <1>1, <1>2, <2>1, <2>3, QueueEntries
<1>10. ReadySet(r) = ReadySet(s) /\ \A state : ThreadsIn(r, state) = ThreadsIn(s, state)
  BY ZenonT(60), <1>6 DEF ReadySet, ThreadsIn
<1>11. QueueHolds(r, ReadySet(r))
  BY <1>1, <1>6, <1>9, <1>10 DEF QueueHolds
<1>12. RunsOnlyCurrent(r) /\ IdleAvailable(r) /\ EmptyBeforeBoot(r)
  BY <1>1, <1>6, <1>10 DEF SchedInv, RunsOnlyCurrent, IdleAvailable, EmptyBeforeBoot
<1>13. SchedInv(r)
  BY ZenonT(60), <1>8, <1>11, <1>12 DEF SchedInv
<1> QED
  BY ZenonT(60), <1>4, <1>6, <1>13 DEF SchedPart

\* init_boot, on the scheduler that Scheduler::new has made.
LEMMA BootPart ==
    /\ SchedPart(RegisterBoot(New, Boot), Boot)
    /\ RegisterBoot(New, Boot).current = Boot
<1>1. PICK s : s = New
  OBVIOUS
<1>2. /\ SchedInv(s) /\ s.current = NO_THREAD /\ s.idle = NO_THREAD
      /\ s.states \in [ThreadId -> ThreadState] /\ s.kinds \in [ThreadId -> ThreadKind]
  <2>1. SchedInv(s)
    BY ZenonT(60), <1>1, NewInv
  <2>2. s.current = NO_THREAD /\ s.idle = NO_THREAD
    BY <1>1 DEF New
  <2> QED
    BY <2>1, <2>2, InvFacts
<1>3. PICK r : r = RegisterBoot(s, Boot)
  OBVIOUS
<1>4. SchedInv(r)
  BY ZenonT(60), <1>2, <1>3, BootIsThread, RegisterBootInv
<1>5. /\ r.current = Boot /\ r.idle = s.idle
      /\ r.states = [s.states EXCEPT ![Boot] = "Running"]
      /\ r.kinds = [s.kinds EXCEPT ![Boot] = "Boot"]
  BY <1>2, <1>3, BootIsThread, RegisterBootEffect
<1>6. r.states[Boot] = "Running" /\ r.kinds[Boot] = "Boot"
  BY ZenonT(60), <1>2, <1>5, BootIsThread
<1>7. r.current # r.idle
  BY ZenonT(60), <1>2, <1>5, BootIsThread, NoThreadIsNoThread
<1> QED
  BY ZenonT(60), <1>1, <1>3, <1>4, <1>5, <1>6, <1>7, BootIsThread DEF SchedPart

\* Create and create_idle, from the boot context.
LEMMA CreatedPart ==
    ASSUME NEW s, SchedPart(s, Boot),
           NEW r, r \in {RegisterIdleAny(s), Create(s)}
    PROVE  /\ SchedPart(r.sched, Boot) /\ r.sched.current = s.current
           /\ r.ret \in ThreadId \cup {NO_THREAD}
<1>1. /\ SchedInv(s) /\ s.current # NO_THREAD
      /\ s.states \in [ThreadId -> ThreadState] /\ s.kinds \in [ThreadId -> ThreadKind]
      /\ s.states[s.current] = "Running"
  BY ZenonT(60), InvFacts, NoThreadIsNoThread DEF SchedPart
<1>2. SchedInv(r.sched)
  BY <1>1, RegisterIdleAnyInv, CreateInv
<1>3. CASE r = Err(s)
  <2>1. r.sched = s /\ r.ret = NO_THREAD
    BY ZenonT(60), <1>3 DEF Err, Ok
  <2> QED
    BY ZenonT(60), <2>1
<1>4. CASE r # Err(s)
  <2>1. PICK id : id = FirstIn(s, "Unused")
    OBVIOUS
  <2>2. ThreadsIn(s, "Unused") # {}
    BY ZenonT(60), <1>4 DEF RegisterIdleAny, Create
  <2>3. id \in ThreadId /\ s.states[id] = "Unused" /\ id # Boot /\ id # s.current
    <3>1. id \in ThreadId /\ s.states[id] = "Unused"
      BY ZenonT(60), <2>1, <2>2, FirstInMember DEF ThreadsIn
    <3> QED
      BY ZenonT(60), <1>1, <3>1 DEF SchedPart
  <2>4. \E kd \in {"Normal", "Idle"} :
           /\ r.ret = id /\ r.sched.current = s.current
           /\ r.sched.idle \in {s.idle, id}
           /\ r.sched.states = [s.states EXCEPT ![id] = "Ready"]
           /\ r.sched.kinds = [s.kinds EXCEPT ![id] = kd]
    <3>1. CASE r = Create(s)
      BY ZenonT(60), <1>1, <2>1, <2>2, <3>1, CreateEffect
    <3>2. CASE r = RegisterIdleAny(s)
      <4>1. r = RegisterIdle(s, id)
        BY ZenonT(60), <2>1, <2>2, <3>2 DEF RegisterIdleAny
      <4>2. s.idle = NO_THREAD
        BY ZenonT(60), <1>4, <4>1 DEF RegisterIdle
      <4> QED
        BY <1>1, <2>3, <4>1, <4>2, RegisterIdleEffect
    <3> QED
      BY ZenonT(60), <3>1, <3>2
  <2>5. r.sched.states[Boot] = s.states[Boot] /\ r.sched.kinds[Boot] = s.kinds[Boot]
    BY ZenonT(60), <1>1, <2>3, <2>4, BootIsThread
  <2> QED
    BY <1>2, <2>3, <2>4, <2>5 DEF SchedPart
<1> QED
  BY ZenonT(60), <1>3, <1>4

\* A handler that has got past reap_exited: the scheduler has the thread that
\* the handler resumes.
LEMMA ServedPart ==
    ASSUME NEW s, SchedPart(s, Boot), s.current = running,
           NEW r, Outcome(ReapAll(s), r, Boot)
    PROVE  /\ SchedPart(Turned(r.sched), Boot)
           /\ Turned(r.sched).current = NextThread(r.ret)
           /\ NextThread(r.ret) \in Thread
<1>1. SchedPart(ReapAll(s), Boot) /\ ReapAll(s).current = running
  BY ZenonT(60), BootIsThread, ReapAllPart
<1>2. SchedPart(r.sched, Boot)
  BY ZenonT(60), <1>1, BootIsThread, OutcomePart
<1>3. r.sched.current = NextThread(r.ret)
  <2>1. CASE Kept(ReapAll(s), r)
    BY ZenonT(60), <1>1, <2>1 DEF Kept, NextThread
  <2>2. ASSUME NEW to, NEW x, Switched(ReapAll(s), r, to, x, Boot)
        PROVE  r.sched.current = NextThread(r.ret)
    BY ZenonT(60), <2>2 DEF Switched, NextThread
  <2> QED
    BY ZenonT(60), <2>1, <2>2 DEF Outcome
<1>4. r.sched.current \in Thread
  BY ZenonT(60), <1>2, BootIsThread DEF SchedPart
<1> QED
  BY ZenonT(60), <1>2, <1>3, <1>4, TurnedPart

-----------------------------------------------------------------------------
(* The boot context *)

\* init_boot finds the scheduler as New leaves it.
LEMMA InitBootStep ==
    ASSUME MainInv, InitBoot
    PROVE  MainInv' /\ [LockNext]_lockVars
<1>1. /\ At("init_boot") /\ Advance /\ UNCHANGED lockVars
      /\ sched' = RegisterBoot(sched, Boot) /\ UNCHANGED <<preemption, thread>>
  BY ZenonT(60) DEF InitBoot
<1>2. running = Boot /\ boot.at <= Len(BootCode) /\ BootCode[boot.at].op = "init_boot"
  <2>1. Len(BootCode) \in Nat
    BY BootCodeShape
  <2> QED
    BY <1>1, <2>1, MainHolds DEF At, halted, Instruction
<1>3. boot.at = 10
  BY ZenonT(60), <1>2, OpPlace, MainHolds
<1>4. sched = New
  BY <1>3, MainHolds DEF BootOrder, InitBootAt
<1>5. boot'.at = 11 /\ IsBoot(boot')
  <2>1. boot' = [boot EXCEPT !.at = 11]
    BY <1>1, <1>3 DEF Advance
  <2> QED
    BY <2>1, BootCounts, MainHolds
<1>6. SchedPart(sched', Boot) /\ sched'.current = Boot
  BY ZenonT(60), <1>1, <1>4, BootPart
<1>7. UNCHANGED <<running, enabled, section, phase>>
  BY ZenonT(60), <1>1 DEF lockVars
<1>8. BootOrder(sched', boot'.at, enabled', running')
  BY <1>2, <1>5, <1>6, <1>7 DEF BootOrder, InitBootAt
<1>9. \A t \in ThreadId \ {Boot} : Outside(thread'[t], section'[t], phase'[t])
  BY ZenonT(60), <1>1, <1>7, MainHolds
<1>10. /\ preemption' \in BOOLEAN /\ thread' = [t \in ThreadId |-> thread'[t]]
       /\ \A t \in ThreadId : IsThread(thread'[t])
       /\ [LockNext]_lockVars
  BY ZenonT(60), <1>1, MainHolds
<1> QED
  BY <1>5, <1>8, <1>9, <1>10, MainStep

\* Threads are created in the middle of BootCode: the scheduler runs.
LEMMA RegisterStep ==
    ASSUME MainInv, Register
    PROVE  MainInv' /\ [LockNext]_lockVars
<1>1. PICK r \in {RegisterIdleAny(sched), Create(sched)} :
          /\ sched' = Turned(r.sched)
          /\ \/ \E what : Fail(what)
             \/ boot' = [boot EXCEPT !.at = boot.at + 1, !.id = r.ret]
  BY ZenonT(60) DEF Register
<1>2. /\ At("register") /\ UNCHANGED lockVars /\ UNCHANGED <<preemption, thread>>
  BY ZenonT(60) DEF Register
<1>3. running = Boot /\ boot.at <= Len(BootCode) /\ BootCode[boot.at].op = "register"
  <2>1. Len(BootCode) \in Nat
    BY BootCodeShape
  <2> QED
    BY <1>2, <2>1, MainHolds DEF At, halted, Instruction
<1>4. Finish \in Nat /\ boot.at \in 12 .. (Finish - 2)
  <2>1. "register" \in MiddleOp \ {"try", "alloc"}
    BY ZenonT(60) DEF MiddleOp
  <2> QED
    BY ZenonT(60), <1>3, <2>1, OpPlace, MainHolds, BootCodeShape
<1>5. SchedPart(sched, Boot) /\ sched.current = running
  BY <1>4, MainHolds DEF BootOrder, InitBootAt
<1>6. /\ SchedPart(r.sched, Boot) /\ r.sched.current = running
      /\ r.ret \in ThreadId \cup {NO_THREAD}
  BY ZenonT(60), <1>1, <1>5, CreatedPart
<1>7. SchedPart(sched', Boot) /\ sched'.current = running
  BY ZenonT(60), <1>1, <1>6, TurnedPart
<1>8. IsBoot(boot') /\ boot'.at \in Nat /\ boot'.at > 10
  <2>1. CASE \E what : Fail(what)
    <3>1. boot' = [boot EXCEPT !.at = Finish] /\ Finish \in Nat \ {0}
      BY <1>4, <2>1 DEF Fail
    <3> QED
      BY <1>4, <3>1, BootCounts, MainHolds
  <2>2. CASE boot' = [boot EXCEPT !.at = boot.at + 1, !.id = r.ret]
    <3>1. PICK A, B : boot \in [at : Nat \ {0}, id : ThreadId \cup {NO_THREAD},
                                workers : A, before : B]
      BY MainHolds DEF IsBoot
    <3>2. boot.at + 1 \in Nat \ {0} /\ boot.at + 1 > 10
      BY <1>4
    <3>3. /\ boot'.at = boot.at + 1
          /\ boot' \in [at : Nat \ {0}, id : ThreadId \cup {NO_THREAD},
                        workers : A, before : B]
      BY ZenonT(60), <1>6, <2>2, <3>1, <3>2
    <3> QED
      BY ZenonT(60), <3>2, <3>3 DEF IsBoot
  <2> QED
    BY ZenonT(60), <1>1, <2>1, <2>2
<1>9. UNCHANGED <<running, enabled, section, phase>>
  BY <1>2 DEF lockVars
<1>10. BootOrder(sched', boot'.at, enabled', running')
  BY <1>7, <1>8, <1>9 DEF BootOrder, InitBootAt
<1>11. \A t \in ThreadId \ {Boot} : Outside(thread'[t], section'[t], phase'[t])
  BY ZenonT(60), <1>2, <1>9, MainHolds
<1>12. /\ preemption' \in BOOLEAN /\ thread' = [t \in ThreadId |-> thread'[t]]
       /\ \A t \in ThreadId : IsThread(thread'[t])
       /\ [LockNext]_lockVars
  BY ZenonT(60), <1>2, MainHolds
<1> QED
  BY ZenonT(60), <1>8, <1>10, <1>11, <1>12, MainStep

-----------------------------------------------------------------------------
(* Interrupts *)

\* What a handler does, whatever its vector: the thread it leaves either is
\* interrupted or has gone on to a label of the kernel.
LEMMA HandlerStep ==
    ASSUME MainInv, NEW r, Outcome(ReapAll(sched), r, Boot),
           \/ Timer(NextThread(r.ret), Reaps)
           \/ Yield(NextThread(r.ret), Reaps),
           Serve(r),
           \/ UNCHANGED thread
           \/ \E label : label # "user" /\ thread' = [thread EXCEPT ![running].pc = label]
    PROVE  MainInv' /\ [LockNext]_lockVars
<1>1. enabled = TRUE
  <2>1. enabled \in BOOLEAN /\ (IFlag => enabled)
    BY ZenonT(60), MainHolds, RunningHolds DEF StackOK
  <2> QED
    BY ZenonT(60), <2>1 DEF Timer, Yield, MaySwitch
<1>2. SchedPart(sched, Boot) /\ sched.current = running
  BY ZenonT(60), <1>1, SchedulerRuns
<1>3. /\ SchedPart(Turned(r.sched), Boot)
      /\ Turned(r.sched).current = NextThread(r.ret)
      /\ NextThread(r.ret) \in Thread
  BY ZenonT(60), <1>2, ServedPart
<1>4. Reaps \in BOOLEAN
  BY DEF Reaps
<1>5. [LockNext]_lockVars
  BY ZenonT(60), <1>3, <1>4 DEF LockNext
<1>6. LockInv' /\ stuck' = FALSE
  BY ZenonT(60), <1>5, MainHolds, LockInvNext DEF LockInv, LocksTypeOK
<1>7. Handler(NextThread(r.ret), Reaps)
  BY ZenonT(60) DEF Timer, Yield
<1>8. running' = NextThread(r.ret) /\ UNCHANGED <<enabled, section, phase>>
  BY ZenonT(60), <1>6, <1>7 DEF Handler
<1>9. sched' = Turned(r.sched) /\ UNCHANGED <<preemption, boot>>
  BY ZenonT(60), <1>6 DEF Serve
<1>10. BootOrder(sched', boot'.at, enabled', running')
  <2>1. ~ (boot.at <= InitBootAt)
    BY ZenonT(60), <1>1, MainHolds DEF BootOrder
  <2> QED
    BY ZenonT(60), <1>3, <1>8, <1>9, <2>1 DEF BootOrder
<1>11. /\ thread' = [t \in ThreadId |-> thread'[t]]
       /\ \A t \in ThreadId : IsThread(thread'[t])
       /\ \A t \in ThreadId : thread'[t].pc = "user" => thread'[t] = thread[t]
  <2>1. CASE UNCHANGED thread
    BY ZenonT(60), <2>1, MainHolds
  <2>2. ASSUME NEW label, label # "user", thread' = [thread EXCEPT ![running].pc = label]
        PROVE  /\ thread' = [t \in ThreadId |-> thread'[t]]
               /\ \A t \in ThreadId : IsThread(thread'[t])
               /\ \A t \in ThreadId : thread'[t].pc = "user" => thread'[t] = thread[t]
    <3>1. PICK w : /\ IsThread(w) /\ w.pc = label
                   /\ thread' = [thread EXCEPT ![running] = w]
      BY ZenonT(60), <2>2, Relabelled
    <3>2. running \in ThreadId
      BY ZenonT(60), MainHolds, BootIsThread DEF LockInv, LocksTypeOK
    <3>3. /\ thread' = [t \in ThreadId |-> thread'[t]]
          /\ thread'[running] = w
          /\ \A t \in ThreadId \ {running} : thread'[t] = thread[t]
      BY ZenonT(60), <3>1, <3>2, MainHolds
    <3> QED
      BY ZenonT(60), <2>2, <3>1, <3>3, MainHolds
  <2> QED
    BY ZenonT(60), <2>1, <2>2
<1>12. \A t \in ThreadId \ {Boot} : Outside(thread'[t], section'[t], phase'[t])
  BY ZenonT(60), <1>8, <1>11, MainHolds DEF Outside
<1>13. preemption' \in BOOLEAN /\ IsBoot(boot')
  BY ZenonT(60), <1>9, MainHolds
<1> QED
  BY ZenonT(60), <1>5, <1>10, <1>11, <1>12, <1>13, MainStep

\* The timer.
LEMMA TickStep ==
    ASSUME MainInv, Tick
    PROVE  MainInv' /\ [LockNext]_lockVars
<1>1. PICK r : /\ r = OnTick(ReapAll(sched), preemption)
               /\ Timer(NextThread(r.ret), Reaps) /\ Serve(r)
  BY ZenonT(60) DEF Tick
<1>2. UNCHANGED thread
  BY ZenonT(60) DEF Tick
<1>3. enabled
  BY ZenonT(60), <1>1, MainHolds, RunningHolds DEF Timer, StackOK
<1>4. SchedPart(ReapAll(sched), Boot)
  BY ZenonT(60), <1>3, SchedulerRuns, BootIsThread, ReapAllPart
<1>5. Outcome(ReapAll(sched), r, Boot)
  BY ZenonT(60), <1>1, <1>4, BootIsThread, OnTickOutcome, MainHolds
<1> QED
  BY ZenonT(60), <1>1, <1>2, <1>5, HandlerStep

\* yield_now.
LEMMA YieldStep ==
    ASSUME MainInv, YieldNow
    PROVE  MainInv' /\ [LockNext]_lockVars
<1>1. PICK r : /\ r = Rotate(ReapAll(sched))
               /\ Yield(NextThread(r.ret), Reaps) /\ Serve(r)
  BY ZenonT(60) DEF YieldNow, YieldCurrent
<1>2. \E label : label # "user" /\ thread' = [thread EXCEPT ![running].pc = label]
  <2>1. \E label \in {"finish", "turn"} : thread' = [thread EXCEPT ![running].pc = label]
    BY ZenonT(60) DEF YieldNow, Go
  <2> QED
    BY ZenonT(60), <2>1
<1>3. enabled
  BY <1>1 DEF Yield, MaySwitch
<1>4. SchedPart(ReapAll(sched), Boot)
  BY ZenonT(60), <1>3, SchedulerRuns, BootIsThread, ReapAllPart
<1>5. Outcome(ReapAll(sched), r, Boot)
  BY ZenonT(60), <1>1, <1>4, BootIsThread, RotateOutcome
<1> QED
  BY ZenonT(60), <1>1, <1>2, <1>5, HandlerStep

\* exit.
LEMMA ExitStep ==
    ASSUME MainInv, Exit
    PROVE  MainInv' /\ [LockNext]_lockVars
<1>1. PICK r : /\ r = ExitCurrent(ReapAll(sched))
               /\ Yield(NextThread(r.ret), Reaps) /\ Serve(r)
  BY ZenonT(60) DEF Exit
<1>2. running # Boot /\ "none" # "user" /\ thread' = [thread EXCEPT ![running].pc = "none"]
  BY DEF Exit, AtLabel, Go
<1>3. enabled
  BY <1>1 DEF Yield, MaySwitch
<1>4. SchedPart(ReapAll(sched), Boot) /\ ReapAll(sched).current # Boot
  BY ZenonT(60), <1>2, <1>3, SchedulerRuns, BootIsThread, ReapAllPart
<1>5. Outcome(ReapAll(sched), r, Boot)
  BY ZenonT(60), <1>1, <1>4, BootIsThread, ExitOutcome
<1> QED
  BY ZenonT(60), <1>1, <1>2, <1>5, HandlerStep

\* The system call: user code runs with interrupts on, so that its handler is
\* like that of an interrupt.
LEMMA SyscallStep ==
    ASSUME MainInv, Syscall
    PROVE  MainInv' /\ [LockNext]_lockVars
<1>1. PICK r : /\ r = ExitCurrent(ReapAll(sched))
               /\ Handler(NextThread(r.ret), Reaps) /\ Serve(r)
  BY ZenonT(60) DEF Syscall
<1>2. /\ running # Boot /\ "none" # "user" /\ thread' = [thread EXCEPT ![running].pc = "none"]
      /\ thread[running].pc = "user"
  BY DEF Syscall, AtLabel, Go
<1>3. enabled = TRUE /\ running \in ThreadId
  BY ZenonT(60), <1>2, MainHolds, BootIsThread DEF LockInv, LocksTypeOK
<1>4. section[running] = <<>>
  BY ZenonT(60), <1>2, <1>3, MainHolds DEF Outside
<1>5. IFlag
  BY <1>3, <1>4, MainHolds, RunningHolds DEF StackOK, InsideOf
<1>6. Timer(NextThread(r.ret), Reaps)
  BY ZenonT(60), <1>1, <1>5 DEF Timer
<1>7. SchedPart(ReapAll(sched), Boot) /\ ReapAll(sched).current # Boot
  BY ZenonT(60), <1>2, <1>3, SchedulerRuns, BootIsThread, ReapAllPart
<1>8. Outcome(ReapAll(sched), r, Boot)
  BY ZenonT(60), <1>1, <1>7, BootIsThread, ExitOutcome
<1> QED
  BY ZenonT(60), <1>1, <1>2, <1>6, <1>8, HandlerStep

-----------------------------------------------------------------------------
(* The theorems *)

\* Every step of kernel_main, of a handler and of a thread keeps MainInv, and is a
\* step of Locks or leaves the locks alone.
LEMMA MainInvNext ==
    ASSUME MainInv, [Next]_vars
    PROVE  MainInv' /\ [LockNext]_lockVars
<1>1. CASE UNCHANGED vars
  <2>1. /\ UNCHANGED <<preemption, sched, thread, boot>> /\ UNCHANGED lockVars
        /\ UNCHANGED <<running, enabled, section, phase>>
    BY <1>1 DEF vars, lockVars
  <2> QED
    BY ZenonT(60), <2>1, MainStep, MainHolds
<1>2. CASE BootStep \/ TryFails \/ WaitTimesOut
  BY ZenonT(60), <1>2, QuietStep, UnderStep, BootEnters, InitBootStep, StiStep, RegisterStep,
     PrepareStep DEF BootStep
<1>3. CASE WorkerStep
  BY ZenonT(60), <1>3, WorkerLocks, WorkerComputes, YieldStep, ExitStep, SyscallStep DEF WorkerStep
<1>4. CASE Halt
  BY ZenonT(60), <1>1, <1>4 DEF Halt
<1> QED
  BY ZenonT(60), <1>1, <1>2, <1>3, <1>4, LockStepInv, TickStep DEF Next

\* In every behaviour the scheduler, the CPU, the locks and the place in BootCode
\* agree as MainInv says.
THEOREM MainInvariance == Spec => []MainInv
BY MainInvInit, MainInvNext, PTL DEF Spec

\* kernel_main, the self-check and the service are one of the programs that
\* Locks is about: every step is a step of its threads or of an interrupt.
THEOREM LocksImplemented == Spec => LockSpec
<1>1. Init => LockInit
  BY DEF Init
<1> QED
  BY <1>1, MainInvariance, MainInvNext, PTL DEF Spec, LockSpec

\* So no lock() of kernel_main or of the self-check spins, the held_count() that
\* checks 5 and 6 read is exact, and interrupts are on exactly outside the
\* critical sections, for every number of workers and rounds.
THEOREM KernelMainLocks == Spec => [](NeverSpins /\ HeldCountsOwnLocks /\ FlagFollowsGuards)
BY LocksImplemented, NobodySpins, HeldIsExact, GuardsRestore, PTL

-----------------------------------------------------------------------------
(* The report *)

\* Nothing comes between the report and the halt: with finish's own guard the
\* timer is off, no worker has the CPU, and the guard is never dropped.
THEOREM ReportStandsAlone == Spec => ReportIsUndisturbed
<1>1. Spec => []ReportInv
  BY MainInvariance, ReportInvInit, ReportInvNext, PTL DEF Spec
<1>2. ASSUME MainInv, ReportInv, [Next]_vars
      PROVE  [Reporting => UNCHANGED <<running, sched, statics, frames>>]_vars
  BY ZenonT(60), <1>2, OnlyReportLeft
<1> QED
  BY <1>1, <1>2, MainInvariance, PTL DEF Spec, ReportIsUndisturbed

-----------------------------------------------------------------------------
(* A kernel without preemption *)

\* For every number of workers and rounds: a kernel that never switches is told
\* so by step 3, because every check before it is about something else and none
\* after it is reached.
THEOREM NoPreemptionIsToldSo == Spec => []NoPreemptionIsNoticed
<1>1. Spec => []ReportInv
  BY MainInvariance, ReportInvInit, ReportInvNext, PTL DEF Spec
<1>2. Spec => []NoPreemptInv
  BY <1>1, MainInvariance, NoPreemptInvInit, NoPreemptInvNext, PTL DEF Spec
<1>3. NoPreemptInv => NoPreemptionIsNoticed
  BY DEF NoPreemptInv, NoPreemptionIsNoticed, EarlyStep
<1> QED
  BY <1>2, <1>3, PTL

=============================================================================
