-------------------------- MODULE SchedulerProofs ---------------------------
(***************************************************************************)
(* For every table size and every counter width, the scheduler keeps the   *)
(* invariants that crates/kernel-sched documents at the top of lib.rs, and *)
(* implements strict round robin.  The work is done in SchedulerOpsProofs, *)
(* on the pure operators.                                                  *)
(***************************************************************************)
EXTENDS Scheduler, SchedulerOpsProofs

\* A leaf that names no prover goes to the SMT solver, with time to spare.
USE SMTT(60)

-----------------------------------------------------------------------------
(* Theorems *)

\* One step of the kernel's use of the scheduler keeps the invariant.
LEMMA StepInv ==
    ASSUME SchedInv(sched), [Next]_vars
    PROVE  SchedInv(sched')
<1>1. CASE CallRegisterBoot
  BY <1>1, RegisterBootInv, MaxThreadsAssumption
  DEF CallRegisterBoot, BOOT_THREAD, ThreadId
<1>2. ASSUME NEW id \in ThreadId, CallRegisterIdle(id) PROVE SchedInv(sched')
  BY <1>2, RegisterIdleInv DEF CallRegisterIdle
<1>3. CASE CallRegisterIdleAny
  BY <1>3, RegisterIdleAnyInv DEF CallRegisterIdleAny
<1>4. CASE CallCreate
  BY <1>4, CreateInv DEF CallCreate
<1>5. ASSUME NEW reschedule \in BOOLEAN, CallOnTick(reschedule) PROVE SchedInv(sched')
  BY <1>5, OnTickInv DEF CallOnTick
<1>6. CASE CallYieldCurrent
  BY <1>6, RotateInv DEF CallYieldCurrent, YieldCurrent
<1>7. CASE CallExitCurrent
  BY <1>7, ExitCurrentInv DEF CallExitCurrent
<1>8. CASE CallTakeReapable
  BY <1>8, TakeReapableInv DEF CallTakeReapable
<1>9. CASE UNCHANGED vars
  BY <1>9 DEF vars
<1> QED
  BY <1>1, <1>2, <1>3, <1>4, <1>5, <1>6, <1>7, <1>8, <1>9 DEF Next

\* The inductive invariant holds in every state the kernel's calls can reach.
THEOREM Invariance == Spec => []SchedInv(sched)
<1>1. Init => SchedInv(sched)
  BY NewInv DEF Init
<1>2. SchedInv(sched) /\ [Next]_vars => SchedInv(sched)'
  BY StepInv
<1> QED
  BY <1>1, <1>2, PTL DEF Spec

\* The struct's fields stay in range: the ring never overflows.
THEOREM TypeCorrect == Spec => []TypeOK
<1>1. SchedInv(sched) => TypeOK
  BY DEF SchedInv, TypeOK
<1> QED
  BY <1>1, Invariance, PTL

\* The ready queue is exactly the set of ready threads, without duplicates.
THEOREM QueueCorrect == Spec => []QueueIsReadySet
<1>1. SchedInv(sched) => QueueIsReadySet
  BY DEF SchedInv, QueueIsReadySet
<1> QED
  BY <1>1, Invariance, PTL

\* The current thread, and nobody else, is Running.
THEOREM OneRunner == Spec => []OnlyCurrentRuns
<1>1. SchedInv(sched) => OnlyCurrentRuns
  BY DEF SchedInv, RunsOnlyCurrent, OnlyCurrentRuns
<1> QED
  BY <1>1, Invariance, PTL

\* The idle thread is always there to fall back on.
THEOREM IdleCorrect == Spec => []IdleStaysAvailable
<1>1. SchedInv(sched) => IdleStaysAvailable
  BY DEF SchedInv, IdleAvailable, IdleStaysAvailable
<1> QED
  BY <1>1, Invariance, PTL

\* The stack of the current thread is never handed back by take_reapable.
THEOREM ReapIsSafe == Spec => NeverReapCurrent
<1> DEFINE Spared == \A t \in ThreadId :
                        sched.states[t] = "Exited" /\ sched'.states[t] = "Unused"
                            => t # sched.current
<1>1. SchedInv(sched) => Spared
  BY NoThreadIsNoThread DEF SchedInv, RunsOnlyCurrent, ThreadsIn
<1>2. SchedInv(sched) => [Spared]_vars
  BY <1>1
<1> QED
  BY <1>2, Invariance, PTL DEF NeverReapCurrent

-----------------------------------------------------------------------------
(* Refinement *)

\* A free slot has none of the roles of the abstract scheduler.
LEMMA UnusedIsNotTaken ==
    ASSUME SchedInv(sched), NEW t \in ThreadId, sched.states[t] = "Unused"
    PROVE  t \notin RR!Taken
<1>1. \A i \in DOMAIN ReadyQueue(sched) : ReadyQueue(sched)[i] # t
  <2>1. ASSUME NEW i \in 1 .. sched.len PROVE ReadyQueue(sched)[i] # t
    BY InvFacts DEF QueueHolds, ReadySet, ThreadsIn
  <2>2. DOMAIN ReadyQueue(sched) = 1 .. sched.len
    BY DEF ReadyQueue
  <2> QED
    BY <2>1, <2>2
<1>2. t # sched.current
  BY InvFacts, NoThreadIsNoThread
<1>3. t # sched.idle
  BY NoThreadIsNoThread DEF SchedInv, IdleAvailable
<1>4. t \notin ThreadsIn(sched, "Exited")
  BY DEF ThreadsIn
<1> QED
  BY <1>1, <1>2, <1>3, <1>4 DEF RR!Taken

\* rotate, called by on_tick and by yield_current, is a turn or changes nothing.
LEMMA RotateIsTurn ==
    ASSUME SchedInv(sched), NEW s, SchedInv(s),
           s.states = sched.states, s.current = sched.current, s.idle = sched.idle,
           ReadyQueue(s) = ReadyQueue(sched),
           sched' = Rotate(s).sched
    PROVE  [RR!Next]_(RR!vars)
<1>1. CASE s.current = NO_THREAD \/ s.len = 0
  <2>1. sched' = s
    BY <1>1 DEF Rotate, Ok
  <2> QED
    BY <2>1 DEF RR!vars, ThreadsIn
<1>2. CASE ~ (s.current = NO_THREAD \/ s.len = 0)
  <2>1. /\ s.current # NO_THREAD /\ s.len > 0
        /\ s.states \in [ThreadId -> ThreadState]
        /\ s.current \in ThreadId /\ s.states[s.current] = "Running"
    BY <1>2, InvFacts
  <2>2. PICK to : to = Head(ReadyQueue(s))
    OBVIOUS
  <2>3. /\ to \in ReadySet(s) /\ ReadyQueue(s) # <<>>
        /\ sched'.current = to /\ sched'.idle = s.idle
        /\ sched'.states = [s.states EXCEPT ![s.current] = "Ready", ![to] = "Running"]
        /\ ReadyQueue(sched') = IF s.current = s.idle
                                THEN Tail(ReadyQueue(s))
                                ELSE Append(Tail(ReadyQueue(s)), s.current)
    BY <2>1, <2>2, RotateEffect
  <2>4. ThreadsIn(sched', "Exited") = ThreadsIn(sched, "Exited")
    BY <2>1, <2>3 DEF ThreadsIn, ReadySet
  <2>5. RR!Turn
    BY <2>1, <2>2, <2>3, <2>4 DEF RR!Turn
  <2> QED
    BY <2>5 DEF RR!Next
<1> QED
  BY <1>1, <1>2

\* exit_current is a stop.
LEMMA ExitIsStop ==
    ASSUME SchedInv(sched), CallExitCurrent
    PROVE  [RR!Next]_(RR!vars)
<1>1. CASE sched.current = NO_THREAD
  <2>1. sched' = sched
    BY <1>1 DEF CallExitCurrent, ExitCurrent, Ok
  <2> QED
    BY <2>1 DEF RR!vars
<1>2. CASE sched.current # NO_THREAD
  <2>1. /\ sched.states \in [ThreadId -> ThreadState] /\ sched.len \in Nat
        /\ sched.current \in ThreadId
        /\ sched.idle # NO_THREAD /\ sched.current # sched.idle
        /\ sched' = ExitCurrent(sched).sched
    BY <1>2, InvFacts DEF CallExitCurrent
  <2>2. PICK to : to = IF sched.len > 0 THEN Head(ReadyQueue(sched)) ELSE sched.idle
    OBVIOUS
  <2>3. /\ to \in ThreadId /\ to # sched.current
        /\ sched.len > 0 => to \in ReadySet(sched) /\ ReadyQueue(sched) # <<>>
        /\ sched.len = 0 => ReadyQueue(sched) = <<>>
        /\ sched'.current = to /\ sched'.idle = sched.idle
        /\ sched'.states = [sched.states EXCEPT ![sched.current] = "Exited", ![to] = "Running"]
        /\ ReadyQueue(sched') = IF sched.len > 0 THEN Tail(ReadyQueue(sched))
                                                 ELSE ReadyQueue(sched)
    BY <1>2, <2>1, <2>2, ExitEffect
  <2>4. sched.states[to] # "Exited"
    BY <2>1, <2>2, <2>3 DEF ReadySet, ThreadsIn, SchedInv, IdleAvailable
  <2>5. ThreadsIn(sched', "Exited") = ThreadsIn(sched, "Exited") \cup {sched.current}
    BY <2>1, <2>3, <2>4 DEF ThreadsIn
  <2>6. RR!Stop
    BY <1>2, <2>1, <2>2, <2>3, <2>5 DEF RR!Stop
  <2> QED
    BY <2>6 DEF RR!Next
<1> QED
  BY <1>1, <1>2

\* register_idle is AddIdle, or is refused.
LEMMA RegisterIdleIsAddIdle ==
    ASSUME SchedInv(sched), NEW id \in ThreadId, sched' = RegisterIdle(sched, id).sched
    PROVE  [RR!Next]_(RR!vars)
<1>1. CASE sched.idle # NO_THREAD \/ sched.states[id] # "Unused"
  <2>1. sched' = sched
    BY <1>1 DEF RegisterIdle, Err, Ok
  <2> QED
    BY <2>1 DEF RR!vars
<1>2. CASE sched.idle = NO_THREAD /\ sched.states[id] = "Unused"
  <2>1. /\ sched'.current = sched.current /\ sched'.idle = id
        /\ sched'.states = [sched.states EXCEPT ![id] = "Ready"]
        /\ ReadyQueue(sched') = ReadyQueue(sched)
    BY ZenonT(60), <1>2, RegisterIdleEffect
  <2>2. ThreadsIn(sched', "Exited") = ThreadsIn(sched, "Exited")
    BY <1>2, <2>1, InvFacts DEF ThreadsIn
  <2>3. RR!AddIdle(id)
    BY <1>2, <2>1, <2>2, UnusedIsNotTaken DEF RR!AddIdle
  <2> QED
    BY <2>3 DEF RR!Next
<1> QED
  BY <1>1, <1>2

\* Each call of the kernel is a step of round robin or changes nothing there.
LEMMA StepRefines ==
    ASSUME SchedInv(sched), [Next]_vars
    PROVE  [RR!Next]_(RR!vars)
<1>0. sched.states \in [ThreadId -> ThreadState]
  BY InvFacts
<1>1. CASE CallRegisterBoot
  <2>1. BOOT_THREAD \in ThreadId
    BY MaxThreadsAssumption DEF BOOT_THREAD, ThreadId
  <2>2. sched.current = NO_THREAD /\ sched.states[BOOT_THREAD] = "Unused"
    BY <1>1, <2>1 DEF CallRegisterBoot, SchedInv, EmptyBeforeBoot
  <2>3. /\ sched'.current = BOOT_THREAD /\ sched'.idle = sched.idle
        /\ sched'.states = [sched.states EXCEPT ![BOOT_THREAD] = "Running"]
        /\ ReadyQueue(sched') = ReadyQueue(sched)
    BY ZenonT(60), <1>1, <2>1, RegisterBootEffect DEF CallRegisterBoot
  <2>4. ThreadsIn(sched', "Exited") = ThreadsIn(sched, "Exited")
    BY <1>0, <2>1, <2>2, <2>3 DEF ThreadsIn
  <2>5. RR!Boot(BOOT_THREAD)
    BY <2>1, <2>2, <2>3, <2>4, UnusedIsNotTaken DEF RR!Boot
  <2> QED
    BY <2>1, <2>5 DEF RR!Next
<1>2. ASSUME NEW id \in ThreadId, CallRegisterIdle(id) PROVE [RR!Next]_(RR!vars)
  BY <1>2, RegisterIdleIsAddIdle DEF CallRegisterIdle
<1>3. CASE CallRegisterIdleAny
  <2>1. CASE ThreadsIn(sched, "Unused") = {}
    <3>1. sched' = sched
      BY <1>3, <2>1 DEF CallRegisterIdleAny, RegisterIdleAny, Err, Ok
    <3> QED
      BY <3>1 DEF RR!vars
  <2>2. CASE ThreadsIn(sched, "Unused") # {}
    <3>1. PICK id \in ThreadId : id = FirstIn(sched, "Unused")
      BY <2>2, FirstInMember DEF ThreadsIn
    <3>2. sched' = RegisterIdle(sched, id).sched
      BY <1>3, <2>2, <3>1 DEF CallRegisterIdleAny, RegisterIdleAny
    <3> QED
      BY <3>2, RegisterIdleIsAddIdle
  <2> QED
    BY <2>1, <2>2
<1>4. CASE CallCreate
  <2>1. CASE ThreadsIn(sched, "Unused") = {}
    <3>1. sched' = sched
      BY <1>4, <2>1 DEF CallCreate, Create, Err, Ok
    <3> QED
      BY <3>1 DEF RR!vars
  <2>2. CASE ThreadsIn(sched, "Unused") # {}
    <3>1. PICK id : id = FirstIn(sched, "Unused")
      OBVIOUS
    <3>2. /\ id \in ThreadId /\ sched.states[id] = "Unused"
          /\ sched'.current = sched.current /\ sched'.idle = sched.idle
          /\ sched'.states = [sched.states EXCEPT ![id] = "Ready"]
          /\ ReadyQueue(sched') = Append(ReadyQueue(sched), id)
      BY ZenonT(60), <1>4, <2>2, <3>1, CreateEffect DEF CallCreate
    <3>3. ThreadsIn(sched', "Exited") = ThreadsIn(sched, "Exited")
      BY <1>0, <3>2 DEF ThreadsIn
    <3>4. RR!Spawn(id)
      BY <3>2, <3>3, UnusedIsNotTaken DEF RR!Spawn
    <3> QED
      BY <3>2, <3>4 DEF RR!Next
  <2> QED
    BY <2>1, <2>2
<1>5. ASSUME NEW reschedule \in BOOLEAN, CallOnTick(reschedule) PROVE [RR!Next]_(RR!vars)
  <2>1. PICK c : c = [sched EXCEPT !.ticks = (sched.ticks + 1) % COUNTER_MOD]
    BY ZenonT(60)
  <2>2. /\ SchedInv(c)
        /\ c.states = sched.states /\ c.current = sched.current /\ c.idle = sched.idle
        /\ ReadyQueue(c) = ReadyQueue(sched)
    BY <2>1, TickCounted
  <2>3. sched' = IF reschedule THEN Rotate(c).sched ELSE c
    BY <1>5, <2>1 DEF CallOnTick, OnTick, Ok
  <2>4. CASE reschedule
    BY <2>2, <2>3, <2>4, RotateIsTurn
  <2>5. CASE ~ reschedule
    BY <2>2, <2>3, <2>5 DEF RR!vars, ThreadsIn
  <2> QED
    BY <2>4, <2>5
<1>6. CASE CallYieldCurrent
  <2>1. sched' = Rotate(sched).sched
    BY <1>6 DEF CallYieldCurrent, YieldCurrent
  <2> QED
    BY <2>1, RotateIsTurn
<1>7. CASE CallExitCurrent
  BY <1>7, ExitIsStop
<1>8. CASE CallTakeReapable
  <2>1. CASE ThreadsIn(sched, "Exited") = {}
    <3>1. sched' = sched
      BY <1>8, <2>1 DEF CallTakeReapable, TakeReapable, Ok
    <3> QED
      BY <3>1 DEF RR!vars
  <2>2. CASE ThreadsIn(sched, "Exited") # {}
    <3>1. PICK id : id = FirstIn(sched, "Exited")
      OBVIOUS
    <3>2. /\ id \in ThreadId /\ sched.states[id] = "Exited"
          /\ sched'.current = sched.current /\ sched'.idle = sched.idle
          /\ sched'.states = [sched.states EXCEPT ![id] = "Unused"]
          /\ ReadyQueue(sched') = ReadyQueue(sched)
      BY ZenonT(60), <1>8, <2>2, <3>1, TakeReapableEffect DEF CallTakeReapable
    <3>3. ThreadsIn(sched', "Exited") = ThreadsIn(sched, "Exited") \ {id}
      BY <1>0, <3>2 DEF ThreadsIn
    <3>4. RR!Reap(id)
      BY <3>2, <3>3 DEF RR!Reap, ThreadsIn
    <3> QED
      BY <3>2, <3>4 DEF RR!Next
  <2> QED
    BY <2>1, <2>2
<1>9. CASE UNCHANGED vars
  BY <1>9 DEF vars, RR!vars
<1> QED
  BY <1>1, <1>2, <1>3, <1>4, <1>5, <1>6, <1>7, <1>8, <1>9 DEF Next

\* The ring buffer and the thread table implement strict round robin: whatever
\* the kernel calls, the order of turns is that of an unbounded FIFO.
THEOREM RoundRobinImplemented == Spec => ImplementsRoundRobin
<1>1. Init => RR!Init
  <2>1. New.len = 0 /\ New.current = NO_THREAD /\ New.idle = NO_THREAD
    BY DEF New
  <2>2. ReadyQueue(New) = <<>>
    BY <2>1 DEF ReadyQueue
  <2>3. ThreadsIn(New, "Exited") = {}
    BY DEF New, ThreadsIn
  <2> QED
    BY <2>1, <2>2, <2>3 DEF Init, RR!Init
<1>2. SchedInv(sched) /\ [Next]_vars => [RR!Next]_(RR!vars)
  BY StepRefines
<1> QED
  BY <1>1, <1>2, Invariance, PTL DEF Spec, ImplementsRoundRobin, RR!Spec

=============================================================================
