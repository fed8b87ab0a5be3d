---------------------------- MODULE SchedulerOps ----------------------------
(***************************************************************************)
(* The pure scheduler of crates/kernel-sched as functions from one value   *)
(* of `struct Scheduler` to the next.  A `&mut self` method becomes an     *)
(* operator on a record s that has the struct's fields; a method that also *)
(* returns something becomes an operator that returns a record             *)
(*   [sched |-> the new struct, ret |-> what the method returns].          *)
(* Scheduler.tla drives these operators as a state machine of its own and  *)
(* Kernel.tla calls them from the interrupt handler.                       *)
(***************************************************************************)
EXTENDS Naturals, FiniteSets

CONSTANTS
    MAX_THREADS,  \* capacity of the thread table (16 in the code)
    COUNTER_MOD   \* the tick and switch counters wrap here (2^64 in the code)

ASSUME MaxThreadsAssumption == MAX_THREADS \in Nat \ {0}
ASSUME CounterModAssumption == COUNTER_MOD \in Nat \ {0}

-----------------------------------------------------------------------------
(* Types *)

ThreadId == 0 .. (MAX_THREADS - 1)

\* usize::MAX in the code; only ever compared for equality.
NO_THREAD == MAX_THREADS

ThreadState == {"Unused", "Ready", "Running", "Exited"}

ThreadKind == {"Normal", "Idle", "Boot"}

Counter == 0 .. (COUNTER_MOD - 1)

SchedulerStruct ==
    [states   : [ThreadId -> ThreadState],
     kinds    : [ThreadId -> ThreadKind],
     queue    : [ThreadId -> ThreadId \cup {NO_THREAD}],
     head     : ThreadId,
     len      : 0 .. MAX_THREADS,
     current  : ThreadId \cup {NO_THREAD},
     idle     : ThreadId \cup {NO_THREAD},
     ticks    : Counter,
     switches : Counter]

\* Decision::Keep is distinguished by its tag; Switch carries both threads.
Keep == [tag |-> "Keep"]
Switch(from, to) == [tag |-> "Switch", from |-> from, to |-> to]

\* The error of exit_current, which has no decision to return.
Failed == [tag |-> "Failed"]

\* Scheduler::new: an empty table and no current thread.
New ==
    [states   |-> [t \in ThreadId |-> "Unused"],
     kinds    |-> [t \in ThreadId |-> "Normal"],
     queue    |-> [i \in ThreadId |-> NO_THREAD],
     head     |-> 0,
     len      |-> 0,
     current  |-> NO_THREAD,
     idle     |-> NO_THREAD,
     ticks    |-> 0,
     switches |-> 0]

-----------------------------------------------------------------------------
(* The ring buffer *)

\* The ring slot that lies offset places behind the head.
RingSlot(s, offset) == (s.head + offset) % MAX_THREADS

Enqueue(s, id) ==
    [s EXCEPT !.queue[RingSlot(s, s.len)] = id,
              !.len = @ + 1]

\* The caller reads the head first: QueueHead(s) is what dequeue returns.
QueueHead(s) == s.queue[s.head]

Dequeue(s) ==
    [s EXCEPT !.queue[s.head] = NO_THREAD,
              !.head = (@ + 1) % MAX_THREADS,
              !.len = @ - 1]

\* ready_queue(): the queued threads, head first.
ReadyQueue(s) == [i \in 1 .. s.len |-> s.queue[RingSlot(s, i - 1)]]

-----------------------------------------------------------------------------
(* Registration and creation *)

ThreadsIn(s, state) == {t \in ThreadId : s.states[t] = state}

\* iter().position(..): the lowest slot that is in the given state.
FirstIn(s, state) ==
    CHOOSE t \in ThreadsIn(s, state) :
        \A u \in ThreadsIn(s, state) : t <= u

\* The assignments every method makes to the thread table.
SetState(s, id, state) == [s EXCEPT !.states[id] = state]

SetSlot(s, id, state, kind) ==
    [SetState(s, id, state) EXCEPT !.kinds[id] = kind]

\* Result<usize, SchedError>, with NO_THREAD for every error.
Ok(s, ret) == [sched |-> s, ret |-> ret]
Err(s) == Ok(s, NO_THREAD)

RegisterBoot(s, id) ==
    [SetSlot(s, id, "Running", "Boot") EXCEPT !.current = id]

\* Mutated form: a second idle thread replaces the first.
RegisterIdleAgain(s, id) ==
    IF s.states[id] # "Unused"
    THEN Err(s)
    ELSE Ok([SetSlot(s, id, "Ready", "Idle") EXCEPT !.idle = id], id)

RegisterIdle(s, id) ==
    IF s.idle # NO_THREAD \/ s.states[id] # "Unused"
    THEN Err(s)
    ELSE Ok([SetSlot(s, id, "Ready", "Idle") EXCEPT !.idle = id], id)

RegisterIdleAny(s) ==
    IF ThreadsIn(s, "Unused") = {}
    THEN Err(s)
    ELSE RegisterIdle(s, FirstIn(s, "Unused"))

\* Mutated form: the new thread is not queued.
CreateUnqueued(s) ==
    IF ThreadsIn(s, "Unused") = {}
    THEN Err(s)
    ELSE LET id == FirstIn(s, "Unused")
         IN  Ok(SetSlot(s, id, "Ready", "Normal"), id)

Create(s) ==
    IF ThreadsIn(s, "Unused") = {}
    THEN Err(s)
    ELSE LET id == FirstIn(s, "Unused")
         IN  Ok(Enqueue(SetSlot(s, id, "Ready", "Normal"), id), id)

\* stats().live: the slots that are not empty.
Live(s) == Cardinality(ThreadId \ ThreadsIn(s, "Unused"))

-----------------------------------------------------------------------------
(* Scheduling *)

\* The tail of rotate and of exit_current: `to` becomes the running thread.
SwitchTo(s, to) ==
    [SetState(s, to, "Running") EXCEPT !.current = to,
                                       !.switches = (@ + 1) % COUNTER_MOD]

\* Mutated form: the thread that goes to the tail stays Running.
RotateNoPark(s) ==
    IF s.current = NO_THREAD \/ s.len = 0
    THEN Ok(s, Keep)
    ELSE LET queued == Enqueue(s, s.current)
         IN  Ok(SwitchTo(Dequeue(queued), QueueHead(queued)), Switch(s.current, QueueHead(queued)))

\* Mutated form: the idle thread is queued like any other.
RotateIdleToo(s) ==
    IF s.current = NO_THREAD \/ s.len = 0
    THEN Ok(s, Keep)
    ELSE LET queued == Enqueue(SetState(s, s.current, "Ready"), s.current)
         IN  Ok(SwitchTo(Dequeue(queued), QueueHead(queued)), Switch(s.current, QueueHead(queued)))


\* rotate: the running thread goes to the tail unless it is the idle thread.
\* With nobody queued, or with no boot context yet, the decision is Keep.
Rotate(s) ==
    IF s.current = NO_THREAD \/ s.len = 0
    THEN Ok(s, Keep)
    ELSE LET from   == s.current
             parked == SetState(s, from, "Ready")
             queued == IF s.kinds[from] = "Idle"
                       THEN parked
                       ELSE Enqueue(parked, from)
             to     == QueueHead(queued)
         IN  Ok(SwitchTo(Dequeue(queued), to), Switch(from, to))

\* Mutated form: a tick never reschedules.
OnTickOnlyCounts(s, reschedule) ==
    Ok([s EXCEPT !.ticks = (@ + 1) % COUNTER_MOD], Keep)

OnTick(s, reschedule) ==
    LET counted == [s EXCEPT !.ticks = (@ + 1) % COUNTER_MOD]
    IN  IF reschedule THEN Rotate(counted) ELSE Ok(counted, Keep)

YieldCurrent(s) == Rotate(s)

\* Mutated form: the idle thread is not considered.
ExitIgnoresIdle(s) ==
    LET stopped == SetState(s, s.current, "Exited")
    IN  IF s.current = NO_THREAD
        THEN Ok(s, Failed)
        ELSE IF s.len > 0
        THEN Ok(SwitchTo(Dequeue(stopped), QueueHead(stopped)),
                Switch(s.current, QueueHead(stopped)))
        ELSE Ok(stopped, Failed)

\* Mutated form: the idle thread runs although others are ready.
ExitToIdle(s) ==
    IF s.current = NO_THREAD \/ s.idle = NO_THREAD
    THEN Ok(s, Failed)
    ELSE Ok(SwitchTo(SetState(s, s.current, "Exited"), s.idle), Switch(s.current, s.idle))

\* exit_current with pick_after_stop.  The error paths differ: without a
\* current thread nothing happens, with nothing to run the caller stays
\* current although it is marked Exited.
ExitCurrent(s) ==
    LET from    == s.current
        stopped == SetState(s, from, "Exited")
    IN  IF from = NO_THREAD
        THEN Ok(s, Failed)
        ELSE IF s.len > 0
        THEN LET to == QueueHead(stopped)
             IN  Ok(SwitchTo(Dequeue(stopped), to), Switch(from, to))
        ELSE IF s.idle # NO_THREAD
        THEN Ok(SwitchTo(stopped, s.idle), Switch(from, s.idle))
        ELSE Ok(stopped, Failed)

TakeReapable(s) ==
    IF ThreadsIn(s, "Exited") = {}
    THEN Ok(s, NO_THREAD)
    ELSE LET id == FirstIn(s, "Exited")
         IN  Ok(SetSlot(s, id, "Unused", "Normal"), id)

\* Mutated form: nothing is reaped.
ReapNone(s) == s

\* reap_exited takes until nothing is left: every Exited thread leaves the table.
ReapAll(s) ==
    [s EXCEPT !.states = [t \in ThreadId |->
                              IF s.states[t] = "Exited" THEN "Unused" ELSE s.states[t]],
              !.kinds  = [t \in ThreadId |->
                              IF s.states[t] = "Exited" THEN "Normal" ELSE s.kinds[t]]]

-----------------------------------------------------------------------------
(* What the properties and the proofs say about the struct *)

\* The threads that compete for the CPU: Ready, and not the idle thread.
ReadySet(s) == {t \in ThreadsIn(s, "Ready") : s.kinds[t] # "Idle"}

\* The ring holds exactly the threads of R, each of them once.
QueueHolds(s, R) ==
    /\ {ReadyQueue(s)[i] : i \in 1 .. s.len} = R
    /\ \A i, j \in 1 .. s.len : ReadyQueue(s)[i] = ReadyQueue(s)[j] => i = j

=============================================================================
