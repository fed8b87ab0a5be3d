---------------------------- MODULE SchedulerInv ----------------------------
(***************************************************************************)
(* The invariant of the scheduler's struct between two calls, and what a   *)
(* call decides, as the proofs about the scheduler and about the kernels   *)
(* built on it use them.                                                   *)
(***************************************************************************)
EXTENDS SchedulerOps

RunsOnlyCurrent(s) ==
    ThreadsIn(s, "Running") = IF s.current = NO_THREAD THEN {} ELSE {s.current}

IdleAvailable(s) ==
    /\ {t \in ThreadId : s.kinds[t] = "Idle"} =
           IF s.idle = NO_THREAD THEN {} ELSE {s.idle}
    /\ s.idle # NO_THREAD => s.states[s.idle] \in {"Ready", "Running"}

\* Before register_boot the table is empty, so slot 0 is free for it.
EmptyBeforeBoot(s) ==
    s.current = NO_THREAD => \A t \in ThreadId : s.states[t] = "Unused"

SchedInv(s) ==
    /\ s \in SchedulerStruct
    /\ QueueHolds(s, ReadySet(s))
    /\ RunsOnlyCurrent(s)
    /\ IdleAvailable(s)
    /\ EmptyBeforeBoot(s)

\* In the middle of rotate and exit_current: the running thread has been
\* parked or stopped and its successor is not chosen yet.
NobodyRuns(s) ==
    /\ s \in SchedulerStruct
    /\ QueueHolds(s, ReadySet(s))
    /\ ThreadsIn(s, "Running") = {}
    /\ IdleAvailable(s)

-----------------------------------------------------------------------------
(* Decisions *)

\* The boot context b is always there to run, so the idle thread never does.
SchedPart(s, b) ==
    /\ SchedInv(s)
    /\ s.current \in ThreadId /\ s.current # s.idle
    /\ s.states[b] \in {"Ready", "Running"}
    /\ s.kinds[b] # "Idle"

\* The scheduler keeps the current thread; r is what the branch returns.
Kept(s, r) ==
    /\ r.ret.tag # "Switch"
    /\ SchedInv(r.sched)
    /\ r.sched.states = s.states /\ r.sched.kinds = s.kinds
    /\ r.sched.current = s.current /\ r.sched.idle = s.idle

\* The scheduler switches to a thread of the queue; the thread that ran is x.
Switched(s, r, to, x, b) ==
    /\ r.ret.tag = "Switch" /\ r.ret.from = s.current /\ r.ret.to = to
    /\ to \in ReadySet(s) /\ to # s.current
    /\ x \in {"Ready", "Exited"}
    /\ x = "Exited" => s.current # b
    /\ SchedInv(r.sched)
    /\ r.sched.current = to /\ r.sched.idle = s.idle /\ r.sched.kinds = s.kinds
    /\ r.sched.states = [s.states EXCEPT ![s.current] = x, ![to] = "Running"]

Outcome(s, r, b) == Kept(s, r) \/ \E to, x : Switched(s, r, to, x, b)

=============================================================================
