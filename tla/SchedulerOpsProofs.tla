------------------------- MODULE SchedulerOpsProofs -------------------------
(***************************************************************************)
(* What every method of crates/kernel-sched does to the invariant of its   *)
(* struct, and what it does to the queue, the states and the current       *)
(* thread, for every table size and every counter width.  These are        *)
(* lemmas about the pure operators, for all modules that call them.        *)
(*                                                                         *)
(* QueueHolds(s, R) says what the ring contains independently of the       *)
(* thread table, so that enqueue and dequeue are reasoned about once, in   *)
(* the middle of a method too, where table and ring do not agree yet.      *)
(***************************************************************************)
EXTENDS SchedulerInv, Sequences, FiniteSetTheorems, TLAPS

\* A leaf that names no prover goes to the SMT solver, with time to spare.
USE SMTT(60)

-----------------------------------------------------------------------------
(* The ring's index arithmetic *)

\* The ring index of an offset of at most one turn, without the modulus.
LEMMA RingIndex ==
    ASSUME NEW h \in ThreadId, NEW k \in 0 .. MAX_THREADS
    PROVE  (h + k) % MAX_THREADS =
               IF h + k < MAX_THREADS THEN h + k ELSE h + k - MAX_THREADS
BY MaxThreadsAssumption DEF ThreadId

\* One turn of the ring is injective.
LEMMA TurnInjective ==
    ASSUME NEW m \in Nat, NEW h \in 0 .. (m - 1),
           NEW j \in 0 .. (m - 1), NEW k \in 0 .. (m - 1),
           (IF h + j < m THEN h + j ELSE h + j - m) =
               (IF h + k < m THEN h + k ELSE h + k - m)
    PROVE  j = k
OBVIOUS

\* The fields of the struct that the ring lemmas use.
LEMMA StructFields ==
    ASSUME NEW s \in SchedulerStruct
    PROVE  /\ s.states \in [ThreadId -> ThreadState]
           /\ s.kinds \in [ThreadId -> ThreadKind]
           /\ s.queue \in [ThreadId -> ThreadId \cup {NO_THREAD}]
           /\ s.head \in ThreadId
           /\ s.len \in 0 .. MAX_THREADS
           /\ s.current \in ThreadId \cup {NO_THREAD}
           /\ s.idle \in ThreadId \cup {NO_THREAD}
           /\ s.ticks \in Counter
           /\ s.switches \in Counter
BY DEF SchedulerStruct

\* Offsets of at most one turn are ring slots, and those of less than one
\* turn are different slots.
LEMMA RingSlots ==
    ASSUME NEW s \in SchedulerStruct
    PROVE  /\ \A k \in 0 .. MAX_THREADS : RingSlot(s, k) \in ThreadId
           /\ \A j, k \in 0 .. (MAX_THREADS - 1) :
                 RingSlot(s, j) = RingSlot(s, k) => j = k
<1>1. s.head \in ThreadId
  BY StructFields
<1>2. ASSUME NEW k \in 0 .. MAX_THREADS
      PROVE  RingSlot(s, k) = IF s.head + k < MAX_THREADS
                              THEN s.head + k ELSE s.head + k - MAX_THREADS
  BY <1>1, RingIndex DEF RingSlot
<1>3. ASSUME NEW k \in 0 .. MAX_THREADS PROVE RingSlot(s, k) \in ThreadId
  BY <1>1, <1>2, MaxThreadsAssumption DEF ThreadId
<1>4. ASSUME NEW j \in 0 .. (MAX_THREADS - 1), NEW k \in 0 .. (MAX_THREADS - 1),
             RingSlot(s, j) = RingSlot(s, k)
      PROVE  j = k
  <2>1. j \in 0 .. MAX_THREADS /\ k \in 0 .. MAX_THREADS
    BY MaxThreadsAssumption
  <2>2. /\ RingSlot(s, j) = IF s.head + j < MAX_THREADS
                            THEN s.head + j ELSE s.head + j - MAX_THREADS
        /\ RingSlot(s, k) = IF s.head + k < MAX_THREADS
                            THEN s.head + k ELSE s.head + k - MAX_THREADS
    BY <1>2, <2>1
  <2> QED
    BY ZenonT(60), <1>1, <1>4, <2>2, TurnInjective, MaxThreadsAssumption DEF ThreadId
<1> QED
  BY <1>3, <1>4

\* ready_queue() read through the ring slots.
LEMMA QueueEntries ==
    ASSUME NEW s \in SchedulerStruct
    PROVE  \A i \in 1 .. s.len : ReadyQueue(s)[i] = s.queue[RingSlot(s, i - 1)]
BY DEF ReadyQueue

-----------------------------------------------------------------------------
(* The assignments of the methods, field by field *)

\* Changing one thread's state leaves every other field as it is.
LEMMA SetStateFields ==
    ASSUME NEW s \in SchedulerStruct, NEW id \in ThreadId, NEW st \in ThreadState
    PROVE  LET r == SetState(s, id, st)
           IN  /\ r \in SchedulerStruct
               /\ r.states = [s.states EXCEPT ![id] = st]
               /\ r.kinds = s.kinds
               /\ r.queue = s.queue /\ r.head = s.head /\ r.len = s.len
               /\ r.current = s.current /\ r.idle = s.idle
<1>1. [s.states EXCEPT ![id] = st] \in [ThreadId -> ThreadState]
  BY StructFields
<1>2. ASSUME NEW f \in [ThreadId -> ThreadState]
      PROVE  /\ [s EXCEPT !.states = f] \in SchedulerStruct
             /\ [s EXCEPT !.states = f].states = f
  BY DEF SchedulerStruct
<1>3. SetState(s, id, st) = [s EXCEPT !.states = [s.states EXCEPT ![id] = st]]
  BY DEF SetState
<1>4. LET r == SetState(s, id, st)
      IN  /\ r.kinds = s.kinds
          /\ r.queue = s.queue /\ r.head = s.head /\ r.len = s.len
          /\ r.current = s.current /\ r.idle = s.idle
  BY <1>3 DEF SchedulerStruct
<1> QED
  BY ZenonT(60), <1>1, <1>2, <1>3, <1>4

\* Filling a slot of the thread table changes its state and its kind only.
LEMMA SetSlotFields ==
    ASSUME NEW s \in SchedulerStruct, NEW id \in ThreadId,
           NEW st \in ThreadState, NEW kd \in ThreadKind
    PROVE  LET r == SetSlot(s, id, st, kd)
           IN  /\ r \in SchedulerStruct
               /\ r.states = [s.states EXCEPT ![id] = st]
               /\ r.kinds = [s.kinds EXCEPT ![id] = kd]
               /\ r.queue = s.queue /\ r.head = s.head /\ r.len = s.len
               /\ r.current = s.current /\ r.idle = s.idle
<1> DEFINE p == SetState(s, id, st)
<1>1. /\ p \in SchedulerStruct
      /\ p.states = [s.states EXCEPT ![id] = st]
      /\ p.kinds = s.kinds
      /\ p.queue = s.queue /\ p.head = s.head /\ p.len = s.len
      /\ p.current = s.current /\ p.idle = s.idle
  BY SetStateFields
<1> HIDE DEF p
<1>2. [p.kinds EXCEPT ![id] = kd] \in [ThreadId -> ThreadKind]
  BY <1>1, StructFields
<1>3. ASSUME NEW g \in [ThreadId -> ThreadKind]
      PROVE  LET r == [p EXCEPT !.kinds = g]
             IN  /\ r \in SchedulerStruct
                 /\ r.kinds = g /\ r.states = p.states
                 /\ r.queue = p.queue /\ r.head = p.head /\ r.len = p.len
                 /\ r.current = p.current /\ r.idle = p.idle
  BY <1>1 DEF SchedulerStruct
<1> DEFINE filled == [p.kinds EXCEPT ![id] = kd]
           q == [p EXCEPT !.kinds = filled]
<1>4. SetSlot(s, id, st, kd) = q
  BY DEF SetSlot, p
<1>5. filled \in [ThreadId -> ThreadKind] /\ filled = [s.kinds EXCEPT ![id] = kd]
  BY <1>1, <1>2
<1> HIDE DEF filled
<1>6. /\ q \in SchedulerStruct
      /\ q.kinds = filled /\ q.states = p.states
      /\ q.queue = p.queue /\ q.head = p.head /\ q.len = p.len
      /\ q.current = p.current /\ q.idle = p.idle
  BY <1>3, <1>5
<1> HIDE DEF q
<1> QED
  BY <1>1, <1>4, <1>5, <1>6

\* enqueue changes one ring slot and the length.
LEMMA EnqueueFields ==
    ASSUME NEW s \in SchedulerStruct, s.len < MAX_THREADS, NEW id \in ThreadId
    PROVE  LET r == Enqueue(s, id)
           IN  /\ r \in SchedulerStruct
               /\ r.queue = [s.queue EXCEPT ![RingSlot(s, s.len)] = id]
               /\ r.head = s.head /\ r.len = s.len + 1
               /\ r.states = s.states /\ r.kinds = s.kinds
               /\ r.current = s.current /\ r.idle = s.idle
<1> DEFINE filled == [s.queue EXCEPT ![RingSlot(s, s.len)] = id]
           longer == s.len + 1
<1>1. longer \in 0 .. MAX_THREADS
  BY StructFields, MaxThreadsAssumption
<1>2. filled \in [ThreadId -> ThreadId \cup {NO_THREAD}]
  BY ZenonT(60), StructFields
<1>3. Enqueue(s, id) = [s EXCEPT !.queue = filled, !.len = longer]
  BY DEF Enqueue
<1>4. LET r == [s EXCEPT !.queue = filled, !.len = longer]
      IN  /\ r \in SchedulerStruct
          /\ r.queue = filled /\ r.head = s.head /\ r.len = longer
          /\ r.states = s.states /\ r.kinds = s.kinds
          /\ r.current = s.current /\ r.idle = s.idle
  <2> HIDE DEF filled, longer
  <2> QED
    BY ZenonT(60), <1>1, <1>2 DEF SchedulerStruct
<1> QED
  BY <1>3, <1>4

\* dequeue clears the head slot and moves the head on, around the ring.
LEMMA DequeueFields ==
    ASSUME NEW s \in SchedulerStruct, s.len > 0
    PROVE  LET r == Dequeue(s)
           IN  /\ r \in SchedulerStruct
               /\ r.queue = [s.queue EXCEPT ![s.head] = NO_THREAD]
               /\ r.head = RingSlot(s, 1) /\ r.len = s.len - 1
               /\ r.states = s.states /\ r.kinds = s.kinds
               /\ r.current = s.current /\ r.idle = s.idle
<1> DEFINE cleared == [s.queue EXCEPT ![s.head] = NO_THREAD]
           next    == RingSlot(s, 1)
           shorter == s.len - 1
<1>1. shorter \in 0 .. MAX_THREADS
  BY StructFields, MaxThreadsAssumption
<1>2. cleared \in [ThreadId -> ThreadId \cup {NO_THREAD}]
  BY StructFields
<1>3. next \in ThreadId
  BY RingSlots, MaxThreadsAssumption
<1>4. Dequeue(s) = [s EXCEPT !.queue = cleared, !.head = next, !.len = shorter]
  BY DEF Dequeue, RingSlot
<1>5. LET r == [s EXCEPT !.queue = cleared, !.head = next, !.len = shorter]
      IN  /\ r \in SchedulerStruct
          /\ r.queue = cleared /\ r.head = next /\ r.len = shorter
          /\ r.states = s.states /\ r.kinds = s.kinds
          /\ r.current = s.current /\ r.idle = s.idle
  <2> HIDE DEF cleared, next, shorter
  <2> QED
    BY ZenonT(60), <1>1, <1>2, <1>3 DEF SchedulerStruct
<1> QED
  BY <1>4, <1>5

\* Handing over the CPU changes one state, current and the switch counter.
LEMMA SwitchToFields ==
    ASSUME NEW s \in SchedulerStruct, NEW to \in ThreadId
    PROVE  LET r == SwitchTo(s, to)
           IN  /\ r \in SchedulerStruct
               /\ r.states = [s.states EXCEPT ![to] = "Running"]
               /\ r.kinds = s.kinds
               /\ r.queue = s.queue /\ r.head = s.head /\ r.len = s.len
               /\ r.current = to /\ r.idle = s.idle
<1> DEFINE p == SetState(s, to, "Running")
<1>1. /\ p \in SchedulerStruct
      /\ p.states = [s.states EXCEPT ![to] = "Running"]
      /\ p.kinds = s.kinds
      /\ p.queue = s.queue /\ p.head = s.head /\ p.len = s.len
      /\ p.current = s.current /\ p.idle = s.idle
  BY ZenonT(60), SetStateFields DEF ThreadState
<1> HIDE DEF p
<1>2. (p.switches + 1) % COUNTER_MOD \in Counter
  BY <1>1, StructFields, CounterModAssumption DEF Counter
<1>3. ASSUME NEW n \in Counter
      PROVE  LET r == [p EXCEPT !.current = to, !.switches = n]
             IN  /\ r \in SchedulerStruct
                 /\ r.states = p.states /\ r.kinds = p.kinds
                 /\ r.queue = p.queue /\ r.head = p.head /\ r.len = p.len
                 /\ r.current = to /\ r.idle = p.idle
  BY ZenonT(60), <1>1 DEF SchedulerStruct
<1>4. SwitchTo(s, to) =
          [p EXCEPT !.current = to, !.switches = (p.switches + 1) % COUNTER_MOD]
  BY DEF SwitchTo, p
<1> QED
  BY ZenonT(60), <1>1, <1>2, <1>3, <1>4

-----------------------------------------------------------------------------
(* What the ring contains *)

\* A thread that is not queued always finds room: the queued threads are
\* pairwise different and it is not among them.
LEMMA QueueRoom ==
    ASSUME NEW s \in SchedulerStruct, NEW R \in SUBSET ThreadId,
           QueueHolds(s, R), NEW id \in ThreadId, id \notin R
    PROVE  s.len < MAX_THREADS
<1>1. /\ IsFiniteSet(ThreadId)
      /\ Cardinality(ThreadId) = MAX_THREADS
  BY FS_Interval, MaxThreadsAssumption DEF ThreadId
<1> DEFINE places == 1 .. s.len
           others == ThreadId \ {id}
<1>2. /\ IsFiniteSet(others)
      /\ Cardinality(others) = MAX_THREADS - 1
  BY <1>1, FS_RemoveElement
<1>3. /\ IsFiniteSet(places)
      /\ Cardinality(places) = s.len
  <2>1. s.len \in Nat
    BY StructFields, MaxThreadsAssumption
  <2>2. ASSUME NEW a \in Int, NEW b \in Int, a = 1, b \in Nat
        PROVE  IsFiniteSet(a .. b) /\ Cardinality(a .. b) = b
    <3>1. /\ IsFiniteSet(a .. b)
          /\ Cardinality(a .. b) = IF a > b THEN 0 ELSE b - a + 1
      BY FS_Interval
    <3> QED
      BY <2>2, <3>1
  <2> QED
    BY <2>1, <2>2
<1>4. ReadyQueue(s) \in [places -> others]
  <2>1. \A i \in 1 .. s.len : ReadyQueue(s)[i] \in R
    BY DEF QueueHolds
  <2> QED
    BY ZenonT(60), <2>1 DEF ReadyQueue
<1>5. ~ \E i, j \in places : i # j /\ ReadyQueue(s)[i] = ReadyQueue(s)[j]
  BY DEF QueueHolds
<1>6. ~ (Cardinality(others) < Cardinality(places))
  <2> HIDE DEF places, others
  <2> QED
    BY <1>2, <1>3, <1>4, <1>5, FS_PigeonHole
<1> QED
  BY <1>2, <1>3, <1>6, StructFields, MaxThreadsAssumption

\* enqueue adds its thread at the tail and keeps every entry before it.
LEMMA EnqueueHolds ==
    ASSUME NEW s \in SchedulerStruct, NEW R \in SUBSET ThreadId,
           QueueHolds(s, R), NEW id \in ThreadId, id \notin R
    PROVE  /\ s.len < MAX_THREADS
           /\ QueueHolds(Enqueue(s, id), R \cup {id})
           /\ \A i \in 1 .. s.len : ReadyQueue(Enqueue(s, id))[i] = ReadyQueue(s)[i]
           /\ ReadyQueue(Enqueue(s, id))[s.len + 1] = id
<1> DEFINE r == Enqueue(s, id)
<1>1. s.len < MAX_THREADS
  BY QueueRoom
<1>2. /\ r \in SchedulerStruct
      /\ r.queue = [s.queue EXCEPT ![RingSlot(s, s.len)] = id]
      /\ r.head = s.head /\ r.len = s.len + 1
  BY <1>1, EnqueueFields
<1> HIDE DEF r
<1>3. \A k : RingSlot(r, k) = RingSlot(s, k)
  BY <1>2 DEF RingSlot
<1>4. s.len \in Nat
  BY StructFields, MaxThreadsAssumption
<1>5. RingSlot(s, s.len) \in ThreadId
  BY <1>1, <1>4, RingSlots, MaxThreadsAssumption
<1>6. ASSUME NEW i \in 1 .. s.len
      PROVE  ReadyQueue(r)[i] = ReadyQueue(s)[i]
  <2>1. /\ i - 1 \in 0 .. (MAX_THREADS - 1)
        /\ s.len \in 0 .. (MAX_THREADS - 1)
        /\ i - 1 # s.len
        /\ i \in 1 .. r.len
    BY <1>1, <1>2, <1>4, MaxThreadsAssumption
  <2>2. RingSlot(s, i - 1) # RingSlot(s, s.len)
    BY <2>1, RingSlots
  <2>3. RingSlot(s, i - 1) \in ThreadId
    BY <2>1, RingSlots, MaxThreadsAssumption
  <2>4. ReadyQueue(r)[i] = r.queue[RingSlot(s, i - 1)]
    BY ZenonT(60), <1>2, <1>3, <2>1, QueueEntries
  <2>5. ReadyQueue(s)[i] = s.queue[RingSlot(s, i - 1)]
    BY QueueEntries
  <2> QED
    BY <1>2, <2>2, <2>3, <2>4, <2>5, StructFields
<1>7. ReadyQueue(r)[s.len + 1] = id
  <2>1. s.len + 1 \in 1 .. r.len
    BY <1>2, <1>4
  <2>2. ReadyQueue(r)[s.len + 1] = r.queue[RingSlot(s, s.len)]
    <3>1. \A i \in 1 .. r.len : ReadyQueue(r)[i] = r.queue[RingSlot(r, i - 1)]
      BY ZenonT(60), <1>2, QueueEntries
    <3>2. PICK last \in 1 .. r.len : last = s.len + 1 /\ last - 1 = s.len
      BY <1>4, <2>1
    <3> QED
      BY <1>3, <3>1, <3>2
  <2> QED
    BY <1>2, <1>5, <2>2, StructFields
<1>8. \A i \in 1 .. r.len : i \in 1 .. s.len \/ i = s.len + 1
  BY <1>2, <1>4
<1>9. {ReadyQueue(r)[i] : i \in 1 .. r.len} = R \cup {id}
  <2>1. {ReadyQueue(s)[i] : i \in 1 .. s.len} = R
    BY DEF QueueHolds
  <2>2. s.len + 1 \in 1 .. r.len /\ \A i \in 1 .. s.len : i \in 1 .. r.len
    BY <1>2, <1>4
  <2> QED
    BY <1>6, <1>7, <1>8, <2>1, <2>2
<1>10. ASSUME NEW i \in 1 .. r.len, NEW j \in 1 .. r.len,
              ReadyQueue(r)[i] = ReadyQueue(r)[j]
       PROVE  i = j
  <2>1. \A n \in 1 .. s.len : ReadyQueue(r)[n] # id
    BY <1>6 DEF QueueHolds
  <2> QED
    BY <1>6, <1>7, <1>8, <1>10, <2>1 DEF QueueHolds
<1>11. QueueHolds(r, R \cup {id})
  BY <1>9, <1>10 DEF QueueHolds
<1> QED
  BY <1>1, <1>6, <1>7, <1>11 DEF r

\* dequeue removes the head entry and moves the others up by one.
LEMMA DequeueHolds ==
    ASSUME NEW s \in SchedulerStruct, NEW R \in SUBSET ThreadId,
           QueueHolds(s, R), s.len > 0
    PROVE  /\ QueueHead(s) \in R
           /\ QueueHead(s) = ReadyQueue(s)[1]
           /\ QueueHolds(Dequeue(s), R \ {QueueHead(s)})
           /\ \A i \in 1 .. (s.len - 1) :
                 ReadyQueue(Dequeue(s))[i] = ReadyQueue(s)[i + 1]
<1> DEFINE r == Dequeue(s)
<1>1. /\ r \in SchedulerStruct
      /\ r.queue = [s.queue EXCEPT ![s.head] = NO_THREAD]
      /\ r.head = RingSlot(s, 1) /\ r.len = s.len - 1
  BY DequeueFields
<1> HIDE DEF r
<1>2. s.len \in 1 .. MAX_THREADS /\ s.head \in ThreadId
  BY StructFields, MaxThreadsAssumption
<1>3. RingSlot(s, 0) = s.head
  BY <1>2, RingIndex, MaxThreadsAssumption DEF RingSlot, ThreadId
<1>4. QueueHead(s) = ReadyQueue(s)[1]
  <2>1. ReadyQueue(s)[1] = s.queue[RingSlot(s, 1 - 1)]
    BY <1>2, QueueEntries, MaxThreadsAssumption
  <2> QED
    BY <1>3, <2>1 DEF QueueHead
<1>5. ASSUME NEW k \in 0 .. (s.len - 2)
      PROVE  RingSlot(r, k) = RingSlot(s, k + 1)
  <2> DEFINE h == s.head
             m == MAX_THREADS
  <2>1. RingSlot(s, 1) = IF h + 1 < m THEN h + 1 ELSE h + 1 - m
    BY <1>2, RingIndex, MaxThreadsAssumption DEF RingSlot
  <2>2. RingSlot(s, k + 1) = IF h + (k + 1) < m THEN h + (k + 1) ELSE h + (k + 1) - m
    <3>1. k + 1 \in 0 .. MAX_THREADS
      BY <1>2, MaxThreadsAssumption
    <3> QED
      BY <1>2, <3>1, RingIndex DEF RingSlot
  <2>3. RingSlot(r, k) = IF r.head + k < m THEN r.head + k ELSE r.head + k - m
    <3>1. k \in 0 .. MAX_THREADS /\ r.head \in ThreadId
      BY <1>1, <1>2, StructFields, MaxThreadsAssumption
    <3> QED
      BY <3>1, RingIndex DEF RingSlot
  <2>4. m \in Nat /\ h \in 0 .. (m - 1) /\ k \in 0 .. (m - 2)
    BY <1>2, MaxThreadsAssumption DEF ThreadId
  <2> HIDE DEF h, m
  <2> QED
    BY <1>1, <2>1, <2>2, <2>3, <2>4
<1>6. ASSUME NEW i \in 1 .. (s.len - 1)
      PROVE  ReadyQueue(r)[i] = ReadyQueue(s)[i + 1]
  <2>1. /\ i \in 1 .. r.len /\ i + 1 \in 1 .. s.len
        /\ i - 1 \in 0 .. (s.len - 2) /\ i - 1 + 1 = i /\ i + 1 - 1 = i
        /\ i \in 0 .. (MAX_THREADS - 1) /\ 0 \in 0 .. (MAX_THREADS - 1) /\ i # 0
    BY <1>1, <1>2, MaxThreadsAssumption
  <2>2. ReadyQueue(r)[i] = r.queue[RingSlot(s, i)]
    <3>1. ReadyQueue(r)[i] = r.queue[RingSlot(r, i - 1)]
      BY ZenonT(60), <1>1, <2>1, QueueEntries
    <3>2. RingSlot(r, i - 1) = RingSlot(s, i - 1 + 1)
      BY <1>5, <2>1
    <3> QED
      BY <2>1, <3>1, <3>2
  <2>3. ReadyQueue(s)[i + 1] = s.queue[RingSlot(s, i)]
    BY <2>1, QueueEntries
  <2>4. RingSlot(s, i) # s.head
    BY <1>3, <2>1, RingSlots
  <2>5. RingSlot(s, i) \in ThreadId
    BY <2>1, RingSlots, MaxThreadsAssumption
  <2> QED
    BY <1>1, <2>2, <2>3, <2>4, <2>5, StructFields
<1>7. {ReadyQueue(r)[i] : i \in 1 .. r.len} = R \ {QueueHead(s)}
  <2>1. {ReadyQueue(s)[i] : i \in 1 .. s.len} = R
    BY DEF QueueHolds
  <2>2. \A i \in 1 .. r.len : i \in 1 .. (s.len - 1) /\ i + 1 \in 1 .. s.len /\ i + 1 # 1
    BY <1>1, <1>2, MaxThreadsAssumption
  <2>3. \A i \in 1 .. r.len : ReadyQueue(r)[i] \in R \ {QueueHead(s)}
    <3> TAKE i \in 1 .. r.len
    <3>1. i + 1 \in 1 .. s.len /\ 1 \in 1 .. s.len /\ i + 1 # 1
      BY <1>2, <2>2, MaxThreadsAssumption
    <3>2. ReadyQueue(s)[i + 1] # ReadyQueue(s)[1]
      BY <3>1 DEF QueueHolds
    <3> QED
      BY <1>4, <1>6, <2>1, <2>2, <3>1, <3>2
  <2>4. ASSUME NEW t \in R \ {QueueHead(s)}
        PROVE  \E i \in 1 .. r.len : ReadyQueue(r)[i] = t
    <3>1. PICK n \in 1 .. s.len : ReadyQueue(s)[n] = t
      BY <2>1
    <3>2. n # 1
      BY <1>4, <3>1
    <3>3. n - 1 \in 1 .. r.len /\ n - 1 \in 1 .. (s.len - 1) /\ n - 1 + 1 = n
      BY <1>1, <1>2, <3>2, MaxThreadsAssumption
    <3> QED
      BY <1>6, <3>1, <3>3
  <2> QED
    BY <2>3, <2>4
<1>8. ASSUME NEW i \in 1 .. r.len, NEW j \in 1 .. r.len,
             ReadyQueue(r)[i] = ReadyQueue(r)[j]
      PROVE  i = j
  <2>1. /\ i \in 1 .. (s.len - 1) /\ j \in 1 .. (s.len - 1)
        /\ i + 1 \in 1 .. s.len /\ j + 1 \in 1 .. s.len
    BY <1>1, <1>2, MaxThreadsAssumption
  <2>2. i + 1 = j + 1
    BY <1>6, <1>8, <2>1 DEF QueueHolds
  <2> QED
    BY <2>1, <2>2
<1>9. QueueHead(s) \in R
  BY <1>2, <1>4, MaxThreadsAssumption DEF QueueHolds
<1> QED
  BY <1>4, <1>6, <1>7, <1>8, <1>9 DEF r, QueueHolds

\* What the ring holds depends on its three fields only.
LEMMA SameRing ==
    ASSUME NEW r, NEW s, r.queue = s.queue, r.head = s.head, r.len = s.len, NEW R,
           QueueHolds(s, R)
    PROVE  QueueHolds(r, R)
<1>1. ReadyQueue(r) = ReadyQueue(s)
  BY DEF ReadyQueue, RingSlot
<1> QED
  BY <1>1 DEF QueueHolds

\* position() of a state that occurs yields a thread in that state.
LEMMA FirstInMember ==
    ASSUME NEW s, NEW state, ThreadsIn(s, state) # {}
    PROVE  FirstIn(s, state) \in ThreadsIn(s, state)
<1> DEFINE T == ThreadsIn(s, state)
<1>1. T \subseteq Nat
  BY MaxThreadsAssumption DEF ThreadsIn, ThreadId
<1>2. PICK x \in T : \A y \in T : ~ (<<y, x>> \in OpToRel(<, Nat))
  <2> HIDE DEF T
  <2> QED
    BY ZenonT(60), <1>1, NatLessThanWellFounded, WFMin DEF T
<1>3. ASSUME NEW y \in T PROVE x <= y
  <2>1. x \in Nat /\ y \in Nat
    BY <1>1
  <2>2. y < x => <<y, x>> \in OpToRel(<, Nat)
    BY <2>1 DEF OpToRel
  <2>3. ~ (y < x)
    BY <1>2, <2>2, ZenonT(60)
  <2> QED
    BY <2>1, <2>3
<1> QED
  BY <1>3 DEF FirstIn

-----------------------------------------------------------------------------
(* The inductive invariant *)

\* The sentinel NO_THREAD names no thread.
LEMMA NoThreadIsNoThread == NO_THREAD \notin ThreadId
BY MaxThreadsAssumption DEF NO_THREAD, ThreadId

\* Handing the CPU to the head of the queue restores the invariant.
LEMMA PickHead ==
    ASSUME NEW s, NobodyRuns(s), s.len > 0
    PROVE  SchedInv(SwitchTo(Dequeue(s), QueueHead(s)))
<1> DEFINE to == QueueHead(s)
           d  == Dequeue(s)
           r  == SwitchTo(d, to)
<1>0. s \in SchedulerStruct /\ QueueHolds(s, ReadySet(s))
  BY DEF NobodyRuns
<1>1. ReadySet(s) \in SUBSET ThreadId
  BY DEF ReadySet, ThreadsIn
<1>2. /\ to \in ReadySet(s)
      /\ QueueHolds(d, ReadySet(s) \ {to})
  BY <1>0, <1>1, DequeueHolds
<1>3. /\ d \in SchedulerStruct
      /\ d.states = s.states /\ d.kinds = s.kinds
      /\ d.current = s.current /\ d.idle = s.idle
  BY ZenonT(60), <1>0, DequeueFields
<1>4. /\ r \in SchedulerStruct
      /\ r.states = [s.states EXCEPT ![to] = "Running"]
      /\ r.kinds = s.kinds
      /\ r.queue = d.queue /\ r.head = d.head /\ r.len = d.len
      /\ r.current = to /\ r.idle = s.idle
  <2>1. to \in ThreadId
    BY <1>1, <1>2
  <2> HIDE DEF to, d
  <2> QED
    BY <1>3, <2>1, SwitchToFields
<1> HIDE DEF to, d, r
<1>5. /\ s.states \in [ThreadId -> ThreadState] /\ to \in ThreadId
      /\ s.states[to] = "Ready" /\ s.kinds[to] # "Idle"
  BY <1>0, <1>2, StructFields DEF ReadySet, ThreadsIn
<1>6. ReadySet(r) = ReadySet(s) \ {to}
  BY <1>4, <1>5 DEF ReadySet, ThreadsIn
<1>7. QueueHolds(r, ReadySet(r))
  BY <1>2, <1>4, <1>6, SameRing
<1>8. RunsOnlyCurrent(r)
  BY <1>4, <1>5, NoThreadIsNoThread DEF NobodyRuns, RunsOnlyCurrent, ThreadsIn
<1>9. IdleAvailable(r)
  BY <1>0, <1>4, <1>5, StructFields DEF NobodyRuns, IdleAvailable
<1>10. EmptyBeforeBoot(r)
  BY <1>4, <1>5, NoThreadIsNoThread DEF EmptyBeforeBoot
<1> QED
  BY <1>4, <1>7, <1>8, <1>9, <1>10 DEF SchedInv, r, d, to

\* So does handing it to the idle thread.
LEMMA PickIdle ==
    ASSUME NEW s, NobodyRuns(s), s.idle # NO_THREAD
    PROVE  SchedInv(SwitchTo(s, s.idle))
<1> DEFINE r == SwitchTo(s, s.idle)
<1>1. s \in SchedulerStruct /\ s.idle \in ThreadId
  BY StructFields DEF NobodyRuns
<1>2. /\ r \in SchedulerStruct
      /\ r.states = [s.states EXCEPT ![s.idle] = "Running"]
      /\ r.kinds = s.kinds
      /\ r.queue = s.queue /\ r.head = s.head /\ r.len = s.len
      /\ r.current = s.idle /\ r.idle = s.idle
  BY <1>1, SwitchToFields
<1> HIDE DEF r
<1>3. s.states \in [ThreadId -> ThreadState] /\ s.kinds[s.idle] = "Idle"
  BY <1>1, StructFields DEF NobodyRuns, IdleAvailable
<1>4. ReadySet(r) = ReadySet(s)
  BY <1>1, <1>2, <1>3 DEF ReadySet, ThreadsIn
<1>5. QueueHolds(r, ReadySet(r))
  BY <1>2, <1>4, SameRing DEF NobodyRuns
<1>6. RunsOnlyCurrent(r)
  BY <1>1, <1>2, <1>3, NoThreadIsNoThread DEF NobodyRuns, RunsOnlyCurrent, ThreadsIn
<1>7. IdleAvailable(r)
  BY <1>1, <1>2, <1>3 DEF NobodyRuns, IdleAvailable
<1>8. EmptyBeforeBoot(r)
  BY <1>1, <1>2, NoThreadIsNoThread DEF EmptyBeforeBoot
<1> QED
  BY <1>2, <1>5, <1>6, <1>7, <1>8 DEF SchedInv, r

-----------------------------------------------------------------------------
(* Every method keeps the invariant *)

\* rotate keeps the invariant, with an empty queue, from the idle thread or
\* from any other.
LEMMA RotateInv ==
    ASSUME NEW s, SchedInv(s)
    PROVE  SchedInv(Rotate(s).sched)
<1>1. CASE s.current = NO_THREAD \/ s.len = 0
  BY <1>1 DEF Rotate, Ok
<1>2. CASE ~ (s.current = NO_THREAD \/ s.len = 0)
  <2> DEFINE from   == s.current
             parked == SetState(s, from, "Ready")
             queued == IF s.kinds[from] = "Idle" THEN parked ELSE Enqueue(parked, from)
  <2>1. /\ s \in SchedulerStruct /\ from \in ThreadId
        /\ s.states \in [ThreadId -> ThreadState]
        /\ s.len \in Nat /\ s.len > 0
    BY <1>2, StructFields, MaxThreadsAssumption DEF SchedInv
  <2>2. s.states[from] = "Running"
    BY <1>2 DEF SchedInv, RunsOnlyCurrent, ThreadsIn
  <2>3. /\ parked \in SchedulerStruct
        /\ parked.states = [s.states EXCEPT ![from] = "Ready"]
        /\ parked.kinds = s.kinds
        /\ parked.queue = s.queue /\ parked.head = s.head /\ parked.len = s.len
        /\ parked.idle = s.idle
    BY ZenonT(60), <2>1, SetStateFields DEF ThreadState
  <2> HIDE DEF parked
  <2>4. QueueHolds(parked, ReadySet(s))
    BY <2>3, SameRing DEF SchedInv
  <2>5. ReadySet(s) \in SUBSET ThreadId /\ from \notin ReadySet(s)
    BY <2>2 DEF ReadySet, ThreadsIn
  <2>6. ThreadsIn(parked, "Running") = {}
    BY <1>2, <2>1, <2>3 DEF SchedInv, RunsOnlyCurrent, ThreadsIn
  <2>7. IdleAvailable(parked)
    BY <2>1, <2>3 DEF SchedInv, IdleAvailable
  <2>8. NobodyRuns(queued) /\ queued.len > 0
    <3>1. CASE s.kinds[from] = "Idle"
      <4>1. ReadySet(parked) = ReadySet(s)
        BY <2>1, <2>2, <2>3, <3>1 DEF ReadySet, ThreadsIn
      <4> QED
        BY <2>1, <2>3, <2>4, <2>6, <2>7, <3>1, <4>1 DEF NobodyRuns
    <3>2. CASE s.kinds[from] # "Idle"
      <4> DEFINE e == Enqueue(parked, from)
      <4>1. /\ parked.len < MAX_THREADS
            /\ QueueHolds(e, ReadySet(s) \cup {from})
        BY ZenonT(60), <2>1, <2>3, <2>4, <2>5, EnqueueHolds
      <4>2. /\ e \in SchedulerStruct /\ e.len = parked.len + 1
            /\ e.states = parked.states /\ e.kinds = parked.kinds
            /\ e.idle = parked.idle
        BY ZenonT(60), <2>1, <2>3, <4>1, EnqueueFields
      <4> HIDE DEF e
      <4>3. ReadySet(e) = ReadySet(s) \cup {from}
        BY <2>1, <2>2, <2>3, <3>2, <4>2 DEF ReadySet, ThreadsIn
      <4>4. ThreadsIn(e, "Running") = {} /\ IdleAvailable(e)
        BY <2>6, <2>7, <4>2 DEF ThreadsIn, IdleAvailable
      <4>5. NobodyRuns(e) /\ e.len > 0
        BY <2>1, <2>3, <4>1, <4>2, <4>3, <4>4 DEF NobodyRuns
      <4> QED
        BY <3>2, <4>5 DEF e
    <3> QED
      BY <3>1, <3>2
  <2>9. Rotate(s).sched = SwitchTo(Dequeue(queued), QueueHead(queued))
    BY <1>2 DEF Rotate, Ok, parked
  <2> HIDE DEF queued
  <2> QED
    BY <2>8, <2>9, PickHead
<1> QED
  BY <1>1, <1>2

\* Counting the tick changes nothing else.
LEMMA TickCounted ==
    ASSUME NEW s, SchedInv(s)
    PROVE  LET c == [s EXCEPT !.ticks = (s.ticks + 1) % COUNTER_MOD]
           IN  /\ SchedInv(c)
               /\ c.states = s.states /\ c.kinds = s.kinds
               /\ c.current = s.current /\ c.idle = s.idle
               /\ ReadyQueue(c) = ReadyQueue(s) /\ c.len = s.len
<1> DEFINE c == [s EXCEPT !.ticks = (s.ticks + 1) % COUNTER_MOD]
<1>1. s \in SchedulerStruct
  BY DEF SchedInv
<1>2. (s.ticks + 1) % COUNTER_MOD \in Counter
  BY <1>1, StructFields, CounterModAssumption DEF Counter
<1>3. /\ c \in SchedulerStruct
      /\ c.states = s.states /\ c.kinds = s.kinds
      /\ c.queue = s.queue /\ c.head = s.head /\ c.len = s.len
      /\ c.current = s.current /\ c.idle = s.idle
  BY <1>1, <1>2 DEF SchedulerStruct
<1> HIDE DEF c
<1>4. ReadyQueue(c) = ReadyQueue(s)
  BY <1>3 DEF ReadyQueue, RingSlot
<1>5. QueueHolds(c, ReadySet(c))
  <2>1. ReadySet(c) = ReadySet(s)
    BY <1>3 DEF ReadySet, ThreadsIn
  <2> QED
    BY <1>3, <2>1, SameRing DEF SchedInv
<1>6. RunsOnlyCurrent(c) /\ IdleAvailable(c) /\ EmptyBeforeBoot(c)
  BY <1>3 DEF SchedInv, RunsOnlyCurrent, IdleAvailable, EmptyBeforeBoot, ThreadsIn
<1>7. SchedInv(c)
  BY <1>3, <1>5, <1>6 DEF SchedInv
<1> QED
  BY <1>3, <1>4, <1>7 DEF c

\* on_tick keeps the invariant, with and without rescheduling.
LEMMA OnTickInv ==
    ASSUME NEW s, SchedInv(s), NEW reschedule \in BOOLEAN
    PROVE  SchedInv(OnTick(s, reschedule).sched)
<1> DEFINE c == [s EXCEPT !.ticks = (s.ticks + 1) % COUNTER_MOD]
<1>1. OnTick(s, reschedule).sched = IF reschedule THEN Rotate(c).sched ELSE c
  BY DEF OnTick, Ok
<1>2. SchedInv(c)
  BY TickCounted
<1> HIDE DEF c
<1> QED
  BY <1>1, <1>2, RotateInv

\* exit_current keeps the invariant when somebody waits, or the idle thread is
\* there to fall back on.
LEMMA ExitCurrentInv ==
    ASSUME NEW s, SchedInv(s), s.len > 0 \/ s.idle # NO_THREAD, s.current # s.idle
    PROVE  SchedInv(ExitCurrent(s).sched)
<1>1. CASE s.current = NO_THREAD
  BY <1>1 DEF ExitCurrent, Ok
<1>2. CASE s.current # NO_THREAD
  <2> DEFINE from    == s.current
             stopped == SetState(s, from, "Exited")
  <2>1. /\ s \in SchedulerStruct /\ from \in ThreadId
        /\ s.states \in [ThreadId -> ThreadState] /\ s.len \in Nat
    BY <1>2, StructFields, MaxThreadsAssumption DEF SchedInv
  <2>2. s.states[from] = "Running"
    BY <1>2 DEF SchedInv, RunsOnlyCurrent, ThreadsIn
  <2>3. /\ stopped \in SchedulerStruct
        /\ stopped.states = [s.states EXCEPT ![from] = "Exited"]
        /\ stopped.kinds = s.kinds
        /\ stopped.queue = s.queue /\ stopped.head = s.head /\ stopped.len = s.len
        /\ stopped.idle = s.idle
    BY ZenonT(60), <2>1, SetStateFields DEF ThreadState
  <2>4. SchedInv(IF s.len > 0 THEN SwitchTo(Dequeue(stopped), QueueHead(stopped))
                         ELSE SwitchTo(stopped, s.idle))
    <3> HIDE DEF stopped
    <3>1. ReadySet(stopped) = ReadySet(s)
      BY <2>1, <2>2, <2>3 DEF ReadySet, ThreadsIn
    <3>2. QueueHolds(stopped, ReadySet(stopped))
      BY <2>3, <3>1, SameRing DEF SchedInv
    <3>3. ThreadsIn(stopped, "Running") = {}
      BY <1>2, <2>1, <2>3 DEF SchedInv, RunsOnlyCurrent, ThreadsIn
    <3>4. IdleAvailable(stopped)
      BY <2>1, <2>3 DEF SchedInv, IdleAvailable
    <3>5. NobodyRuns(stopped)
      BY <2>3, <3>2, <3>3, <3>4 DEF NobodyRuns
    <3> QED
      BY <2>1, <2>3, <3>5, PickHead, PickIdle
  <2>5. ExitCurrent(s).sched =
            IF s.len > 0 THEN SwitchTo(Dequeue(stopped), QueueHead(stopped))
                         ELSE SwitchTo(stopped, s.idle)
    BY <1>2, <2>1 DEF ExitCurrent, Ok
  <2> QED
    BY <2>4, <2>5
<1> QED
  BY <1>1, <1>2

\* register_boot establishes the running thread.
LEMMA RegisterBootInv ==
    ASSUME NEW s, SchedInv(s), s.current = NO_THREAD, NEW id \in ThreadId
    PROVE  SchedInv(RegisterBoot(s, id))
<1> DEFINE p == SetSlot(s, id, "Running", "Boot")
           r == RegisterBoot(s, id)
<1>0. s \in SchedulerStruct
  BY DEF SchedInv
<1>1. /\ s.states \in [ThreadId -> ThreadState] /\ s.kinds \in [ThreadId -> ThreadKind]
      /\ \A t \in ThreadId : s.states[t] = "Unused"
  BY <1>0, StructFields DEF SchedInv, EmptyBeforeBoot
<1>2. /\ p \in SchedulerStruct
      /\ p.states = [s.states EXCEPT ![id] = "Running"]
      /\ p.kinds = [s.kinds EXCEPT ![id] = "Boot"]
      /\ p.queue = s.queue /\ p.head = s.head /\ p.len = s.len
      /\ p.idle = s.idle
  <2>1. s \in SchedulerStruct /\ id \in ThreadId
    BY <1>0
  <2>2. "Running" \in ThreadState /\ "Boot" \in ThreadKind
    BY DEF ThreadState, ThreadKind
  <2> QED
    BY <2>1, <2>2, SetSlotFields
<1>3. r = [p EXCEPT !.current = id]
  BY DEF RegisterBoot
<1> HIDE DEF p, r
<1>4. /\ r \in SchedulerStruct
      /\ r.states = p.states /\ r.kinds = p.kinds
      /\ r.queue = p.queue /\ r.head = p.head /\ r.len = p.len
      /\ r.current = id /\ r.idle = p.idle
  BY <1>2, <1>3 DEF SchedulerStruct
<1>5. ReadySet(r) = ReadySet(s)
  BY <1>1, <1>2, <1>4 DEF ReadySet, ThreadsIn
<1>6. QueueHolds(r, ReadySet(r))
  BY <1>2, <1>4, <1>5, SameRing DEF SchedInv
<1>7. RunsOnlyCurrent(r)
  BY <1>1, <1>2, <1>4, NoThreadIsNoThread DEF RunsOnlyCurrent, ThreadsIn
<1>8. s.idle = NO_THREAD
  BY <1>0, <1>1, StructFields DEF SchedInv, IdleAvailable
<1>9. IdleAvailable(r)
  BY <1>1, <1>2, <1>4, <1>8 DEF SchedInv, IdleAvailable
<1>10. EmptyBeforeBoot(r)
  BY <1>4, NoThreadIsNoThread DEF EmptyBeforeBoot
<1> QED
  BY <1>4, <1>6, <1>7, <1>9, <1>10 DEF SchedInv, r

\* register_idle keeps the invariant, refused or not.
LEMMA RegisterIdleInv ==
    ASSUME NEW s, SchedInv(s), s.current # NO_THREAD, NEW id \in ThreadId
    PROVE  SchedInv(RegisterIdle(s, id).sched)
<1>1. CASE s.idle # NO_THREAD \/ s.states[id] # "Unused"
  BY <1>1 DEF RegisterIdle, Err, Ok
<1>2. CASE ~ (s.idle # NO_THREAD \/ s.states[id] # "Unused")
  <2> DEFINE p == SetSlot(s, id, "Ready", "Idle")
             r == RegisterIdle(s, id).sched
  <2>1. /\ s \in SchedulerStruct
        /\ s.states \in [ThreadId -> ThreadState] /\ s.kinds \in [ThreadId -> ThreadKind]
        /\ s.states[id] = "Unused" /\ s.idle = NO_THREAD
    BY <1>2, StructFields DEF SchedInv
  <2>2. /\ p \in SchedulerStruct
        /\ p.states = [s.states EXCEPT ![id] = "Ready"]
        /\ p.kinds = [s.kinds EXCEPT ![id] = "Idle"]
        /\ p.queue = s.queue /\ p.head = s.head /\ p.len = s.len
        /\ p.current = s.current
    <3>1. "Ready" \in ThreadState /\ "Idle" \in ThreadKind
      BY DEF ThreadState, ThreadKind
    <3> QED
      BY <2>1, <3>1, SetSlotFields
  <2>3. r = [p EXCEPT !.idle = id]
    BY <1>2 DEF RegisterIdle, Ok
  <2> HIDE DEF p, r
  <2>4. /\ r \in SchedulerStruct
        /\ r.states = p.states /\ r.kinds = p.kinds
        /\ r.queue = p.queue /\ r.head = p.head /\ r.len = p.len
        /\ r.current = p.current /\ r.idle = id
    BY <2>2, <2>3 DEF SchedulerStruct
  <2>5. ReadySet(r) = ReadySet(s)
    BY <2>1, <2>2, <2>4 DEF ReadySet, ThreadsIn
  <2>6. QueueHolds(r, ReadySet(r))
    BY <2>2, <2>4, <2>5, SameRing DEF SchedInv
  <2>7. RunsOnlyCurrent(r)
    BY <2>1, <2>2, <2>4 DEF SchedInv, RunsOnlyCurrent, ThreadsIn
  <2>8. IdleAvailable(r)
    BY <2>1, <2>2, <2>4, NoThreadIsNoThread DEF SchedInv, IdleAvailable
  <2>9. EmptyBeforeBoot(r)
    BY <2>2, <2>4 DEF EmptyBeforeBoot
  <2> QED
    BY <2>4, <2>6, <2>7, <2>8, <2>9 DEF SchedInv, r
<1> QED
  BY <1>1, <1>2

\* register_idle_any keeps the invariant, refused or not.
LEMMA RegisterIdleAnyInv ==
    ASSUME NEW s, SchedInv(s), s.current # NO_THREAD
    PROVE  SchedInv(RegisterIdleAny(s).sched)
<1>1. CASE ThreadsIn(s, "Unused") = {}
  BY <1>1 DEF RegisterIdleAny, Err, Ok
<1>2. CASE ThreadsIn(s, "Unused") # {}
  <2>1. FirstIn(s, "Unused") \in ThreadId
    BY <1>2, FirstInMember DEF ThreadsIn
  <2> QED
    BY <1>2, <2>1, RegisterIdleInv DEF RegisterIdleAny
<1> QED
  BY <1>1, <1>2

\* create keeps the invariant: the new thread is queued once, and there is room.
LEMMA CreateInv ==
    ASSUME NEW s, SchedInv(s), s.current # NO_THREAD
    PROVE  SchedInv(Create(s).sched)
<1>1. CASE ThreadsIn(s, "Unused") = {}
  BY <1>1 DEF Create, Err, Ok
<1>2. CASE ThreadsIn(s, "Unused") # {}
  <2> DEFINE id == FirstIn(s, "Unused")
             p  == SetSlot(s, id, "Ready", "Normal")
             r  == Enqueue(p, id)
  <2>1. /\ id \in ThreadId /\ s.states[id] = "Unused"
        /\ s \in SchedulerStruct
        /\ s.states \in [ThreadId -> ThreadState] /\ s.kinds \in [ThreadId -> ThreadKind]
    BY <1>2, FirstInMember, StructFields DEF SchedInv, ThreadsIn
  <2>2. Create(s).sched = r
    BY <1>2 DEF Create, Ok
  <2> HIDE DEF id
  <2>3. /\ p \in SchedulerStruct
        /\ p.states = [s.states EXCEPT ![id] = "Ready"]
        /\ p.kinds = [s.kinds EXCEPT ![id] = "Normal"]
        /\ p.queue = s.queue /\ p.head = s.head /\ p.len = s.len
        /\ p.current = s.current /\ p.idle = s.idle
    <3>1. "Ready" \in ThreadState /\ "Normal" \in ThreadKind
      BY DEF ThreadState, ThreadKind
    <3> QED
      BY <2>1, <3>1, SetSlotFields
  <2> HIDE DEF p
  <2>4. QueueHolds(p, ReadySet(s))
    BY <2>3, SameRing DEF SchedInv
  <2>5. ReadySet(s) \in SUBSET ThreadId /\ id \notin ReadySet(s)
    BY <2>1 DEF ReadySet, ThreadsIn
  <2>6. p.len < MAX_THREADS /\ QueueHolds(r, ReadySet(s) \cup {id})
    BY <2>1, <2>3, <2>4, <2>5, EnqueueHolds
  <2>7. /\ r \in SchedulerStruct
        /\ r.states = p.states /\ r.kinds = p.kinds
        /\ r.current = p.current /\ r.idle = p.idle
    <3>1. p \in SchedulerStruct /\ p.len < MAX_THREADS /\ id \in ThreadId
      BY <2>1, <2>3, <2>6
    <3> QED
      BY ZenonT(60), <3>1, EnqueueFields
  <2> HIDE DEF r
  <2>8. ReadySet(r) = ReadySet(s) \cup {id}
    BY <2>1, <2>3, <2>7 DEF ReadySet, ThreadsIn
  <2>9. RunsOnlyCurrent(r)
    BY <2>1, <2>3, <2>7 DEF SchedInv, RunsOnlyCurrent, ThreadsIn
  <2>10. s.idle # id
    BY <2>1, NoThreadIsNoThread DEF SchedInv, IdleAvailable
  <2>11. IdleAvailable(r)
    BY <2>1, <2>3, <2>7, <2>10 DEF SchedInv, IdleAvailable
  <2>12. EmptyBeforeBoot(r)
    BY <2>3, <2>7 DEF EmptyBeforeBoot
  <2> QED
    BY <2>2, <2>6, <2>7, <2>8, <2>9, <2>11, <2>12 DEF SchedInv
<1> QED
  BY <1>1, <1>2

\* take_reapable keeps the invariant: what it empties is not queued.
LEMMA TakeReapableInv ==
    ASSUME NEW s, SchedInv(s)
    PROVE  SchedInv(TakeReapable(s).sched)
<1>1. CASE ThreadsIn(s, "Exited") = {}
  BY <1>1 DEF TakeReapable, Ok
<1>2. CASE ThreadsIn(s, "Exited") # {}
  <2> DEFINE id == FirstIn(s, "Exited")
             r  == SetSlot(s, id, "Unused", "Normal")
  <2>1. /\ id \in ThreadId /\ s.states[id] = "Exited"
        /\ s \in SchedulerStruct
        /\ s.states \in [ThreadId -> ThreadState] /\ s.kinds \in [ThreadId -> ThreadKind]
    BY <1>2, FirstInMember, StructFields DEF SchedInv, ThreadsIn
  <2>2. TakeReapable(s).sched = r
    BY <1>2 DEF TakeReapable, Ok
  <2> HIDE DEF id
  <2>3. /\ r \in SchedulerStruct
        /\ r.states = [s.states EXCEPT ![id] = "Unused"]
        /\ r.kinds = [s.kinds EXCEPT ![id] = "Normal"]
        /\ r.queue = s.queue /\ r.head = s.head /\ r.len = s.len
        /\ r.current = s.current /\ r.idle = s.idle
    <3>1. "Unused" \in ThreadState /\ "Normal" \in ThreadKind
      BY DEF ThreadState, ThreadKind
    <3> QED
      BY <2>1, <3>1, SetSlotFields
  <2> HIDE DEF r
  <2>4. ReadySet(r) = ReadySet(s)
    BY <2>1, <2>3 DEF ReadySet, ThreadsIn
  <2>5. QueueHolds(r, ReadySet(r))
    BY <2>3, <2>4, SameRing DEF SchedInv
  <2>6. RunsOnlyCurrent(r)
    BY <2>1, <2>3 DEF SchedInv, RunsOnlyCurrent, ThreadsIn
  <2>7. s.idle # id
    BY <2>1, NoThreadIsNoThread DEF SchedInv, IdleAvailable
  <2>8. IdleAvailable(r)
    BY <2>1, <2>3, <2>7 DEF SchedInv, IdleAvailable
  <2>9. EmptyBeforeBoot(r)
    BY <2>1, <2>3 DEF SchedInv, EmptyBeforeBoot
  <2> QED
    BY <2>2, <2>3, <2>5, <2>6, <2>8, <2>9 DEF SchedInv
<1> QED
  BY <1>1, <1>2

\* reap_exited keeps the invariant, and touches the exited threads only.
LEMMA ReapAllInv ==
    ASSUME NEW s, SchedInv(s)
    PROVE  LET r == ReapAll(s)
           IN  /\ SchedInv(r)
               /\ r.states = [t \in ThreadId |-> IF s.states[t] = "Exited"
                                                 THEN "Unused" ELSE s.states[t]]
               /\ r.kinds = [t \in ThreadId |-> IF s.states[t] = "Exited"
                                                THEN "Normal" ELSE s.kinds[t]]
               /\ r.current = s.current /\ r.idle = s.idle
               /\ ReadyQueue(r) = ReadyQueue(s) /\ r.len = s.len
<1> DEFINE r == ReapAll(s)
           f == [t \in ThreadId |-> IF s.states[t] = "Exited" THEN "Unused" ELSE s.states[t]]
           g == [t \in ThreadId |-> IF s.states[t] = "Exited" THEN "Normal" ELSE s.kinds[t]]
<1>1. /\ s \in SchedulerStruct
      /\ s.states \in [ThreadId -> ThreadState] /\ s.kinds \in [ThreadId -> ThreadKind]
  BY StructFields DEF SchedInv
<1>2. f \in [ThreadId -> ThreadState] /\ g \in [ThreadId -> ThreadKind]
  BY <1>1 DEF ThreadState, ThreadKind
<1>3. r = [s EXCEPT !.states = f, !.kinds = g]
  BY DEF ReapAll
<1>4. /\ r \in SchedulerStruct
      /\ r.states = f /\ r.kinds = g
      /\ r.queue = s.queue /\ r.head = s.head /\ r.len = s.len
      /\ r.current = s.current /\ r.idle = s.idle
  <2> HIDE DEF r, f, g
  <2> QED
    BY ZenonT(60), <1>1, <1>2, <1>3 DEF SchedulerStruct
<1> HIDE DEF r
<1>5. ReadyQueue(r) = ReadyQueue(s)
  BY <1>4 DEF ReadyQueue, RingSlot
<1>6. ReadySet(r) = ReadySet(s)
  BY <1>1, <1>4 DEF ReadySet, ThreadsIn
<1>7. QueueHolds(r, ReadySet(r))
  BY <1>4, <1>6, SameRing DEF SchedInv
<1>8. RunsOnlyCurrent(r)
  BY <1>1, <1>4 DEF SchedInv, RunsOnlyCurrent, ThreadsIn
<1>9. IdleAvailable(r)
  BY <1>1, <1>4, NoThreadIsNoThread DEF SchedInv, IdleAvailable
<1>10. EmptyBeforeBoot(r)
  BY <1>1, <1>4 DEF SchedInv, EmptyBeforeBoot
<1> QED
  BY <1>4, <1>5, <1>7, <1>8, <1>9, <1>10 DEF SchedInv, r

\* The empty scheduler satisfies the invariant.
LEMMA NewInv == SchedInv(New)
<1>1. New \in SchedulerStruct
  BY MaxThreadsAssumption, CounterModAssumption
  DEF New, SchedulerStruct, ThreadId, ThreadState, ThreadKind, Counter
<1>2. /\ New.len = 0 /\ New.current = NO_THREAD /\ New.idle = NO_THREAD
      /\ \A t \in ThreadId : New.states[t] = "Unused" /\ New.kinds[t] = "Normal"
  BY DEF New
<1>3. ReadySet(New) = {}
  BY <1>2 DEF ReadySet, ThreadsIn
<1>4. QueueHolds(New, ReadySet(New))
  BY <1>2, <1>3 DEF QueueHolds
<1> QED
  BY <1>1, <1>2, <1>4 DEF SchedInv, RunsOnlyCurrent, IdleAvailable, EmptyBeforeBoot, ThreadsIn

-----------------------------------------------------------------------------
(* The ring as a sequence *)

\* A sequence given by its entries.
LEMMA SeqOf ==
    ASSUME NEW S, NEW n \in Nat, NEW f \in [1 .. n -> S]
    PROVE  f \in Seq(S) /\ Len(f) = n
OBVIOUS

\* Sequences with the same elements are the same.
LEMMA SameSeq ==
    ASSUME NEW S, NEW p \in Seq(S), NEW q \in Seq(S), Len(p) = Len(q),
           \A i \in 1 .. Len(p) : p[i] = q[i]
    PROVE  p = q
OBVIOUS

\* What is appended to a queue in use does not reach its head.
LEMMA AppendBehind ==
    ASSUME NEW S, NEW q \in Seq(S), q # <<>>, NEW e \in S
    PROVE  /\ Head(Append(q, e)) = Head(q)
           /\ Tail(Append(q, e)) = Append(Tail(q), e)
OBVIOUS

\* ready_queue() is a sequence of threads, as long as the ring says.
LEMMA QueueIsSeq ==
    ASSUME NEW s \in SchedulerStruct, NEW R \in SUBSET ThreadId, QueueHolds(s, R)
    PROVE  ReadyQueue(s) \in Seq(ThreadId) /\ Len(ReadyQueue(s)) = s.len
<1>1. s.len \in Nat
  BY StructFields, MaxThreadsAssumption
<1>2. \A i \in 1 .. s.len : ReadyQueue(s)[i] \in ThreadId
  BY DEF QueueHolds
<1>3. ReadyQueue(s) \in [1 .. s.len -> ThreadId]
  BY ZenonT(60), <1>2 DEF ReadyQueue
<1> QED
  BY <1>1, <1>3, SeqOf

\* enqueue appends.
LEMMA EnqueueSeq ==
    ASSUME NEW s \in SchedulerStruct, NEW R \in SUBSET ThreadId,
           QueueHolds(s, R), NEW id \in ThreadId, id \notin R
    PROVE  ReadyQueue(Enqueue(s, id)) = Append(ReadyQueue(s), id)
<1> DEFINE q == ReadyQueue(s)
           e == Enqueue(s, id)
           r == ReadyQueue(e)
<1>1. /\ s.len < MAX_THREADS
      /\ QueueHolds(e, R \cup {id})
      /\ \A i \in 1 .. s.len : r[i] = q[i]
      /\ r[s.len + 1] = id
  BY EnqueueHolds
<1>2. e \in SchedulerStruct /\ e.len = s.len + 1
  BY ZenonT(60), <1>1, EnqueueFields
<1>3. q \in Seq(ThreadId) /\ Len(q) = s.len /\ s.len \in Nat
  BY QueueIsSeq, StructFields, MaxThreadsAssumption
<1> HIDE DEF e, q
<1>4. r \in Seq(ThreadId) /\ Len(r) = s.len + 1
  BY <1>1, <1>2, QueueIsSeq
<1> HIDE DEF r
<1>5. Append(q, id) \in Seq(ThreadId) /\ Len(Append(q, id)) = s.len + 1
  BY <1>3
<1>6. ASSUME NEW i \in 1 .. (s.len + 1)
      PROVE  r[i] = Append(q, id)[i]
  BY <1>1, <1>3
<1>7. r = Append(q, id)
  BY <1>4, <1>5, <1>6, SameSeq
<1> QED
  BY <1>7 DEF r, e, q

\* dequeue takes the head off.
LEMMA DequeueSeq ==
    ASSUME NEW s \in SchedulerStruct, NEW R \in SUBSET ThreadId,
           QueueHolds(s, R), s.len > 0
    PROVE  /\ ReadyQueue(s) # <<>>
           /\ QueueHead(s) = Head(ReadyQueue(s))
           /\ ReadyQueue(Dequeue(s)) = Tail(ReadyQueue(s))
<1> DEFINE q == ReadyQueue(s)
           d == Dequeue(s)
           r == ReadyQueue(d)
<1>1. /\ QueueHead(s) = q[1]
      /\ QueueHolds(d, R \ {QueueHead(s)})
      /\ \A i \in 1 .. (s.len - 1) : r[i] = q[i + 1]
  BY DequeueHolds
<1>2. d \in SchedulerStruct /\ d.len = s.len - 1
  BY ZenonT(60), DequeueFields
<1>3. q \in Seq(ThreadId) /\ Len(q) = s.len /\ s.len \in Nat
  BY QueueIsSeq, StructFields, MaxThreadsAssumption
<1> HIDE DEF d, q
<1>4. r \in Seq(ThreadId) /\ Len(r) = s.len - 1
  <2>1. R \ {QueueHead(s)} \in SUBSET ThreadId
    OBVIOUS
  <2> QED
    BY <1>1, <1>2, <2>1, QueueIsSeq
<1> HIDE DEF r
<1>5. q # <<>> /\ Head(q) = q[1]
  BY <1>3
<1>6. /\ Tail(q) \in Seq(ThreadId) /\ Len(Tail(q)) = s.len - 1
      /\ \A i \in 1 .. (s.len - 1) : Tail(q)[i] = q[i + 1]
  BY <1>3, <1>5
<1>7. r = Tail(q)
  BY <1>1, <1>4, <1>6, SameSeq
<1> QED
  BY <1>1, <1>5, <1>7 DEF r, d, q

-----------------------------------------------------------------------------
(* What the methods do *)

\* What the queue, the ring and the table have in common under the invariant.
LEMMA InvFacts ==
    ASSUME NEW s, SchedInv(s)
    PROVE  /\ s \in SchedulerStruct
           /\ s.states \in [ThreadId -> ThreadState] /\ s.kinds \in [ThreadId -> ThreadKind]
           /\ s.len \in Nat
           /\ ReadySet(s) \in SUBSET ThreadId
           /\ QueueHolds(s, ReadySet(s))
           /\ ReadyQueue(s) \in Seq(ThreadId) /\ Len(ReadyQueue(s)) = s.len
           /\ s.current # NO_THREAD => s.current \in ThreadId /\ s.states[s.current] = "Running"
           /\ s.current # NO_THREAD => (s.kinds[s.current] = "Idle" <=> s.current = s.idle)
<1>1. s \in SchedulerStruct /\ QueueHolds(s, ReadySet(s))
  BY DEF SchedInv
<1>2. ReadySet(s) \in SUBSET ThreadId
  BY DEF ReadySet, ThreadsIn
<1>3. ReadyQueue(s) \in Seq(ThreadId) /\ Len(ReadyQueue(s)) = s.len
  BY <1>1, <1>2, QueueIsSeq
<1>4. /\ s.states \in [ThreadId -> ThreadState] /\ s.kinds \in [ThreadId -> ThreadKind]
      /\ s.len \in Nat
      /\ s.current \in ThreadId \cup {NO_THREAD}
  BY <1>1, StructFields, MaxThreadsAssumption
<1>5. s.current # NO_THREAD => s.current \in ThreadId /\ s.states[s.current] = "Running"
  BY <1>4 DEF SchedInv, RunsOnlyCurrent, ThreadsIn
<1>6. s.current # NO_THREAD => (s.kinds[s.current] = "Idle" <=> s.current = s.idle)
  BY <1>4 DEF SchedInv, IdleAvailable
<1> QED
  BY <1>1, <1>2, <1>3, <1>4, <1>5, <1>6

\* rotate with somebody ready: the head of the FIFO runs, the thread that ran
\* goes to the tail, unless it is the idle thread.
LEMMA RotateEffect ==
    ASSUME NEW s, SchedInv(s), s.current # NO_THREAD, s.len > 0,
           NEW to, to = Head(ReadyQueue(s))
    PROVE  LET r == Rotate(s).sched
           IN  /\ to \in ReadySet(s) /\ ReadyQueue(s) # <<>>
               /\ Rotate(s).ret = Switch(s.current, to)
               /\ r.current = to /\ r.idle = s.idle /\ r.kinds = s.kinds
               /\ r.states = [s.states EXCEPT ![s.current] = "Ready", ![to] = "Running"]
               /\ ReadyQueue(r) = IF s.current = s.idle
                                  THEN Tail(ReadyQueue(s))
                                  ELSE Append(Tail(ReadyQueue(s)), s.current)
<1> DEFINE from   == s.current
           q      == ReadyQueue(s)
           parked == SetState(s, from, "Ready")
           queued == IF s.kinds[from] = "Idle" THEN parked ELSE Enqueue(parked, from)
           d      == Dequeue(queued)
           r      == SwitchTo(d, to)
<1>1. /\ s \in SchedulerStruct
      /\ s.states \in [ThreadId -> ThreadState]
      /\ s.len \in Nat
      /\ ReadySet(s) \in SUBSET ThreadId
      /\ QueueHolds(s, ReadySet(s))
      /\ q \in Seq(ThreadId) /\ Len(q) = s.len
      /\ from \in ThreadId /\ s.states[from] = "Running"
      /\ s.kinds[from] = "Idle" <=> from = s.idle
  BY InvFacts
<1>2. q # <<>> /\ to \in ReadySet(s)
  BY ZenonT(60), <1>1, DequeueSeq, DequeueHolds
<1>3. /\ parked \in SchedulerStruct
      /\ parked.states = [s.states EXCEPT ![from] = "Ready"]
      /\ parked.kinds = s.kinds
      /\ parked.queue = s.queue /\ parked.head = s.head /\ parked.len = s.len
      /\ parked.idle = s.idle
  BY ZenonT(60), <1>1, SetStateFields DEF ThreadState
<1>4. Rotate(s) = Ok(SwitchTo(Dequeue(queued), QueueHead(queued)),
                     Switch(from, QueueHead(queued)))
  BY DEF Rotate
<1> HIDE DEF parked
<1>5. ReadyQueue(parked) = q /\ QueueHolds(parked, ReadySet(s))
  <2>1. ReadyQueue(parked) = q
    BY <1>3 DEF ReadyQueue, RingSlot
  <2> QED
    BY <1>1, <1>3, <2>1, SameRing
<1>6. /\ queued \in SchedulerStruct /\ queued.len > 0
      /\ queued.states = parked.states /\ queued.kinds = s.kinds /\ queued.idle = s.idle
      /\ \E R \in SUBSET ThreadId : QueueHolds(queued, R)
      /\ ReadyQueue(queued) = IF from = s.idle THEN q ELSE Append(q, from)
  <2>1. CASE s.kinds[from] = "Idle"
    BY <1>1, <1>3, <1>5, <2>1
  <2>2. CASE s.kinds[from] # "Idle"
    <3>1. from \notin ReadySet(s)
      BY <1>1 DEF ReadySet, ThreadsIn
    <3>2. /\ parked.len < MAX_THREADS
          /\ QueueHolds(Enqueue(parked, from), ReadySet(s) \cup {from})
          /\ ReadyQueue(Enqueue(parked, from)) = Append(q, from)
      <4>1. PICK R \in SUBSET ThreadId : R = ReadySet(s)
        BY <1>1
      <4>2. /\ parked \in SchedulerStruct /\ QueueHolds(parked, R)
            /\ from \in ThreadId /\ from \notin R /\ ReadyQueue(parked) = q
        BY <1>1, <1>3, <1>5, <3>1, <4>1
      <4> HIDE DEF from, q
      <4>3. parked.len < MAX_THREADS /\ QueueHolds(Enqueue(parked, from), R \cup {from})
        BY <4>2, EnqueueHolds
      <4>4. ReadyQueue(Enqueue(parked, from)) = Append(ReadyQueue(parked), from)
        BY <4>2, EnqueueSeq
      <4> QED
        BY <4>1, <4>2, <4>3, <4>4
    <3>3. /\ Enqueue(parked, from) \in SchedulerStruct
          /\ Enqueue(parked, from).len = parked.len + 1
          /\ Enqueue(parked, from).states = parked.states
          /\ Enqueue(parked, from).kinds = parked.kinds
          /\ Enqueue(parked, from).idle = parked.idle
      BY ZenonT(60), <1>1, <1>3, <3>2, EnqueueFields
    <3>4. ReadySet(s) \cup {from} \in SUBSET ThreadId /\ parked.len + 1 > 0
      BY <1>1, <1>3
    <3> QED
      BY ZenonT(60), <1>1, <1>3, <2>2, <3>2, <3>3, <3>4
  <2> QED
    BY <2>1, <2>2
<1> HIDE DEF queued
<1>7. /\ QueueHead(queued) = Head(ReadyQueue(queued))
      /\ ReadyQueue(d) = Tail(ReadyQueue(queued))
  BY <1>6, DequeueSeq
<1>8. /\ QueueHead(queued) = to
      /\ ReadyQueue(d) = IF from = s.idle THEN Tail(q) ELSE Append(Tail(q), from)
  <2>1. q \in Seq(ThreadId) /\ q # <<>> /\ from \in ThreadId /\ to = Head(q)
    BY <1>1, <1>2
  <2>2. ReadyQueue(queued) = IF from = s.idle THEN q ELSE Append(q, from)
    BY <1>6
  <2> HIDE DEF q, from, d
  <2>3. Head(Append(q, from)) = Head(q) /\ Tail(Append(q, from)) = Append(Tail(q), from)
    BY ZenonT(60), <2>1, AppendBehind
  <2> QED
    BY ZenonT(60), <1>7, <2>1, <2>2, <2>3
<1>9. /\ d \in SchedulerStruct
      /\ d.states = parked.states /\ d.kinds = s.kinds /\ d.idle = s.idle
  BY ZenonT(60), <1>6, DequeueFields
<1>10. to \in ThreadId
  BY <1>1, <1>2
<1> HIDE DEF d
<1>11. /\ r.states = [d.states EXCEPT ![to] = "Running"]
       /\ r.kinds = d.kinds
       /\ r.queue = d.queue /\ r.head = d.head /\ r.len = d.len
       /\ r.current = to /\ r.idle = d.idle
  BY <1>9, <1>10, SwitchToFields
<1>12. Rotate(s) = Ok(r, Switch(from, to))
  BY <1>4, <1>8 DEF d
<1> HIDE DEF r
<1>13. ReadyQueue(r) = ReadyQueue(d)
  BY <1>11 DEF ReadyQueue, RingSlot
<1>14. Rotate(s).sched = r /\ Rotate(s).ret = Switch(from, to)
  BY <1>12 DEF Ok
<1> QED
  BY <1>2, <1>3, <1>8, <1>9, <1>11, <1>13, <1>14

\* exit_current: the head of the FIFO runs, the idle thread if nobody waits.
LEMMA ExitEffect ==
    ASSUME NEW s, SchedInv(s), s.current # NO_THREAD,
           s.len > 0 \/ s.idle # NO_THREAD, s.current # s.idle,
           NEW to, to = IF s.len > 0 THEN Head(ReadyQueue(s)) ELSE s.idle
    PROVE  LET r == ExitCurrent(s).sched
           IN  /\ to \in ThreadId /\ to # s.current
               /\ s.len > 0 => to \in ReadySet(s) /\ ReadyQueue(s) # <<>>
               /\ s.len = 0 => ReadyQueue(s) = <<>>
               /\ ExitCurrent(s).ret = Switch(s.current, to)
               /\ r.current = to /\ r.idle = s.idle /\ r.kinds = s.kinds
               /\ r.states = [s.states EXCEPT ![s.current] = "Exited", ![to] = "Running"]
               /\ ReadyQueue(r) = IF s.len > 0 THEN Tail(ReadyQueue(s)) ELSE ReadyQueue(s)
<1> DEFINE from    == s.current
           q       == ReadyQueue(s)
           stopped == SetState(s, from, "Exited")
           d       == IF s.len > 0 THEN Dequeue(stopped) ELSE stopped
           r       == SwitchTo(d, to)
<1>1. /\ s \in SchedulerStruct
      /\ s.states \in [ThreadId -> ThreadState]
      /\ s.len \in Nat
      /\ ReadySet(s) \in SUBSET ThreadId
      /\ QueueHolds(s, ReadySet(s))
      /\ q \in Seq(ThreadId) /\ Len(q) = s.len
      /\ from \in ThreadId /\ s.states[from] = "Running"
  BY InvFacts
<1>2. s.len = 0 => s.idle \in ThreadId
  BY <1>1, StructFields
<1>3. /\ stopped \in SchedulerStruct
      /\ stopped.states = [s.states EXCEPT ![from] = "Exited"]
      /\ stopped.kinds = s.kinds
      /\ stopped.queue = s.queue /\ stopped.head = s.head /\ stopped.len = s.len
      /\ stopped.idle = s.idle
  BY ZenonT(60), <1>1, SetStateFields DEF ThreadState
<1>4. ExitCurrent(s) =
          IF s.len > 0
          THEN Ok(SwitchTo(Dequeue(stopped), QueueHead(stopped)),
                  Switch(from, QueueHead(stopped)))
          ELSE Ok(SwitchTo(stopped, s.idle), Switch(from, s.idle))
  BY <1>1 DEF ExitCurrent
<1> HIDE DEF stopped
<1>5. ReadyQueue(stopped) = q /\ QueueHolds(stopped, ReadySet(s))
  <2>1. ReadyQueue(stopped) = q
    BY <1>3 DEF ReadyQueue, RingSlot
  <2> QED
    BY <1>1, <1>3, <2>1, SameRing
<1>6. CASE s.len > 0
  <2>1. q # <<>> /\ to \in ReadySet(s)
    BY ZenonT(60), <1>1, <1>6, DequeueSeq, DequeueHolds
  <2>2. QueueHead(stopped) = to /\ ReadyQueue(Dequeue(stopped)) = Tail(q)
    BY <1>1, <1>3, <1>5, <1>6, DequeueSeq
  <2>3. /\ d \in SchedulerStruct
        /\ d.states = stopped.states /\ d.kinds = s.kinds /\ d.idle = s.idle
    BY ZenonT(60), <1>3, <1>6, DequeueFields
  <2>4. to # from
    BY <1>1, <2>1 DEF ReadySet, ThreadsIn
  <2>5. ExitCurrent(s) = Ok(r, Switch(from, to)) /\ ReadyQueue(d) = Tail(q)
    BY <1>4, <1>6, <2>2
  <2> HIDE DEF d
  <2>6. /\ r.states = [d.states EXCEPT ![to] = "Running"]
        /\ r.kinds = d.kinds
        /\ r.queue = d.queue /\ r.head = d.head /\ r.len = d.len
        /\ r.current = to /\ r.idle = d.idle
    BY ZenonT(60), <1>1, <2>1, <2>3, SwitchToFields
  <2> HIDE DEF r
  <2>7. ReadyQueue(r) = ReadyQueue(d)
    BY <2>6 DEF ReadyQueue, RingSlot
  <2>8. ExitCurrent(s).sched = r /\ ExitCurrent(s).ret = Switch(from, to)
    BY <2>5 DEF Ok
  <2>9. r.states = [s.states EXCEPT ![from] = "Exited", ![to] = "Running"]
    BY <1>3, <2>3, <2>6
  <2>10. to \in ThreadId /\ s.len # 0
    BY <1>1, <1>6, <2>1
  <2> QED
    BY ZenonT(60), <1>6, <2>1, <2>3, <2>4, <2>5, <2>6, <2>7, <2>8, <2>9, <2>10
<1>7. CASE s.len = 0
  <2>1. /\ d = stopped /\ to = s.idle /\ q = <<>> /\ to # from
        /\ ExitCurrent(s) = Ok(r, Switch(from, to))
    BY <1>1, <1>4, <1>7
  <2> HIDE DEF d
  <2>2. /\ r.states = [d.states EXCEPT ![to] = "Running"]
        /\ r.kinds = d.kinds
        /\ r.queue = d.queue /\ r.head = d.head /\ r.len = d.len
        /\ r.current = to /\ r.idle = d.idle
    BY <1>2, <1>3, <1>7, <2>1, SwitchToFields
  <2> HIDE DEF r
  <2>3. ReadyQueue(r) = q
    BY ZenonT(60), <1>5, <2>1, <2>2 DEF ReadyQueue, RingSlot
  <2>4. ExitCurrent(s).sched = r /\ ExitCurrent(s).ret = Switch(from, to)
    BY <2>1 DEF Ok
  <2> QED
    BY <1>2, <1>3, <1>7, <2>1, <2>2, <2>3, <2>4
<1> QED
  BY <1>1, <1>6, <1>7

\* create with a free slot: the lowest one, queued at the tail.
LEMMA CreateEffect ==
    ASSUME NEW s, SchedInv(s), ThreadsIn(s, "Unused") # {},
           NEW id, id = FirstIn(s, "Unused")
    PROVE  LET r == Create(s).sched
           IN  /\ id \in ThreadId /\ s.states[id] = "Unused"
               /\ Create(s).ret = id
               /\ r.current = s.current /\ r.idle = s.idle
               /\ r.states = [s.states EXCEPT ![id] = "Ready"]
               /\ r.kinds = [s.kinds EXCEPT ![id] = "Normal"]
               /\ ReadyQueue(r) = Append(ReadyQueue(s), id)
<1> DEFINE p == SetSlot(s, id, "Ready", "Normal")
           r == Enqueue(p, id)
<1>1. id \in ThreadId /\ s.states[id] = "Unused" /\ s \in SchedulerStruct
  BY FirstInMember DEF SchedInv, ThreadsIn
<1>2. Create(s) = Ok(r, id)
  BY DEF Create
<1>3. /\ p \in SchedulerStruct
      /\ p.states = [s.states EXCEPT ![id] = "Ready"]
      /\ p.kinds = [s.kinds EXCEPT ![id] = "Normal"]
      /\ p.queue = s.queue /\ p.head = s.head /\ p.len = s.len
      /\ p.current = s.current /\ p.idle = s.idle
  <2>1. "Ready" \in ThreadState /\ "Normal" \in ThreadKind
    BY DEF ThreadState, ThreadKind
  <2> QED
    BY <1>1, <2>1, SetSlotFields
<1> HIDE DEF p
<1>4. PICK R \in SUBSET ThreadId : QueueHolds(s, R) /\ id \notin R
  BY <1>1 DEF SchedInv, ReadySet, ThreadsIn
<1>5. QueueHolds(p, R)
  BY <1>3, <1>4, SameRing
<1>6. p.len < MAX_THREADS /\ ReadyQueue(r) = Append(ReadyQueue(p), id)
  BY ZenonT(60), <1>1, <1>3, <1>4, <1>5, EnqueueHolds, EnqueueSeq
<1>7. ReadyQueue(p) = ReadyQueue(s)
  BY <1>3 DEF ReadyQueue, RingSlot
<1>8. /\ r.states = p.states /\ r.kinds = p.kinds
      /\ r.current = p.current /\ r.idle = p.idle
  BY ZenonT(60), <1>1, <1>3, <1>6, EnqueueFields
<1> HIDE DEF r
<1>9. Create(s).sched = r /\ Create(s).ret = id
  BY <1>2 DEF Ok
<1> QED
  BY <1>1, <1>3, <1>6, <1>7, <1>8, <1>9

\* register_idle accepted: the slot waits outside the queue.
LEMMA RegisterIdleEffect ==
    ASSUME NEW s, SchedInv(s), NEW id \in ThreadId,
           s.idle = NO_THREAD, s.states[id] = "Unused"
    PROVE  LET r == RegisterIdle(s, id).sched
           IN  /\ RegisterIdle(s, id).ret = id
               /\ r.current = s.current /\ r.idle = id
               /\ r.states = [s.states EXCEPT ![id] = "Ready"]
               /\ r.kinds = [s.kinds EXCEPT ![id] = "Idle"]
               /\ ReadyQueue(r) = ReadyQueue(s)
<1> DEFINE p == SetSlot(s, id, "Ready", "Idle")
           r == [p EXCEPT !.idle = id]
<1>1. s \in SchedulerStruct /\ "Ready" \in ThreadState /\ "Idle" \in ThreadKind
  BY DEF SchedInv, ThreadState, ThreadKind
<1>2. /\ p \in SchedulerStruct
      /\ p.states = [s.states EXCEPT ![id] = "Ready"]
      /\ p.kinds = [s.kinds EXCEPT ![id] = "Idle"]
      /\ p.queue = s.queue /\ p.head = s.head /\ p.len = s.len
      /\ p.current = s.current
  BY <1>1, SetSlotFields
<1>3. RegisterIdle(s, id) = Ok(r, id)
  BY DEF RegisterIdle
<1> HIDE DEF p
<1>4. /\ r.states = p.states /\ r.kinds = p.kinds
      /\ r.queue = p.queue /\ r.head = p.head /\ r.len = p.len
      /\ r.current = p.current /\ r.idle = id
  BY <1>2 DEF SchedulerStruct
<1> HIDE DEF r
<1>5. ReadyQueue(r) = ReadyQueue(s)
  BY <1>2, <1>4 DEF ReadyQueue, RingSlot
<1>6. RegisterIdle(s, id).sched = r /\ RegisterIdle(s, id).ret = id
  BY <1>3 DEF Ok
<1> QED
  BY <1>2, <1>4, <1>5, <1>6

\* register_boot: the slot becomes the running thread.
LEMMA RegisterBootEffect ==
    ASSUME NEW s, SchedInv(s), NEW id \in ThreadId
    PROVE  LET r == RegisterBoot(s, id)
           IN  /\ r.current = id /\ r.idle = s.idle
               /\ r.states = [s.states EXCEPT ![id] = "Running"]
               /\ r.kinds = [s.kinds EXCEPT ![id] = "Boot"]
               /\ ReadyQueue(r) = ReadyQueue(s)
<1> DEFINE p == SetSlot(s, id, "Running", "Boot")
           r == RegisterBoot(s, id)
<1>1. s \in SchedulerStruct /\ "Running" \in ThreadState /\ "Boot" \in ThreadKind
  BY DEF SchedInv, ThreadState, ThreadKind
<1>2. /\ p \in SchedulerStruct
      /\ p.states = [s.states EXCEPT ![id] = "Running"]
      /\ p.kinds = [s.kinds EXCEPT ![id] = "Boot"]
      /\ p.queue = s.queue /\ p.head = s.head /\ p.len = s.len
      /\ p.idle = s.idle
  BY <1>1, SetSlotFields
<1>3. r = [p EXCEPT !.current = id]
  BY DEF RegisterBoot
<1> HIDE DEF p, r
<1>4. /\ r.states = p.states /\ r.kinds = p.kinds
      /\ r.queue = p.queue /\ r.head = p.head /\ r.len = p.len
      /\ r.current = id /\ r.idle = p.idle
  BY <1>2, <1>3 DEF SchedulerStruct
<1>5. ReadyQueue(r) = ReadyQueue(s)
  BY <1>2, <1>4 DEF ReadyQueue, RingSlot
<1> QED
  BY <1>2, <1>4, <1>5 DEF r

\* take_reapable with an exited thread: its slot is free again.
LEMMA TakeReapableEffect ==
    ASSUME NEW s, SchedInv(s), ThreadsIn(s, "Exited") # {},
           NEW id, id = FirstIn(s, "Exited")
    PROVE  LET r == TakeReapable(s).sched
           IN  /\ id \in ThreadId /\ s.states[id] = "Exited"
               /\ TakeReapable(s).ret = id
               /\ r.current = s.current /\ r.idle = s.idle
               /\ r.states = [s.states EXCEPT ![id] = "Unused"]
               /\ r.kinds = [s.kinds EXCEPT ![id] = "Normal"]
               /\ ReadyQueue(r) = ReadyQueue(s)
<1> DEFINE r == SetSlot(s, id, "Unused", "Normal")
<1>1. id \in ThreadId /\ s.states[id] = "Exited" /\ s \in SchedulerStruct
  BY FirstInMember DEF SchedInv, ThreadsIn
<1>2. TakeReapable(s) = Ok(r, id)
  BY DEF TakeReapable
<1>3. "Unused" \in ThreadState /\ "Normal" \in ThreadKind
  BY DEF ThreadState, ThreadKind
<1>4. /\ r.states = [s.states EXCEPT ![id] = "Unused"]
      /\ r.kinds = [s.kinds EXCEPT ![id] = "Normal"]
      /\ r.queue = s.queue /\ r.head = s.head /\ r.len = s.len
      /\ r.current = s.current /\ r.idle = s.idle
  BY <1>1, <1>3, SetSlotFields
<1> HIDE DEF r
<1>5. ReadyQueue(r) = ReadyQueue(s)
  BY <1>4 DEF ReadyQueue, RingSlot
<1>6. TakeReapable(s).sched = r /\ TakeReapable(s).ret = id
  BY <1>2 DEF Ok
<1> QED
  BY <1>1, <1>4, <1>5, <1>6

-----------------------------------------------------------------------------
(* Decisions *)

\* rotate.
LEMMA RotateOutcome ==
    ASSUME NEW b \in ThreadId, NEW s, SchedPart(s, b)
    PROVE  Outcome(s, Rotate(s), b)
<1>1. SchedInv(s) /\ s.current # NO_THREAD /\ s.len \in Nat
  BY InvFacts, NoThreadIsNoThread DEF SchedPart
<1>2. SchedInv(Rotate(s).sched)
  BY <1>1, RotateInv
<1>3. CASE s.len = 0
  <2>1. Rotate(s) = Ok(s, Keep)
    BY <1>3 DEF Rotate
  <2>2. Rotate(s).sched = s /\ Rotate(s).ret.tag = "Keep"
    BY <2>1 DEF Ok, Keep
  <2> QED
    BY <1>1, <2>2 DEF Outcome, Kept
<1>4. CASE s.len > 0
  <2>1. PICK to : to = Head(ReadyQueue(s))
    OBVIOUS
  <2>2. LET r == Rotate(s).sched
        IN  /\ to \in ReadySet(s)
            /\ Rotate(s).ret = Switch(s.current, to)
            /\ r.current = to /\ r.idle = s.idle /\ r.kinds = s.kinds
            /\ r.states = [s.states EXCEPT ![s.current] = "Ready", ![to] = "Running"]
    BY <1>1, <1>4, <2>1, RotateEffect
  <2>3. to # s.current
    BY ZenonT(60), <1>1, <2>2, InvFacts DEF ReadySet, ThreadsIn
  <2>4. /\ Rotate(s).ret.tag = "Switch" /\ Rotate(s).ret.from = s.current
        /\ Rotate(s).ret.to = to
    BY <2>2 DEF Switch
  <2>5. Switched(s, Rotate(s), to, "Ready", b)
    BY ZenonT(60), <1>2, <2>2, <2>3, <2>4 DEF Switched
  <2> QED
    BY <2>5 DEF Outcome
<1> QED
  BY <1>1, <1>3, <1>4

\* on_tick.
LEMMA OnTickOutcome ==
    ASSUME NEW b \in ThreadId, NEW s, SchedPart(s, b), NEW reschedule \in BOOLEAN
    PROVE  Outcome(s, OnTick(s, reschedule), b)
<1>1. PICK c : c = [s EXCEPT !.ticks = (s.ticks + 1) % COUNTER_MOD]
  BY ZenonT(60)
<1>2. /\ SchedInv(c)
      /\ c.states = s.states /\ c.kinds = s.kinds
      /\ c.current = s.current /\ c.idle = s.idle
  BY <1>1, TickCounted DEF SchedPart
<1>3. SchedPart(c, b) /\ ReadySet(c) = ReadySet(s)
  BY <1>2 DEF SchedPart, ReadySet, ThreadsIn
<1>4. OnTick(s, reschedule) = IF reschedule THEN Rotate(c) ELSE Ok(c, Keep)
  BY <1>1 DEF OnTick
<1>5. CASE reschedule
  <2>1. Outcome(c, Rotate(c), b)
    BY <1>3, RotateOutcome
  <2>2. PICK r : r = Rotate(c)
    OBVIOUS
  <2>3. Kept(c, r) => Kept(s, r)
    BY <1>2 DEF Kept
  <2>4. ASSUME NEW to, NEW x, Switched(c, r, to, x, b) PROVE Switched(s, r, to, x, b)
    BY <1>2, <1>3, <2>4 DEF Switched
  <2>5. Outcome(s, r, b)
    BY <2>1, <2>2, <2>3, <2>4 DEF Outcome
  <2> QED
    BY <1>4, <1>5, <2>2, <2>5
<1>6. CASE ~ reschedule
  <2>1. OnTick(s, reschedule).sched = c /\ OnTick(s, reschedule).ret.tag = "Keep"
    BY <1>4, <1>6 DEF Ok, Keep
  <2> QED
    BY <1>2, <2>1 DEF Outcome, Kept
<1> QED
  BY <1>5, <1>6

\* exit_current: with boot ready there is somebody to run.
LEMMA ExitOutcome ==
    ASSUME NEW b \in ThreadId, NEW s, SchedPart(s, b), s.current # b
    PROVE  Outcome(s, ExitCurrent(s), b) /\ ExitCurrent(s).ret.tag = "Switch"
<1>1. SchedInv(s) /\ s.current # NO_THREAD /\ s.current # s.idle
  BY NoThreadIsNoThread DEF SchedPart
<1>2. /\ s.len \in Nat /\ QueueHolds(s, ReadySet(s))
      /\ s.states \in [ThreadId -> ThreadState] /\ s.states[s.current] = "Running"
  BY <1>1, InvFacts
<1>3. b \in ReadySet(s)
  BY <1>1 DEF SchedPart, SchedInv, RunsOnlyCurrent, ReadySet, ThreadsIn
<1>4. s.len > 0
  BY <1>2, <1>3 DEF QueueHolds
<1>5. PICK to : to = IF s.len > 0 THEN Head(ReadyQueue(s)) ELSE s.idle
  OBVIOUS
<1>6. LET r == ExitCurrent(s).sched
      IN  /\ to # s.current /\ to \in ReadySet(s)
          /\ ExitCurrent(s).ret = Switch(s.current, to)
          /\ r.current = to /\ r.idle = s.idle /\ r.kinds = s.kinds
          /\ r.states = [s.states EXCEPT ![s.current] = "Exited", ![to] = "Running"]
  BY ZenonT(60), <1>1, <1>4, <1>5, ExitEffect
<1>7. SchedInv(ExitCurrent(s).sched)
  BY <1>1, <1>4, ExitCurrentInv
<1>8. /\ ExitCurrent(s).ret.tag = "Switch" /\ ExitCurrent(s).ret.from = s.current
      /\ ExitCurrent(s).ret.to = to
  BY <1>6 DEF Switch
<1>9. Switched(s, ExitCurrent(s), to, "Exited", b)
  BY <1>6, <1>7, <1>8 DEF Switched
<1> QED
  BY <1>8, <1>9 DEF Outcome

\* Whatever the decision, boot stays there and the idle thread stays out.
LEMMA OutcomePart ==
    ASSUME NEW b \in ThreadId, NEW s, SchedPart(s, b), NEW r, Outcome(s, r, b)
    PROVE  SchedPart(r.sched, b)
<1>1. CASE Kept(s, r)
  BY <1>1 DEF Kept, SchedPart
<1>2. ASSUME NEW to, NEW x, Switched(s, r, to, x, b) PROVE SchedPart(r.sched, b)
  <2>1. SchedInv(s) /\ s.current \in ThreadId /\ s.states \in [ThreadId -> ThreadState]
    BY ZenonT(60), InvFacts DEF SchedPart
  <2>2. to \in ThreadId /\ s.kinds[to] # "Idle" /\ to # s.idle
    BY <1>2, <2>1, NoThreadIsNoThread
    DEF Switched, ReadySet, ThreadsIn, SchedInv, IdleAvailable
  <2>3. r.sched.states[b] \in {"Ready", "Running"}
    BY ZenonT(60), <1>2, <2>1, <2>2 DEF Switched, SchedPart
  <2> QED
    BY <1>2, <2>2, <2>3 DEF Switched, SchedPart
<1> QED
  BY <1>1, <1>2 DEF Outcome

\* take_reapable until nothing is left.
LEMMA ReapAllPart ==
    ASSUME NEW b \in ThreadId, NEW s, SchedPart(s, b)
    PROVE  SchedPart(ReapAll(s), b) /\ ReapAll(s).current = s.current
<1>1. SchedInv(s)
  BY ZenonT(60) DEF SchedPart
<1>2. LET r == ReapAll(s)
      IN  /\ SchedInv(r)
          /\ r.states = [t \in ThreadId |-> IF s.states[t] = "Exited"
                                            THEN "Unused" ELSE s.states[t]]
          /\ r.kinds = [t \in ThreadId |-> IF s.states[t] = "Exited"
                                           THEN "Normal" ELSE s.kinds[t]]
          /\ r.current = s.current /\ r.idle = s.idle
  BY ZenonT(60), <1>1, ReapAllInv
<1> QED
  BY ZenonT(60), <1>2 DEF SchedPart

=============================================================================
