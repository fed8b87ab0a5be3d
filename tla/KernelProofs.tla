---------------------------- MODULE KernelProofs ----------------------------
(***************************************************************************)
(* For every number of threads and of stacks: as long as the timer does    *)
(* not strike inside thread::create, every four-page stack is in exactly   *)
(* one place; and as long as there also is a stack for every slot, the CPU *)
(* follows the scheduler, every waiting thread can be resumed, and         *)
(* TSS.rsp0 belongs to the service that runs.                              *)
(*                                                                         *)
(* The invariants are predicates of explicit arguments, so that a handler  *)
(* can be followed through its intermediate values: the reaped scheduler,  *)
(* the released slots, the saved context.                                  *)
(***************************************************************************)
EXTENDS Kernel, SchedulerOpsProofs

\* A leaf that names no prover goes to the SMT solver, with time to spare.
USE SMTT(60)

-----------------------------------------------------------------------------
(* The inductive invariant *)

\* What holds of every slot: st, pr and hm are the thread's state, its program
\* and the stack it runs on.
SlotOK(t, st, slot, pr, hm) ==
    /\ slot.rsp \in {t, Null, Stale}
    /\ t = BOOT => slot.stack = NoStack /\ slot.user = FALSE /\ hm = BootStack /\ pr = "boot"
    /\ st = "Unused" => slot.stack = NoStack

\* What holds of a slot once its creation is complete.
CompleteOK(t, st, slot, pr, hm) ==
    /\ st = "Ready" => slot.rsp = t /\ slot.fx = t
    /\ st # "Unused" /\ t # BOOT =>
          /\ slot.stack \in Stack /\ slot.top = slot.stack /\ hm = slot.stack
          /\ slot.user <=> pr = "user"

\* All slots, with the thread that is being created.
SlotsPart(states, sl, pr, hm, creating) ==
    /\ sl \in [ThreadId -> Slot]
    /\ pr \in [ThreadId -> Program]
    /\ hm \in [ThreadId -> Stack \cup {NoStack, BootStack}]
    /\ \A t \in ThreadId : SlotOK(t, states[t], sl[t], pr[t], hm[t])
    /\ \A t \in ThreadId \ {creating} : CompleteOK(t, states[t], sl[t], pr[t], hm[t])

BootContext ==
    [stage : BootStage, kind : Program, id : ThreadId \cup {NO_THREAD},
     stack : Stack \cup {NoStack}]

\* Where the creation is; the thread it creates waits, still without a stack.
BootPart(s, sl, c, b) ==
    /\ b \in BootContext
    /\ b.stage \in {"main", "failed"} => b.id = NO_THREAD
    /\ b.stage # "allocated" => b.stack = NoStack
    /\ b.stage = "allocated" => b.stack # NoStack
    /\ b.stage \in {"registered", "allocated"} =>
          /\ b.id \in ThreadId \ {BOOT}
          /\ s.states[b.id] = "Ready"
          /\ sl[b.id].stack = NoStack
          /\ b.kind = "idle" <=> b.id = s.idle
          /\ b.kind # "idle" => c = BOOT

\* Every stack is in one place; f gives the stack in each slot.
Accounted(f, free, creating, service) ==
    /\ free \subseteq Stack
    /\ \A t \in ThreadId : f[t] # NoStack => f[t] \notin free \cup {creating, service}
    /\ \A t, u \in ThreadId : f[t] = f[u] /\ f[t] # NoStack => t = u
    /\ creating # NoStack => creating \notin free /\ creating # service
    /\ service # NoStack => service \notin free
    /\ \A st \in Stack : \/ st \in free \cup {creating, service}
                         \/ \E t \in ThreadId : f[t] = st

StackOf(sl) == [t \in ThreadId |-> sl[t].stack]

Core ==
    /\ SchedPart(sched, BOOT)
    /\ SlotsPart(sched.states, slots, program, home, boot.id)
    /\ BootPart(sched, slots, cpu, boot)
    /\ cpu = sched.current /\ xmm = cpu
    /\ program[cpu] = "user" => rsp0 = slots[cpu].stack

StacksPart == Accounted(StackOf(slots), freeStacks, boot.stack, userStack)

\* A slot by its shape: all that is known of one once a failed creation has
\* left a thread without a stack in the table.
LooseSlot(A, B) ==
    [rsp : A, stack : Stack \cup {NoStack}, top : Stack \cup {NoStack}, user : BOOLEAN, fx : B]

SlotShape(w) == \E A, B : w \in LooseSlot(A, B)

Loose ==
    /\ slots = [t \in ThreadId |-> slots[t]]
    /\ \A t \in ThreadId : SlotShape(slots[t])
    /\ boot.stage = "failed" => boot.stack = NoStack

NoTickInCreate == TICK_IN_CREATE = FALSE

\* A stack for every thread but boot, and one for the service.
EnoughStacks == NUM_STACKS >= MAX_THREADS

\* Inductive for every number of stacks.
StackInv ==
    /\ NoTickInCreate
    /\ Loose
    /\ StacksPart
    /\ boot.stage # "failed" => Core

\* Inductive when there are enough of them.
KernelInv == NoTickInCreate /\ EnoughStacks /\ StacksPart /\ Core

-----------------------------------------------------------------------------
(* Decisions *)

\* BOOT is a thread, and no thread is one of the sentinels.
LEMMA BootIsThread == BOOT \in ThreadId /\ Null \notin ThreadId /\ Stale \notin ThreadId
BY MaxThreadsAssumption DEF BOOT, ThreadId, Null, Stale, NO_THREAD

\* The timer's branch.
LEMMA TickOutcome ==
    ASSUME NEW s, SchedPart(s, BOOT)
    PROVE  Outcome(s, Tick(s), BOOT)
<1>1. PICK reschedule \in BOOLEAN : reschedule = PREEMPTION_ENABLED
  BY SwitchesAssumption
<1> QED
  BY <1>1, BootIsThread, OnTickOutcome DEF Tick

\* The branches that end a thread: with boot ready there is somebody to run.
LEMMA ExitThreadOutcome ==
    ASSUME NEW s, SchedPart(s, BOOT), s.current # BOOT
    PROVE  Outcome(s, ExitThread(s), BOOT)
<1>1. Outcome(s, ExitCurrent(s), BOOT) /\ ExitCurrent(s).ret.tag = "Switch"
  BY BootIsThread, ExitOutcome
<1>2. ExitThread(s) = ExitCurrent(s)
  BY <1>1 DEF ExitThread
<1> QED
  BY <1>1, <1>2

-----------------------------------------------------------------------------
(* Slots *)

\* reap_exited: the slots of exited threads are empty again.
LEMMA ReapSlots ==
    ASSUME NEW states, NEW sl, NEW pr, NEW hm, NEW id,
           SlotsPart(states, sl, pr, hm, id), states[BOOT] # "Exited",
           NEW states2, NEW sl2,
           states2 = [t \in ThreadId |-> IF states[t] = "Exited" THEN "Unused" ELSE states[t]],
           sl2 = [t \in ThreadId |-> IF states[t] = "Exited"
                                     THEN [EmptySlot EXCEPT !.fx = sl[t].fx] ELSE sl[t]]
    PROVE  SlotsPart(states2, sl2, pr, hm, id)
<1>1. /\ sl \in [ThreadId -> Slot]
      /\ \A t \in ThreadId : SlotOK(t, states[t], sl[t], pr[t], hm[t])
      /\ \A t \in ThreadId \ {id} : CompleteOK(t, states[t], sl[t], pr[t], hm[t])
  BY DEF SlotsPart
<1>2. ASSUME NEW f \in ThreadId \cup {Zeroed}
      PROVE  LET e == [EmptySlot EXCEPT !.fx = f]
             IN  e \in Slot /\ e.rsp = Null /\ e.stack = NoStack
  BY ZenonT(60) DEF EmptySlot, Slot
<1>3. ASSUME NEW t \in ThreadId
      PROVE  /\ sl2[t] \in Slot
             /\ SlotOK(t, states2[t], sl2[t], pr[t], hm[t])
             /\ t # id => CompleteOK(t, states2[t], sl2[t], pr[t], hm[t])
  <2>1. CASE states[t] = "Exited"
    <3>1. sl[t].fx \in ThreadId \cup {Zeroed}
      BY <1>1 DEF Slot
    <3>2. /\ sl2[t] \in Slot /\ sl2[t].rsp = Null /\ sl2[t].stack = NoStack
          /\ states2[t] = "Unused" /\ t # BOOT
      BY <1>2, <2>1, <3>1
    <3> QED
      BY <3>2 DEF SlotOK, CompleteOK
  <2>2. CASE states[t] # "Exited"
    BY <1>1, <2>2
  <2> QED
    BY <2>1, <2>2
<1>4. sl2 \in [ThreadId -> Slot]
  BY <1>3
<1> QED
  BY <1>3, <1>4 DEF SlotsPart

\* A popped frame leaves the rest of the slot alone.
LEMMA StaleSlot ==
    ASSUME NEW w \in Slot
    PROVE  LET e == [w EXCEPT !.rsp = Stale]
           IN  /\ e \in Slot /\ e.rsp = Stale
               /\ e.stack = w.stack /\ e.top = w.top /\ e.user = w.user /\ e.fx = w.fx
BY ZenonT(60) DEF Slot

\* Once p continues, pointers to its frame dangle.
ResumedSlots(saved, p) ==
    [t \in ThreadId |-> IF saved[t].rsp = p THEN [saved[t] EXCEPT !.rsp = Stale]
                                            ELSE saved[t]]

\* switch_to: the thread that ran is resumable from its own stack, the next
\* thread's frame is its own, and no other slot changes.
LEMMA SwitchSlots ==
    ASSUME NEW states \in [ThreadId -> ThreadState], NEW sl, NEW pr, NEW hm, NEW id,
           SlotsPart(states, sl, pr, hm, id),
           NEW from \in ThreadId, NEW to \in ThreadId, from # to, from # id, to # id,
           states[from] = "Running", states[to] = "Ready",
           NEW saved \in [ThreadId -> Slot],
           saved[from].rsp = from, saved[from].fx = from,
           saved[from].stack = sl[from].stack, saved[from].top = sl[from].top,
           saved[from].user = sl[from].user,
           \A t \in ThreadId \ {from} : saved[t] = sl[t],
           NEW states2, states2[from] \in {"Ready", "Exited"}, states2[to] = "Running",
           \A t \in ThreadId \ {from, to} : states2[t] = states[t],
           NEW sl2, sl2 = ResumedSlots(saved, to)
    PROVE  /\ saved[to].rsp = to /\ saved[to].fx = to
           /\ saved[to].user = sl[to].user /\ saved[to].top = sl[to].top
           /\ StackOf(sl2) = StackOf(sl)
           /\ SlotsPart(states2, sl2, pr, hm, id)
<1>1. /\ sl \in [ThreadId -> Slot]
      /\ hm \in [ThreadId -> Stack \cup {NoStack, BootStack}]
      /\ \A t \in ThreadId : SlotOK(t, states[t], sl[t], pr[t], hm[t])
      /\ \A t \in ThreadId \ {id} : CompleteOK(t, states[t], sl[t], pr[t], hm[t])
  BY DEF SlotsPart
<1>2. /\ saved \in [ThreadId -> Slot]
      /\ saved[from].rsp = from /\ saved[from].fx = from
      /\ saved[from].stack = sl[from].stack /\ saved[from].top = sl[from].top
      /\ saved[from].user = sl[from].user
      /\ \A t \in ThreadId \ {from} : saved[t] = sl[t]
  OBVIOUS
<1>3. \A t \in ThreadId : saved[t].rsp = to <=> t = to
  BY <1>1, <1>2, BootIsThread DEF SlotOK, CompleteOK
<1>4. ASSUME NEW t \in ThreadId, t # to PROVE sl2[t] = saved[t]
  BY ZenonT(60), <1>3, <1>4 DEF ResumedSlots
<1>5. /\ sl2[to] \in Slot /\ sl2[to].rsp = Stale
      /\ sl2[to].stack = sl[to].stack /\ sl2[to].top = sl[to].top
      /\ sl2[to].user = sl[to].user
  <2>1. sl2[to] = [sl[to] EXCEPT !.rsp = Stale] /\ sl[to] \in Slot
    BY ZenonT(60), <1>1, <1>2, <1>3 DEF ResumedSlots
  <2> QED
    BY <2>1, StaleSlot
<1>7. sl2 \in [ThreadId -> Slot]
  <2>1. \A t \in ThreadId : sl2[t] \in Slot
    BY <1>2, <1>4, <1>5
  <2> QED
    BY <2>1 DEF ResumedSlots
<1>8. StackOf(sl2) = StackOf(sl)
  <2>1. \A t \in ThreadId : sl2[t].stack = sl[t].stack
    BY <1>2, <1>4, <1>5
  <2> QED
    BY ZenonT(60), <2>1 DEF StackOf
<1>9. ASSUME NEW t \in ThreadId
      PROVE  /\ SlotOK(t, states2[t], sl2[t], pr[t], hm[t])
             /\ t # id => CompleteOK(t, states2[t], sl2[t], pr[t], hm[t])
  <2>1. CASE t = to
    <3>1. states2[t] = "Running"
      BY ZenonT(60), <2>1
    <3> QED
      BY <1>1, <1>5, <2>1, <3>1 DEF SlotOK, CompleteOK
  <2>2. CASE t = from
    <3>1. states2[t] \in {"Ready", "Exited"} /\ sl2[t] = saved[t]
      BY ZenonT(60), <1>4, <2>2
    <3> QED
      BY <1>1, <1>2, <2>2, <3>1 DEF SlotOK, CompleteOK
  <2>3. CASE t \notin {from, to}
    <3>1. states2[t] = states[t] /\ sl2[t] = sl[t]
      BY <1>2, <1>4, <2>3
    <3> QED
      BY <1>1, <3>1
  <2> QED
    BY ZenonT(60), <2>1, <2>2, <2>3
<1>10. saved[to].rsp = to /\ saved[to].fx = to /\ saved[to] = sl[to]
  BY <1>1, <1>2, <1>3 DEF CompleteOK
<1> QED
  BY <1>7, <1>8, <1>9, <1>10 DEF SlotsPart

-----------------------------------------------------------------------------
(* Stacks *)

StackMap == [ThreadId -> Stack \cup {NoStack}]

\* No stack has the number of Option::None or of the boot stack.
LEMMA StackNumbers == NoStack \notin Stack /\ BootStack \notin Stack
BY NumStacksAssumption DEF NoStack, BootStack, Stack

\* Reaping moves the stacks of the threads in E to the allocator.
LEMMA AccountReap ==
    ASSUME NEW f \in StackMap, NEW free, NEW b, NEW u, Accounted(f, free, b, u),
           NEW E \in SUBSET ThreadId,
           NEW f2, f2 = [t \in ThreadId |-> IF t \in E THEN NoStack ELSE f[t]],
           NEW free2, free2 = free \cup ({f[t] : t \in E} \ {NoStack})
    PROVE  Accounted(f2, free2, b, u)
<1>1. /\ free2 \subseteq Stack
      /\ \A st : st \in free2 <=> st \in free \/ (st # NoStack /\ \E t \in E : f[t] = st)
  BY DEF Accounted, StackMap
<1>2. \A t \in ThreadId : f2[t] # NoStack => t \notin E /\ f2[t] = f[t]
  BY ZenonT(60)
<1>3. \A t \in ThreadId : f2[t] # NoStack => f2[t] \notin free2 \cup {b, u}
  BY <1>1, <1>2 DEF Accounted
<1>4. \A t, v \in ThreadId : f2[t] = f2[v] /\ f2[t] # NoStack => t = v
  BY ZenonT(60), <1>2 DEF Accounted
<1>5. /\ b # NoStack => b \notin free2 /\ b # u
      /\ u # NoStack => u \notin free2
  BY ZenonT(60), <1>1 DEF Accounted
<1>6. \A st \in Stack : st \in free2 \cup {b, u} \/ \E t \in ThreadId : f2[t] = st
  BY <1>1, StackNumbers DEF Accounted
<1> QED
  BY ZenonT(60), <1>1, <1>3, <1>4, <1>5, <1>6 DEF Accounted

\* alloc_frames for the thread that is being created.
LEMMA AccountAlloc ==
    ASSUME NEW f \in StackMap, NEW free, NEW u, Accounted(f, free, NoStack, u),
           NEW st \in free
    PROVE  Accounted(f, free \ {st}, st, u)
BY StackNumbers DEF Accounted

\* alloc_frames for the stack of the service itself.
LEMMA AccountService ==
    ASSUME NEW f \in StackMap, NEW free, NEW b, Accounted(f, free, b, NoStack),
           NEW st \in free
    PROVE  Accounted(f, free \ {st}, b, st)
BY StackNumbers DEF Accounted

\* The slot takes the stack over from the creation.
LEMMA AccountPrepare ==
    ASSUME NEW f \in StackMap, NEW free, NEW b \in Stack, NEW u, Accounted(f, free, b, u),
           NEW id \in ThreadId, f[id] = NoStack
    PROVE  Accounted([f EXCEPT ![id] = b], free, NoStack, u)
<1> DEFINE g == [f EXCEPT ![id] = b]
<1>1. g[id] = b /\ \A t \in ThreadId \ {id} : g[t] = f[t]
  BY DEF StackMap
<1> HIDE DEF g
<1>2. \A t \in ThreadId : g[t] # NoStack => g[t] \notin free \cup {NoStack, u}
  BY <1>1, StackNumbers DEF Accounted
<1>3. \A t, v \in ThreadId : g[t] = g[v] /\ g[t] # NoStack => t = v
  BY <1>1, StackNumbers DEF Accounted
<1>4. \A st \in Stack : st \in free \cup {NoStack, u} \/ \E t \in ThreadId : g[t] = st
  BY ZenonT(60), <1>1 DEF Accounted
<1>5. Accounted(g, free, NoStack, u)
  BY <1>2, <1>3, <1>4 DEF Accounted
<1> QED
  BY <1>5 DEF g

-----------------------------------------------------------------------------
(* The interrupt path *)

\* Handle, with the result of its branch.
HandleWith(result) ==
    /\ freeStacks' = freeStacks \cup ReleasedStacks
    /\ sched' = result.sched
    /\ IF result.ret.tag = "Switch"
       THEN SwitchContext(result.ret.from, result.ret.to)
       ELSE /\ slots' = ReleasedSlots
            /\ UNCHANGED <<cpu, xmm, rsp0, home>>
    /\ UNCHANGED <<program, boot, userStack, halted>>

\* A slot's stack is a stack or none.
LEMMA ShapeStack ==
    ASSUME NEW w, SlotShape(w)
    PROVE  w.stack \in Stack \cup {NoStack}
BY DEF SlotShape, LooseSlot

\* Overwriting the saved stack pointer keeps a slot's shape and its stack.
LEMMA RspShape ==
    ASSUME NEW w, SlotShape(w), NEW p, NEW e, e = [w EXCEPT !.rsp = p]
    PROVE  SlotShape(e) /\ e.stack = w.stack
<1>1. PICK A, B : w \in LooseSlot(A, B)
  BY DEF SlotShape
<1>2. e \in LooseSlot(A \cup {p}, B) /\ e.stack = w.stack
  BY <1>1 DEF LooseSlot
<1> QED
  BY <1>2 DEF SlotShape

\* Whatever is switched to whom, stacks move only because threads are reaped.
LEMMA HandleStacks ==
    ASSUME Loose, StacksPart, NEW result, HandleWith(result)
    PROVE  Loose' /\ StacksPart'
<1>1. \A t \in ThreadId : SlotShape(slots[t])
  BY DEF Loose
<1>2. /\ ReleasedSlots = [t \in ThreadId |-> ReleasedSlots[t]]
      /\ \A t \in ThreadId :
            /\ SlotShape(ReleasedSlots[t])
            /\ ReleasedSlots[t].stack = IF t \in Reapable THEN NoStack ELSE slots[t].stack
  <2>1. ASSUME NEW f
        PROVE  LET e == [EmptySlot EXCEPT !.fx = f]
               IN  SlotShape(e) /\ e.stack = NoStack
    <3>1. LET e == [EmptySlot EXCEPT !.fx = f]
          IN  e \in LooseSlot({Null}, {f}) /\ e.stack = NoStack
      BY ZenonT(60) DEF EmptySlot, LooseSlot
    <3> QED
      BY <3>1 DEF SlotShape
  <2> QED
    BY <1>1, <2>1 DEF ReleasedSlots
<1>3. /\ slots' = [t \in ThreadId |-> slots'[t]]
      /\ \A t \in ThreadId :
            SlotShape(slots'[t]) /\ slots'[t].stack = ReleasedSlots[t].stack
  <2>1. CASE result.ret.tag # "Switch"
    <3>1. slots' = ReleasedSlots
      BY <2>1 DEF HandleWith
    <3> QED
      BY <1>2, <3>1
  <2>2. CASE result.ret.tag = "Switch"
    <3>1. PICK from, to : SwitchContext(from, to)
      BY ZenonT(60), <2>2 DEF HandleWith
    <3>2. PICK saved : saved = Saved(from)
      OBVIOUS
    <3>3. /\ saved = [t \in ThreadId |-> saved[t]]
          /\ \A t \in ThreadId :
                SlotShape(saved[t]) /\ saved[t].stack = ReleasedSlots[t].stack
      <4>1. PICK rel : rel = ReleasedSlots
        OBVIOUS
      <4>2. saved = [rel EXCEPT ![from] = [rel[from] EXCEPT !.rsp = cpu, !.fx = xmm]]
        BY ZenonT(60), <1>2, <3>2, <4>1 DEF Saved
      <4>3. DOMAIN rel = ThreadId /\ \A t \in ThreadId : SlotShape(rel[t])
        BY <1>2, <4>1
      <4>4. saved = [t \in ThreadId |-> saved[t]]
        BY ZenonT(60), <4>2, <4>3
      <4>5. ASSUME NEW t \in ThreadId
            PROVE  SlotShape(saved[t]) /\ saved[t].stack = rel[t].stack
        <5>1. PICK w : w = rel[t]
          OBVIOUS
        <5>2. PICK e : e = [w EXCEPT !.rsp = cpu, !.fx = xmm]
          OBVIOUS
        <5>3. saved[t] = IF t = from THEN e ELSE w
          BY ZenonT(60), <4>2, <4>3, <5>1, <5>2
        <5>4. SlotShape(w)
          BY <4>3, <5>1
        <5>5. SlotShape(e) /\ e.stack = w.stack
          <6>1. PICK A, B : w \in LooseSlot(A, B)
            BY <5>4 DEF SlotShape
          <6>2. e \in LooseSlot(A \cup {cpu}, B \cup {xmm}) /\ e.stack = w.stack
            BY ZenonT(60), <5>2, <6>1 DEF LooseSlot
          <6> QED
            BY <6>2 DEF SlotShape
        <5> QED
          BY <5>1, <5>3, <5>4, <5>5
      <4> QED
        BY <4>1, <4>4, <4>5
    <3> DEFINE Resumed(p) == [t \in ThreadId |->
                                 IF saved[t].rsp = p THEN [saved[t] EXCEPT !.rsp = Stale]
                                                     ELSE saved[t]]
    <3>4. ASSUME NEW p
          PROVE  /\ Resumed(p) = [t \in ThreadId |-> Resumed(p)[t]]
                 /\ \A t \in ThreadId :
                       SlotShape(Resumed(p)[t]) /\ Resumed(p)[t].stack = ReleasedSlots[t].stack
      <4>1. ASSUME NEW t \in ThreadId
            PROVE  SlotShape(Resumed(p)[t]) /\ Resumed(p)[t].stack = ReleasedSlots[t].stack
        <5>1. PICK e : e = [saved[t] EXCEPT !.rsp = Stale]
          BY ZenonT(60)
        <5>2. SlotShape(e) /\ e.stack = saved[t].stack
          BY <3>3, <5>1, RspShape
        <5>3. Resumed(p)[t] = IF saved[t].rsp = p THEN e ELSE saved[t]
          BY <5>1
        <5> HIDE DEF Resumed
        <5> QED
          BY <3>3, <5>2, <5>3
      <4> QED
        BY ZenonT(60), <4>1
    <3>5. slots' = saved \/ slots' = Resumed(cpu) \/ slots' = Resumed(saved[to].rsp)
      BY <3>1, <3>2 DEF SwitchContext
    <3> HIDE DEF Resumed
    <3> QED
      BY <3>3, <3>4, <3>5
  <2> QED
    BY <2>1, <2>2
<1>4. Loose'
  BY <1>3 DEF Loose, HandleWith
<1>5. PICK f : f = StackOf(slots)
  OBVIOUS
<1>6. f \in StackMap /\ Accounted(f, freeStacks, boot.stack, userStack)
  BY <1>1, <1>5, ShapeStack DEF StackOf, StackMap, StacksPart
<1>7. StackOf(slots') = [t \in ThreadId |-> IF t \in Reapable THEN NoStack ELSE f[t]]
  BY <1>2, <1>3, <1>5 DEF StackOf
<1>8. freeStacks' = freeStacks \cup ({f[t] : t \in Reapable} \ {NoStack})
  BY <1>5 DEF HandleWith, ReleasedStacks, Reapable, ThreadsIn, StackOf
<1>9. Reapable \in SUBSET ThreadId
  BY DEF Reapable, ThreadsIn
<1>10. Accounted(StackOf(slots'), freeStacks', boot.stack, userStack)
  BY ZenonT(60), <1>6, <1>7, <1>8, <1>9, AccountReap
<1>11. boot' = boot /\ userStack' = userStack
  BY DEF HandleWith
<1> QED
  BY <1>4, <1>10, <1>11 DEF StacksPart

\* The CPU follows whatever the scheduler decides, as long as the decision is
\* never for a thread that is still being created.
LEMMA HandleCore ==
    ASSUME Core, NEW result, Outcome(ReapAll(sched), result, BOOT), HandleWith(result),
           result.ret.tag = "Switch" => boot.id \in {NO_THREAD, sched.idle}
    PROVE  Core'
<1> DEFINE s == ReapAll(sched)
<1>1. /\ SchedInv(sched)
      /\ sched.states \in [ThreadId -> ThreadState]
      /\ sched.current \in ThreadId /\ sched.states[sched.current] = "Running"
  BY ZenonT(60), InvFacts, NoThreadIsNoThread DEF Core, SchedPart
<1>2. /\ SchedInv(s)
      /\ s.states = [t \in ThreadId |-> IF sched.states[t] = "Exited"
                                        THEN "Unused" ELSE sched.states[t]]
      /\ s.kinds = [t \in ThreadId |-> IF sched.states[t] = "Exited"
                                       THEN "Normal" ELSE sched.kinds[t]]
      /\ s.current = sched.current /\ s.idle = sched.idle
  BY ZenonT(60), <1>1, ReapAllInv
<1> HIDE DEF s
<1>3. SchedPart(s, BOOT)
  BY ZenonT(60), <1>2, BootIsThread DEF Core, SchedPart
<1>4. SchedPart(sched', BOOT)
  <2>1. sched' = result.sched /\ Outcome(s, result, BOOT)
    BY DEF HandleWith, s
  <2> QED
    BY ZenonT(60), <1>3, <2>1, BootIsThread, OutcomePart
<1>5. PICK rel : rel = ReleasedSlots
  OBVIOUS
<1>6. SlotsPart(s.states, rel, program, home, boot.id)
  <2>1. /\ rel = [t \in ThreadId |-> IF sched.states[t] = "Exited"
                                     THEN [EmptySlot EXCEPT !.fx = slots[t].fx]
                                     ELSE slots[t]]
        /\ SlotsPart(sched.states, slots, program, home, boot.id)
        /\ sched.states[BOOT] # "Exited"
    BY <1>5 DEF ReleasedSlots, Reapable, ThreadsIn, Core, SchedPart
  <2> QED
    BY <1>2, <2>1, ReapSlots
<1>7. \A t \in ThreadId : sched.states[t] # "Exited" =>
                             rel[t] = slots[t] /\ s.states[t] = sched.states[t]
  BY ZenonT(60), <1>2, <1>5 DEF ReleasedSlots, Reapable, ThreadsIn
<1>8. BootPart(s, rel, cpu, boot)
  BY ZenonT(60), <1>2, <1>7 DEF Core, BootPart
<1>9. rel[cpu] = slots[cpu] /\ cpu \in ThreadId /\ cpu = s.current /\ xmm = cpu
  BY ZenonT(60), <1>1, <1>2, <1>7 DEF Core
<1>10. program' = program /\ boot' = boot
  BY ZenonT(60) DEF HandleWith
<1>11. CASE Kept(s, result)
  <2>1. /\ sched'.states = s.states /\ sched'.current = s.current /\ sched'.idle = s.idle
        /\ slots' = rel /\ cpu' = cpu /\ xmm' = xmm /\ rsp0' = rsp0 /\ home' = home
    BY ZenonT(60), <1>5, <1>11 DEF Kept, HandleWith
  <2>2. SlotsPart(sched'.states, slots', program', home', boot'.id)
    BY ZenonT(60), <1>6, <1>10, <2>1
  <2>3. BootPart(sched', slots', cpu', boot')
    BY ZenonT(60), <1>8, <1>10, <2>1 DEF BootPart
  <2>4. program'[cpu'] = "user" => rsp0' = slots'[cpu'].stack
    BY ZenonT(60), <1>9, <1>10, <2>1 DEF Core
  <2> QED
    BY <1>4, <1>9, <2>1, <2>2, <2>3, <2>4 DEF Core
<1>12. ASSUME NEW to, NEW x, Switched(s, result, to, x, BOOT) PROVE Core'
  <2>1. /\ result.ret.tag = "Switch" /\ SwitchContext(cpu, to)
        /\ to \in ReadySet(s) /\ to # cpu
        /\ x \in {"Ready", "Exited"}
        /\ sched'.current = to /\ sched'.idle = s.idle
        /\ sched'.states = [s.states EXCEPT ![cpu] = x, ![to] = "Running"]
    BY ZenonT(60), <1>9, <1>12 DEF Switched, HandleWith
  <2>2. /\ to \in ThreadId /\ s.states[to] = "Ready" /\ s.kinds[to] # "Idle"
        /\ s.states \in [ThreadId -> ThreadState] /\ s.states[cpu] = "Running"
    <3>1. to \in ThreadId /\ s.states[to] = "Ready" /\ s.kinds[to] # "Idle"
      BY ZenonT(60), <2>1 DEF ReadySet, ThreadsIn
    <3>2. s.states \in [ThreadId -> ThreadState]
      BY ZenonT(60), <1>2, InvFacts
    <3>3. s.states[cpu] = "Running"
      BY <1>1, <1>2, <1>9
    <3> QED
      BY ZenonT(60), <3>1, <3>2, <3>3
  <2>3. boot.id \notin {cpu, to}
    <3>1. boot.id \in {NO_THREAD, s.idle}
      BY <1>2, <2>1
    <3>2. s.idle # cpu
      BY ZenonT(60), <1>3, <1>9 DEF SchedPart
    <3>3. s.idle # to
      BY <1>2, <2>2, NoThreadIsNoThread DEF SchedInv, IdleAvailable
    <3> QED
      BY ZenonT(60), <1>9, <2>2, <3>1, <3>2, <3>3, NoThreadIsNoThread
  <2>4. PICK saved : saved = Saved(cpu)
    BY ZenonT(60)
  <2>5. /\ saved \in [ThreadId -> Slot]
        /\ saved[cpu].rsp = cpu /\ saved[cpu].fx = cpu
        /\ saved[cpu].stack = rel[cpu].stack /\ saved[cpu].top = rel[cpu].top
        /\ saved[cpu].user = rel[cpu].user
        /\ \A t \in ThreadId \ {cpu} : saved[t] = rel[t]
    <3>1. rel \in [ThreadId -> Slot]
      BY <1>6 DEF SlotsPart
    <3>2. saved = [rel EXCEPT ![cpu].rsp = cpu, ![cpu].fx = cpu]
      BY ZenonT(60), <1>5, <1>9, <2>4 DEF Saved
    <3> QED
      BY <1>9, <3>1, <3>2 DEF Slot
  <2>6. PICK sl2 : sl2 = ResumedSlots(saved, to)
    OBVIOUS
  <2>7. /\ saved[to].rsp = to /\ saved[to].fx = to
        /\ saved[to].user = rel[to].user /\ saved[to].top = rel[to].top
        /\ StackOf(sl2) = StackOf(rel)
        /\ SlotsPart(sched'.states, sl2, program, home, boot.id)
    <3>1. PICK z : z = sched'.states
      OBVIOUS
    <3>2. /\ z[cpu] \in {"Ready", "Exited"} /\ z[to] = "Running"
          /\ \A t \in ThreadId \ {cpu, to} : z[t] = s.states[t]
      BY ZenonT(60), <1>9, <2>1, <2>2, <3>1
    <3>3. /\ saved[to].rsp = to /\ saved[to].fx = to
          /\ saved[to].user = rel[to].user /\ saved[to].top = rel[to].top
          /\ StackOf(sl2) = StackOf(rel)
          /\ SlotsPart(z, sl2, program, home, boot.id)
      <4>1. PICK st : st = s.states
        BY ZenonT(60)
      <4>2. PICK id : id = boot.id
        OBVIOUS
      <4>3. /\ st \in [ThreadId -> ThreadState]
            /\ SlotsPart(st, rel, program, home, id)
            /\ cpu \in ThreadId /\ to \in ThreadId /\ cpu # to /\ cpu # id /\ to # id
            /\ st[cpu] = "Running" /\ st[to] = "Ready"
            /\ \A t \in ThreadId \ {cpu, to} : z[t] = st[t]
        BY ZenonT(60), <1>6, <1>9, <2>1, <2>2, <2>3, <3>2, <4>1, <4>2
      <4>4. /\ z[cpu] \in {"Ready", "Exited"} /\ z[to] = "Running"
        BY <3>2
      <4> QED
        BY <2>5, <2>6, <4>2, <4>3, <4>4, SwitchSlots
    <3> QED
      BY <3>1, <3>3
  <2>8. /\ rsp0' = Rsp0For(saved[to]) /\ xmm' = to /\ cpu' = to
        /\ slots' = sl2
        /\ home' = [home EXCEPT ![cpu] = FrameStack]
    BY <2>1, <2>2, <2>4, <2>6, <2>7, BootIsThread
    DEF SwitchContext, XmmFor, Wild, ResumedSlots
  <2>9. home' = home
    <3>1. FrameStack = home[cpu]
      <4>1. CASE program[cpu] # "user"
        BY <4>1 DEF FrameStack
      <4>2. CASE program[cpu] = "user"
        <5>1. cpu # BOOT
          BY ZenonT(60), <1>6, <4>2, BootIsThread DEF SlotsPart, SlotOK
        <5>2. home[cpu] = rel[cpu].stack
          BY ZenonT(60), <1>6, <1>9, <2>2, <2>3, <5>1 DEF SlotsPart, CompleteOK
        <5>3. rsp0 = rel[cpu].stack
          BY ZenonT(60), <1>9, <4>2 DEF Core
        <5> QED
          BY ZenonT(60), <4>2, <5>2, <5>3 DEF FrameStack
      <4> QED
        BY <4>1, <4>2
    <3> QED
      BY ZenonT(60), <1>6, <2>8, <3>1 DEF SlotsPart
  <2>13. SlotsPart(sched'.states, slots', program', home', boot'.id)
    BY ZenonT(60), <1>10, <2>7, <2>8, <2>9
  <2>10. \A t \in ThreadId : slots'[t].stack = rel[t].stack
    BY ZenonT(60), <2>7, <2>8 DEF StackOf
  <2>11. BootPart(sched', slots', cpu', boot')
    <3>1. boot.stage \in {"registered", "allocated"} =>
             /\ boot.id \in ThreadId \ {cpu, to}
             /\ boot.id = s.idle
      BY ZenonT(60), <1>2, <1>8, <2>1, <2>3, NoThreadIsNoThread DEF BootPart
    <3>2. boot.stage \in {"registered", "allocated"} =>
             /\ sched'.states[boot.id] = "Ready"
             /\ slots'[boot.id].stack = NoStack
             /\ boot.kind = "idle" /\ boot.id = sched'.idle
      BY ZenonT(60), <1>8, <2>1, <2>2, <2>10, <3>1 DEF BootPart
    <3> QED
      BY ZenonT(60), <1>8, <1>10, <3>2 DEF BootPart
  <2>12. program'[cpu'] = "user" => rsp0' = slots'[cpu'].stack
    <3>1. ASSUME program[to] = "user" PROVE rsp0' = rel[to].stack
      <4>1. to # BOOT
        BY ZenonT(60), <1>6, <3>1, BootIsThread DEF SlotsPart, SlotOK
      <4>2. rel[to].user /\ rel[to].top = rel[to].stack
        BY <1>6, <2>2, <2>3, <3>1, <4>1 DEF SlotsPart, CompleteOK
      <4> QED
        BY <2>7, <2>8, <4>2 DEF Rsp0For
    <3> QED
      BY ZenonT(60), <1>10, <2>2, <2>8, <2>10, <3>1
  <2> QED
    BY ZenonT(60), <1>4, <2>1, <2>8, <2>11, <2>12, <2>13 DEF Core
<1> QED
  BY ZenonT(60), <1>11, <1>12 DEF Outcome, s

-----------------------------------------------------------------------------
(* The boot context *)

\* The scheduler has a new thread: it waits, still without a stack.
LEMMA NewThreadCore ==
    ASSUME Core, boot.stage = "main", cpu = BOOT,
           NEW id \in ThreadId, sched.states[id] = "Unused",
           SchedInv(sched'), sched'.current = sched.current,
           sched'.states = [sched.states EXCEPT ![id] = "Ready"],
           NEW kd, sched'.kinds = [sched.kinds EXCEPT ![id] = kd],
           NEW kind \in Program, boot' = Created(kind, id),
           \/ kind = "idle" /\ sched'.idle = id
           \/ kind # "idle" /\ sched'.idle = sched.idle,
           UNCHANGED <<slots, program, home, cpu, xmm, rsp0>>
    PROVE  Core'
<1>1. /\ SchedInv(sched) /\ SchedPart(sched, BOOT)
      /\ sched.states \in [ThreadId -> ThreadState]
      /\ sched.kinds \in [ThreadId -> ThreadKind]
      /\ sched.current \in ThreadId /\ sched.states[sched.current] = "Running"
  BY ZenonT(60), InvFacts, NoThreadIsNoThread DEF Core, SchedPart
<1>2. id # sched.idle /\ id # BOOT /\ id # sched.current
  BY ZenonT(60), <1>1, NoThreadIsNoThread DEF SchedPart, SchedInv, IdleAvailable
<1>3. SchedPart(sched', BOOT)
  BY ZenonT(60), <1>1, <1>2, BootIsThread DEF SchedPart
<1>4. boot.id = NO_THREAD
  BY ZenonT(60) DEF Core, BootPart
<1>5. /\ slots \in [ThreadId -> Slot] /\ program \in [ThreadId -> Program]
      /\ home \in [ThreadId -> Stack \cup {NoStack, BootStack}]
      /\ \A t \in ThreadId : /\ SlotOK(t, sched.states[t], slots[t], program[t], home[t])
                             /\ CompleteOK(t, sched.states[t], slots[t], program[t], home[t])
  BY ZenonT(60), <1>4, NoThreadIsNoThread DEF Core, SlotsPart
<1>6. /\ boot' \in BootContext
      /\ boot'.stage = "registered" /\ boot'.kind = kind
      /\ boot'.id = id /\ boot'.stack = NoStack
  BY DEF Created, BootContext, BootStage
<1>7. SlotsPart(sched'.states, slots, program, home, id)
  <2>1. ASSUME NEW t \in ThreadId, t # id
        PROVE  /\ SlotOK(t, sched'.states[t], slots[t], program[t], home[t])
               /\ CompleteOK(t, sched'.states[t], slots[t], program[t], home[t])
    BY ZenonT(60), <1>1, <1>5, <2>1
  <2>2. SlotOK(id, sched'.states[id], slots[id], program[id], home[id])
    BY ZenonT(60), <1>1, <1>5 DEF SlotOK
  <2> QED
    BY ZenonT(60), <1>5, <2>1, <2>2 DEF SlotsPart
<1>8. sched'.states[id] = "Ready" /\ slots[id].stack = NoStack
  BY ZenonT(60), <1>1, <1>5 DEF SlotOK
<1>9. BootPart(sched', slots, cpu, boot')
  BY ZenonT(60), <1>2, <1>6, <1>8 DEF BootPart
<1> QED
  BY ZenonT(60), <1>3, <1>6, <1>7, <1>9 DEF Core

\* A creation that found no room is given up.
LEMMA GivenUpCore ==
    ASSUME Core, boot.stage = "main", boot' = GivenUp,
           UNCHANGED <<sched, slots, program, home, cpu, xmm, rsp0>>
    PROVE  Core'
<1>1. /\ boot' \in BootContext
      /\ boot'.stage = "failed" /\ boot'.id = NO_THREAD /\ boot'.stack = NoStack
  BY ZenonT(60) DEF GivenUp, InMain, BootContext, BootStage, Program
<1>2. boot.id = NO_THREAD
  BY DEF Core, BootPart
<1>3. BootPart(sched, slots, cpu, boot')
  BY ZenonT(60), <1>1 DEF BootPart
<1>4. SlotsPart(sched.states, slots, program, home, boot'.id)
  BY <1>1, <1>2 DEF Core
<1> QED
  BY ZenonT(60), <1>3, <1>4 DEF Core

\* create_idle.
LEMMA RegisterIdleCore ==
    ASSUME Core, boot.stage = "main", cpu = BOOT, sched.idle = NO_THREAD,
           Register("idle", RegisterIdleAny(sched))
    PROVE  Core' /\ boot'.stack = NoStack
<1>1. SchedInv(sched) /\ sched.current # NO_THREAD
  BY NoThreadIsNoThread DEF Core, SchedPart
<1>2. UNCHANGED <<slots, program, home, cpu, xmm, rsp0>>
  BY DEF Register
<1>3. CASE ThreadsIn(sched, "Unused") = {}
  <2>1. sched' = sched /\ boot' = GivenUp
    BY <1>3 DEF Register, RegisterIdleAny, Err, Ok
  <2> QED
    BY <1>2, <2>1, GivenUpCore DEF GivenUp, InMain
<1>4. CASE ThreadsIn(sched, "Unused") # {}
  <2>1. PICK id \in ThreadId : id = FirstIn(sched, "Unused") /\ sched.states[id] = "Unused"
    BY ZenonT(60), <1>4, FirstInMember DEF ThreadsIn
  <2>2. RegisterIdleAny(sched) = RegisterIdle(sched, id)
    BY ZenonT(60), <1>4, <2>1 DEF RegisterIdleAny
  <2>3. LET r == RegisterIdle(sched, id).sched
        IN  /\ RegisterIdle(sched, id).ret = id
            /\ r.current = sched.current /\ r.idle = id
            /\ r.states = [sched.states EXCEPT ![id] = "Ready"]
            /\ r.kinds = [sched.kinds EXCEPT ![id] = "Idle"]
    BY <1>1, <2>1, RegisterIdleEffect
  <2>4. SchedInv(RegisterIdle(sched, id).sched)
    BY ZenonT(60), <1>1, RegisterIdleInv
  <2>5. sched' = RegisterIdle(sched, id).sched /\ boot' = Created("idle", id)
    BY <2>1, <2>2, <2>3, NoThreadIsNoThread DEF Register
  <2>6. "idle" \in Program
    BY DEF Program
  <2>7. PICK kind \in Program : kind = "idle"
    BY ZenonT(60), <2>6
  <2>8. Core'
    BY <1>2, <2>1, <2>3, <2>4, <2>5, <2>7, NewThreadCore
  <2> QED
    BY ZenonT(60), <2>5, <2>8 DEF Created
<1> QED
  BY ZenonT(60), <1>3, <1>4

\* create and create_user.
LEMMA CreateCore ==
    ASSUME Core, boot.stage = "main", cpu = BOOT, NEW kind \in {"worker", "user"},
           Register(kind, Create(sched))
    PROVE  Core' /\ boot'.stack = NoStack
<1>1. SchedInv(sched) /\ sched.current # NO_THREAD
  BY NoThreadIsNoThread DEF Core, SchedPart
<1>2. UNCHANGED <<slots, program, home, cpu, xmm, rsp0>>
  BY DEF Register
<1>3. CASE ThreadsIn(sched, "Unused") = {}
  <2>1. sched' = sched /\ boot' = GivenUp
    BY <1>3 DEF Register, Create, Err, Ok
  <2> QED
    BY ZenonT(60), <1>2, <2>1, GivenUpCore DEF GivenUp, InMain
<1>4. CASE ThreadsIn(sched, "Unused") # {}
  <2>1. PICK id : id = FirstIn(sched, "Unused")
    BY ZenonT(60)
  <2>2. LET r == Create(sched).sched
        IN  /\ id \in ThreadId /\ sched.states[id] = "Unused"
            /\ Create(sched).ret = id
            /\ r.current = sched.current /\ r.idle = sched.idle
            /\ r.states = [sched.states EXCEPT ![id] = "Ready"]
            /\ r.kinds = [sched.kinds EXCEPT ![id] = "Normal"]
    BY <1>1, <1>4, <2>1, CreateEffect
  <2>3. SchedInv(Create(sched).sched)
    BY ZenonT(60), <1>1, CreateInv
  <2>4. sched' = Create(sched).sched /\ boot' = Created(kind, id)
    BY <2>2, NoThreadIsNoThread DEF Register
  <2>5. kind \in Program /\ kind # "idle"
    BY ZenonT(60) DEF Program
  <2>6. Core'
    BY <1>2, <2>2, <2>3, <2>4, <2>5, NewThreadCore
  <2> QED
    BY ZenonT(60), <2>4, <2>6 DEF Created
<1> QED
  BY ZenonT(60), <1>3, <1>4

\* alloc_frames found a stack.
LEMMA AllocCore ==
    ASSUME Core, boot.stage = "registered", NEW st \in Stack,
           boot' = [boot EXCEPT !.stage = "allocated", !.stack = st],
           UNCHANGED <<sched, slots, program, home, cpu, xmm, rsp0>>
    PROVE  Core' /\ boot'.stack = st
<1>1. boot \in BootContext
  BY DEF Core, BootPart
<1>2. /\ boot' \in BootContext
      /\ boot'.stage = "allocated" /\ boot'.stack = st
      /\ boot'.id = boot.id /\ boot'.kind = boot.kind
  BY ZenonT(60), <1>1 DEF BootContext, BootStage
<1>3. BootPart(sched, slots, cpu, boot')
  BY ZenonT(60), <1>2, StackNumbers DEF Core, BootPart
<1> QED
  BY ZenonT(60), <1>2, <1>3 DEF Core

\* prepare_stack completes the creation.
LEMMA PrepareCore ==
    ASSUME Core, PrepareStack
    PROVE  /\ Core' /\ boot'.stack = NoStack
           /\ boot.id \in ThreadId /\ slots[boot.id].stack = NoStack
           /\ boot.stack \in Stack
           /\ StackOf(slots') = [StackOf(slots) EXCEPT ![boot.id] = boot.stack]
<1> DEFINE id == boot.id
           w  == [rsp |-> id, stack |-> boot.stack, top |-> boot.stack,
                  user |-> boot.kind = "user", fx |-> id]
<1>1. /\ boot \in BootContext /\ boot.stage = "allocated"
      /\ id \in ThreadId \ {BOOT} /\ sched.states[id] = "Ready"
      /\ slots[id].stack = NoStack /\ boot.stack \in Stack
  BY ZenonT(60) DEF Core, BootPart, PrepareStack, BootContext
<1>2. /\ slots \in [ThreadId -> Slot] /\ program \in [ThreadId -> Program]
      /\ home \in [ThreadId -> Stack \cup {NoStack, BootStack}]
      /\ \A t \in ThreadId : SlotOK(t, sched.states[t], slots[t], program[t], home[t])
      /\ \A t \in ThreadId \ {id} :
            CompleteOK(t, sched.states[t], slots[t], program[t], home[t])
  BY ZenonT(60) DEF Core, SlotsPart
<1>3. /\ w \in Slot /\ w.rsp = id /\ w.fx = id
      /\ w.stack = boot.stack /\ w.top = boot.stack
      /\ w.user <=> boot.kind = "user"
  BY ZenonT(60), <1>1 DEF Slot
<1>4. /\ slots' = [slots EXCEPT ![id] = w]
      /\ program' = [program EXCEPT ![id] = boot.kind]
      /\ home' = [home EXCEPT ![id] = boot.stack]
      /\ boot' = InMain /\ sched' = sched /\ cpu' = cpu /\ xmm' = xmm /\ rsp0' = rsp0
      /\ cpu = BOOT
  BY ZenonT(60) DEF PrepareStack, BootRuns
<1> HIDE DEF w
<1>5. boot.kind \in Program
  BY ZenonT(60), <1>1 DEF BootContext
<1>6. /\ slots' \in [ThreadId -> Slot] /\ program' \in [ThreadId -> Program]
      /\ home' \in [ThreadId -> Stack \cup {NoStack, BootStack}]
      /\ slots'[id] = w /\ program'[id] = boot.kind /\ home'[id] = boot.stack
      /\ \A t \in ThreadId \ {id} :
            slots'[t] = slots[t] /\ program'[t] = program[t] /\ home'[t] = home[t]
  BY ZenonT(60), <1>1, <1>2, <1>3, <1>4, <1>5
<1>7. ASSUME NEW t \in ThreadId
      PROVE  /\ SlotOK(t, sched.states[t], slots'[t], program'[t], home'[t])
             /\ CompleteOK(t, sched.states[t], slots'[t], program'[t], home'[t])
  <2>1. CASE t = id
    BY ZenonT(60), <1>1, <1>3, <1>6, <2>1 DEF SlotOK, CompleteOK
  <2>2. CASE t # id
    BY ZenonT(60), <1>2, <1>6, <2>2
  <2> QED
    BY ZenonT(60), <2>1, <2>2
<1>8. SlotsPart(sched.states, slots', program', home', boot'.id)
  BY <1>6, <1>7 DEF SlotsPart
<1>9. boot'.stack = NoStack /\ BootPart(sched, slots', cpu, boot')
  <2>1. /\ InMain \in BootContext
        /\ InMain.stage = "main" /\ InMain.id = NO_THREAD /\ InMain.stack = NoStack
    BY ZenonT(60) DEF InMain, BootContext, BootStage, Program
  <2> QED
    BY <1>4, <2>1 DEF BootPart
<1>10. program'[cpu] = "user" => rsp0 = slots'[cpu].stack
  BY <1>1, <1>4, <1>6, BootIsThread DEF Core
<1>11. StackOf(slots') = [StackOf(slots) EXCEPT ![id] = boot.stack]
  BY ZenonT(60), <1>1, <1>3, <1>6 DEF StackOf
<1>12. Core'
  BY ZenonT(60), <1>4, <1>8, <1>9, <1>10 DEF Core
<1> QED
  BY ZenonT(60), <1>1, <1>9, <1>11, <1>12

\* With a stack for every slot and one for the service, the allocator still
\* has one when thread::create asks for it: the slots that hold the others are
\* neither boot's nor the new thread's.
LEMMA StacksSuffice ==
    ASSUME Core, StacksPart, EnoughStacks, boot.stage = "registered"
    PROVE  freeStacks # {}
<1> SUFFICES ASSUME freeStacks = {} PROVE FALSE
  BY ZenonT(60)
<1>1. /\ boot.id \in ThreadId \ {BOOT} /\ boot.stack = NoStack
      /\ slots[boot.id].stack = NoStack /\ slots[BOOT].stack = NoStack
  BY ZenonT(60), BootIsThread DEF Core, BootPart, SlotsPart, SlotOK
<1> DEFINE T == Stack \ {userStack}
           V == (ThreadId \ {BOOT}) \ {boot.id}
<1>2. \A st \in T : \E t \in V : slots[t].stack = st
  BY <1>1, StackNumbers DEF StacksPart, Accounted, StackOf
<1>3. IsFiniteSet(V) /\ Cardinality(V) = MAX_THREADS - 2
  <2>1. 0 \in Int /\ MAX_THREADS - 1 \in Int /\ ~ (0 > MAX_THREADS - 1)
    BY MaxThreadsAssumption
  <2>2. IsFiniteSet(ThreadId) /\ Cardinality(ThreadId) = MAX_THREADS
    BY <2>1, FS_Interval, MaxThreadsAssumption DEF ThreadId
  <2>3. IsFiniteSet(ThreadId \ {BOOT}) /\ Cardinality(ThreadId \ {BOOT}) = MAX_THREADS - 1
    BY ZenonT(60), <2>2, BootIsThread, FS_RemoveElement
  <2>4. /\ IsFiniteSet((ThreadId \ {BOOT}) \ {boot.id})
        /\ Cardinality((ThreadId \ {BOOT}) \ {boot.id}) = (MAX_THREADS - 1) - 1
    BY ZenonT(60), <1>1, <2>3, FS_RemoveElement
  <2> QED
    BY <2>4, MaxThreadsAssumption
<1>4. IsFiniteSet(T) /\ Cardinality(T) >= NUM_STACKS - 1
  <2>1. IsFiniteSet(Stack) /\ Cardinality(Stack) = NUM_STACKS
    BY NumStacksAssumption, FS_Interval DEF Stack
  <2>2. /\ IsFiniteSet(T)
        /\ Cardinality(T) = IF userStack \in Stack THEN Cardinality(Stack) - 1
                                                   ELSE Cardinality(Stack)
    BY <2>1, FS_RemoveElement
  <2> QED
    BY <2>1, <2>2, NumStacksAssumption
<1>5. Cardinality(V) < Cardinality(T)
  BY <1>3, <1>4, FS_CardinalityType, MaxThreadsAssumption, NumStacksAssumption DEF EnoughStacks
<1> DEFINE h == [st \in T |-> CHOOSE t \in V : slots[t].stack = st]
<1>6. h \in [T -> V] /\ \A st \in T : slots[h[st]].stack = st
  BY <1>2
<1> HIDE DEF h, T, V
<1>7. \E x, y \in T : x # y /\ h[x] = h[y]
  BY <1>3, <1>4, <1>5, <1>6, FS_PigeonHole
<1> QED
  BY <1>6, <1>7

-----------------------------------------------------------------------------
(* Theorems *)

\* Handle with a branch is HandleWith the branch's result.
LEMMA HandleIs ==
    /\ Handle(Tick) => cpu # Wild /\ HandleWith(Tick(ReapAll(sched)))
    /\ Handle(YieldCurrent) => HandleWith(Rotate(ReapAll(sched)))
    /\ Handle(ExitThread) => HandleWith(ExitThread(ReapAll(sched)))
    /\ Handle(KeepCurrent) => HandleWith(KeepCurrent(ReapAll(sched)))
BY ZenonT(60) DEF Handle, HandleWith, YieldCurrent

\* The scheduler that the branches see.
LEMMA ReapedPart ==
    ASSUME Core
    PROVE  /\ SchedPart(ReapAll(sched), BOOT)
           /\ ReapAll(sched).current = cpu
<1>1. SchedPart(sched, BOOT) /\ cpu = sched.current
  BY ZenonT(60) DEF Core
<1> QED
  BY ZenonT(60), <1>1, BootIsThread, ReapAllPart

\* Between the creations, and in the creation of the idle thread, the thread
\* being created is not one the scheduler can pick.
LEMMA NotCreating ==
    ASSUME Core, ~ InCreate
    PROVE  boot.id \in {NO_THREAD, sched.idle}
BY DEF Core, BootPart, InCreate, BootContext, BootStage

\* Every step but a creation that finds no stack keeps Core.
LEMMA CoreStep ==
    ASSUME NoTickInCreate, Core, StacksPart, Next, ~ (AllocStack /\ freeStacks = {})
    PROVE  Core'
<1> DEFINE s == ReapAll(sched)
<1>0. SchedPart(s, BOOT) /\ s.current = cpu
  BY ZenonT(60), ReapedPart
<1> HIDE DEF s
<1>1. program[cpu] \in {"worker", "user"} => cpu # BOOT /\ ~ InCreate
  BY ZenonT(60), BootIsThread DEF Core, SlotsPart, SlotOK, InCreate
<1>2. CASE TimerInterrupt
  <2>1. ~ InCreate /\ HandleWith(Tick(s))
    BY <1>2, HandleIs DEF TimerInterrupt, NoTickInCreate, s
  <2> QED
    BY <1>0, <2>1, TickOutcome, NotCreating, HandleCore DEF s
<1>3. CASE Yield
  <2>1. ~ InCreate /\ HandleWith(Rotate(s))
    BY ZenonT(60), <1>1, <1>3, HandleIs DEF Yield, s
  <2> QED
    BY <1>0, <2>1, BootIsThread, RotateOutcome, NotCreating, HandleCore DEF s
<1>4. CASE Exit \/ Syscall
  <2>1. ~ InCreate /\ cpu # BOOT /\ HandleWith(ExitThread(s))
    BY ZenonT(60), <1>1, <1>4, HandleIs DEF Exit, Syscall, s
  <2> QED
    BY <1>0, <2>1, ExitThreadOutcome, NotCreating, HandleCore DEF s
<1>5. CASE OtherInterrupt
  <2>1. HandleWith(KeepCurrent(s))
    BY ZenonT(60), <1>5, HandleIs DEF OtherInterrupt, s
  <2>2. KeepCurrent(s).sched = s /\ KeepCurrent(s).ret.tag = "Keep"
    BY ZenonT(60) DEF KeepCurrent, Ok, Keep
  <2>3. Outcome(s, KeepCurrent(s), BOOT)
    BY <1>0, <2>2 DEF Outcome, Kept, SchedPart
  <2> QED
    BY ZenonT(60), <2>1, <2>2, <2>3, HandleCore DEF s
<1>6. CASE CreateIdle
  BY <1>6, RegisterIdleCore DEF CreateIdle, BootRuns, InMain
<1>7. CASE CreateWorker
  BY <1>7, CreateCore DEF CreateWorker, BootRuns, InMain
<1>8. CASE InitUser
  <2>1. boot.stage = "main" /\ cpu = BOOT
    BY <1>8 DEF InitUser, BootRuns, InMain
  <2>2. CASE Register("user", Create(sched))
    BY <2>1, <2>2, CreateCore
  <2>3. CASE boot' = GivenUp /\ UNCHANGED <<sched, slots, program, home, cpu, xmm, rsp0>>
    BY <2>1, <2>3, GivenUpCore
  <2> QED
    BY <1>8, <2>2, <2>3 DEF InitUser
<1>9. CASE AllocStack
  <2>1. freeStacks # {}
    BY <1>9
  <2>2. PICK st \in Stack : boot' = [boot EXCEPT !.stage = "allocated", !.stack = st]
    BY ZenonT(60), <1>9, <2>1 DEF AllocStack, StacksPart, Accounted
  <2>3. Core'
    BY ZenonT(60), <1>9, <2>2, AllocCore DEF AllocStack
  <2> QED
    BY <2>3
<1>10. CASE PrepareStack
  BY ZenonT(60), <1>10, PrepareCore
<1>11. CASE Finish \/ Halt \/ RunWild
  BY <1>11 DEF Finish, Halt, RunWild, vars, Core
<1> QED
  BY <1>2, <1>3, <1>4, <1>5, <1>6, <1>7, <1>8, <1>9, <1>10, <1>11 DEF Next

\* Slots of the right type have the right shape.
LEMMA TypedSlots ==
    ASSUME NEW sl \in [ThreadId -> Slot]
    PROVE  sl = [t \in ThreadId |-> sl[t]] /\ \A t \in ThreadId : SlotShape(sl[t])
<1>1. Slot = LooseSlot(ThreadId \cup {Null, Stale}, ThreadId \cup {Zeroed})
  BY ZenonT(60) DEF Slot, LooseSlot
<1> QED
  BY <1>1 DEF SlotShape

\* The invariant of the complete kernel implies the loose one.
LEMMA CoreIsLoose ==
    ASSUME Core
    PROVE  Loose
<1>1. slots \in [ThreadId -> Slot]
  BY DEF Core, SlotsPart
<1> QED
  BY ZenonT(60), <1>1, TypedSlots DEF Loose, Core, BootPart

\* The handlers are five of the actions.
LEMMA HandlerSteps ==
    ASSUME TimerInterrupt \/ Yield \/ Exit \/ Syscall \/ OtherInterrupt
    PROVE  \E result : HandleWith(result)
BY ZenonT(60), HandleIs DEF TimerInterrupt, Yield, Exit, Syscall, OtherInterrupt

\* Every step moves each stack as the code says, also the one that finds none.
LEMMA StacksStep ==
    ASSUME Core, StacksPart, Next
    PROVE  StacksPart'
<1>1. PICK f : f = StackOf(slots)
  OBVIOUS
<1>2. f \in StackMap /\ Accounted(f, freeStacks, boot.stack, userStack)
  <2>1. \A t \in ThreadId : slots[t].stack \in Stack \cup {NoStack}
    BY ZenonT(60), CoreIsLoose, ShapeStack DEF Loose
  <2> QED
    BY <1>1, <2>1 DEF StackOf, StackMap, StacksPart
<1>3. boot.stage # "allocated" => boot.stack = NoStack
  BY DEF Core, BootPart
<1>4. CASE TimerInterrupt \/ Yield \/ Exit \/ Syscall \/ OtherInterrupt
  BY <1>4, HandlerSteps, CoreIsLoose, HandleStacks
<1>5. CASE CreateIdle \/ CreateWorker
  <2>1. boot.stage = "main" /\ UNCHANGED <<slots, freeStacks, userStack>>
    BY <1>5 DEF CreateIdle, CreateWorker, Register, InMain
  <2>2. boot'.stack = NoStack
    <3>1. boot' = GivenUp \/ \E kind, id : boot' = Created(kind, id)
      BY ZenonT(60), <1>5 DEF CreateIdle, CreateWorker, Register
    <3>2. ASSUME NEW kind, NEW id PROVE Created(kind, id).stack = NoStack
      BY DEF Created
    <3> QED
      BY <3>1, <3>2 DEF GivenUp, InMain
  <2> QED
    BY ZenonT(60), <1>3, <2>1, <2>2 DEF StacksPart
<1>6. CASE InitUser
  <2>1. boot.stage = "main" /\ cpu = BOOT /\ userStack = NoStack /\ boot.stack = NoStack
    BY ZenonT(60), <1>6 DEF InitUser, BootRuns, InMain
  <2>2. ASSUME NEW stack \in freeStacks, userStack' = stack,
               freeStacks' = freeStacks \ {stack}, Register("user", Create(sched))
        PROVE  StacksPart'
    <3>1. boot'.stack = NoStack /\ slots' = slots
      BY <2>1, <2>2, CreateCore DEF Register
    <3>2. Accounted(f, freeStacks \ {stack}, NoStack, stack)
      BY <1>2, <2>1, AccountService
    <3> QED
      BY ZenonT(60), <1>1, <2>2, <3>1, <3>2 DEF StacksPart
  <2>3. CASE boot' = GivenUp /\ UNCHANGED <<slots, freeStacks, userStack>>
    BY <2>1, <2>3 DEF StacksPart, GivenUp, InMain
  <2> QED
    BY ZenonT(60), <1>6, <2>2, <2>3 DEF InitUser
<1>7. CASE AllocStack
  <2>1. boot.stage = "registered" /\ boot.stack = NoStack /\ UNCHANGED <<slots, userStack>>
    BY ZenonT(60), <1>3, <1>7 DEF AllocStack
  <2>2. ASSUME NEW stack \in freeStacks, freeStacks' = freeStacks \ {stack},
               boot' = [boot EXCEPT !.stage = "allocated", !.stack = stack]
        PROVE  StacksPart'
    <3>1. boot'.stack = stack
      BY <2>2 DEF Core, BootPart, BootContext
    <3>2. Accounted(f, freeStacks \ {stack}, stack, userStack)
      BY ZenonT(60), <1>2, <2>1, AccountAlloc
    <3> QED
      BY <1>1, <2>1, <2>2, <3>1, <3>2 DEF StacksPart
  <2>3. CASE boot' = GivenUp /\ UNCHANGED freeStacks
    BY ZenonT(60), <2>1, <2>3 DEF StacksPart, GivenUp, InMain
  <2> QED
    BY ZenonT(60), <1>7, <2>2, <2>3 DEF AllocStack
<1>8. CASE PrepareStack
  <2>1. /\ boot'.stack = NoStack
        /\ boot.id \in ThreadId /\ f[boot.id] = NoStack /\ boot.stack \in Stack
        /\ StackOf(slots') = [f EXCEPT ![boot.id] = boot.stack]
    BY <1>1, <1>8, PrepareCore DEF StackOf
  <2>2. Accounted([f EXCEPT ![boot.id] = boot.stack], freeStacks, NoStack, userStack)
    BY ZenonT(60), <1>2, <2>1, AccountPrepare
  <2>3. UNCHANGED <<freeStacks, userStack>>
    BY <1>8 DEF PrepareStack
  <2> QED
    BY ZenonT(60), <2>1, <2>2, <2>3 DEF StacksPart
<1>9. CASE Finish \/ Halt \/ RunWild
  BY <1>9 DEF Finish, Halt, RunWild, vars, StacksPart
<1> QED
  BY <1>4, <1>5, <1>6, <1>7, <1>8, <1>9 DEF Next

\* After a creation was given up only interrupts and finish() are left.
LEMMA FailedStep ==
    ASSUME Loose, StacksPart, boot.stage = "failed", Next
    PROVE  Loose' /\ StacksPart' /\ boot'.stage = "failed"
<1>1. CASE TimerInterrupt \/ Yield \/ Exit \/ Syscall \/ OtherInterrupt
  <2>1. PICK result : HandleWith(result)
    BY <1>1, HandlerSteps
  <2>2. Loose' /\ StacksPart'
    BY <2>1, HandleStacks
  <2> QED
    BY <2>1, <2>2 DEF HandleWith
<1>2. CASE CreateIdle \/ CreateWorker \/ InitUser \/ AllocStack \/ PrepareStack
  BY <1>2 DEF CreateIdle, CreateWorker, InitUser, AllocStack, PrepareStack, InMain
<1>3. CASE Finish \/ Halt \/ RunWild
  BY <1>3 DEF Finish, Halt, RunWild, vars, Loose, StacksPart
<1> QED
  BY ZenonT(60), <1>1, <1>2, <1>3 DEF Next

\* The states after init_boot.
LEMMA CoreInit ==
    ASSUME Init
    PROVE  Core /\ StacksPart
<1>1. SchedInv(New) /\ New.current = NO_THREAD /\ New.idle = NO_THREAD
      /\ New.states = [t \in ThreadId |-> "Unused"]
      /\ New.kinds = [t \in ThreadId |-> "Normal"]
  BY ZenonT(60), NewInv DEF New
<1>2. /\ SchedInv(sched)
      /\ sched.current = BOOT /\ sched.idle = NO_THREAD
      /\ sched.states = [[t \in ThreadId |-> "Unused"] EXCEPT ![BOOT] = "Running"]
      /\ sched.kinds = [[t \in ThreadId |-> "Normal"] EXCEPT ![BOOT] = "Boot"]
  <2>1. SchedInv(RegisterBoot(New, BOOT))
    BY ZenonT(60), <1>1, BootIsThread, RegisterBootInv
  <2>2. PICK n : n = New
    OBVIOUS
  <2>3. LET r == RegisterBoot(n, BOOT)
        IN  /\ r.current = BOOT /\ r.idle = n.idle
            /\ r.states = [n.states EXCEPT ![BOOT] = "Running"]
            /\ r.kinds = [n.kinds EXCEPT ![BOOT] = "Boot"]
    BY <1>1, <2>2, BootIsThread, RegisterBootEffect
  <2> QED
    BY <1>1, <2>1, <2>2, <2>3 DEF Init
<1>3. SchedPart(sched, BOOT)
  BY <1>2, BootIsThread, NoThreadIsNoThread DEF SchedPart
<1>4. /\ EmptySlot \in Slot /\ EmptySlot.rsp = Null /\ EmptySlot.stack = NoStack
      /\ EmptySlot.user = FALSE
  BY DEF EmptySlot, Slot
<1>5. SlotsPart(sched.states, slots, program, home, boot.id)
  <2>1. /\ slots \in [ThreadId -> Slot] /\ program \in [ThreadId -> Program]
        /\ home \in [ThreadId -> Stack \cup {NoStack, BootStack}]
    BY ZenonT(60), <1>4 DEF Init, Program
  <2>2. ASSUME NEW t \in ThreadId
        PROVE  /\ SlotOK(t, sched.states[t], slots[t], program[t], home[t])
               /\ CompleteOK(t, sched.states[t], slots[t], program[t], home[t])
    <3>1. /\ sched.states[t] = IF t = BOOT THEN "Running" ELSE "Unused"
          /\ slots[t] = EmptySlot
          /\ program[t] = IF t = BOOT THEN "boot" ELSE "none"
          /\ home[t] = IF t = BOOT THEN BootStack ELSE NoStack
      BY ZenonT(60), <1>2 DEF Init
    <3> QED
      BY ZenonT(60), <1>4, <3>1 DEF SlotOK, CompleteOK
  <2> QED
    BY ZenonT(60), <2>1, <2>2 DEF SlotsPart
<1>6. /\ boot \in BootContext
      /\ boot.stage = "main" /\ boot.id = NO_THREAD /\ boot.stack = NoStack
  BY DEF Init, InMain, BootContext, BootStage, Program
<1>7. BootPart(sched, slots, cpu, boot)
  BY <1>6 DEF BootPart
<1>8. Core
  BY ZenonT(60), <1>2, <1>3, <1>5, <1>7, BootIsThread DEF Core, Init
<1>9. Accounted(StackOf(slots), Stack, NoStack, NoStack)
  BY <1>4 DEF Accounted, StackOf, Init
<1> QED
  BY ZenonT(60), <1>6, <1>8, <1>9 DEF StacksPart, Init

\* StackInv is inductive.
LEMMA StackInvNext ==
    ASSUME StackInv, [Next]_vars
    PROVE  StackInv'
<1>1. CASE UNCHANGED vars
  BY <1>1 DEF vars, StackInv, NoTickInCreate, Loose, StacksPart, Core
<1>2. CASE Next /\ boot.stage = "failed"
  BY ZenonT(60), <1>2, FailedStep DEF StackInv, NoTickInCreate
<1>3. CASE Next /\ boot.stage # "failed"
  <2>1. Core /\ StacksPart /\ NoTickInCreate /\ Loose
    BY <1>3 DEF StackInv
  <2>2. StacksPart' /\ NoTickInCreate'
    BY <1>3, <2>1, StacksStep DEF NoTickInCreate
  <2>3. CASE AllocStack /\ freeStacks = {}
    <3>1. slots' = slots /\ boot' = GivenUp
      BY <2>3 DEF AllocStack
    <3>2. boot'.stage = "failed" /\ boot'.stack = NoStack
      BY <3>1 DEF GivenUp, InMain
    <3>3. Loose'
      BY <2>1, <3>1, <3>2 DEF Loose
    <3> QED
      BY <2>2, <3>2, <3>3 DEF StackInv
  <2>4. CASE ~ (AllocStack /\ freeStacks = {})
    <3>1. Core'
      BY <1>3, <2>1, <2>4, CoreStep
    <3>2. /\ slots' \in [ThreadId -> Slot]
          /\ boot'.stage = "failed" => boot'.stack = NoStack
      BY ZenonT(60), <3>1 DEF Core, SlotsPart, BootPart
    <3>3. Loose'
      BY <3>2, TypedSlots DEF Loose
    <3> QED
      BY <2>2, <3>1, <3>3 DEF StackInv
  <2> QED
    BY <2>3, <2>4
<1> QED
  BY <1>1, <1>2, <1>3

\* KernelInv is inductive.
LEMMA KernelInvNext ==
    ASSUME KernelInv, [Next]_vars
    PROVE  KernelInv'
<1>1. CASE UNCHANGED vars
  BY ZenonT(60), <1>1 DEF vars, KernelInv, NoTickInCreate, EnoughStacks, StacksPart, Core
<1>2. CASE Next
  <2>1. Core /\ StacksPart /\ NoTickInCreate /\ EnoughStacks
    BY DEF KernelInv
  <2>2. ~ (AllocStack /\ freeStacks = {})
    BY ZenonT(60), <2>1, StacksSuffice DEF AllocStack
  <2>3. Core' /\ StacksPart'
    BY <1>2, <2>1, <2>2, CoreStep, StacksStep
  <2> QED
    BY <2>1, <2>3 DEF KernelInv, NoTickInCreate, EnoughStacks
<1> QED
  BY <1>1, <1>2

\* Where the stacks are, counted.
LEMMA AccountedCounts ==
    ASSUME StacksPart
    PROVE  StacksAreAccountedFor
<1> DEFINE inSlots == [t \in {u \in ThreadId : slots[u].stack # NoStack} |-> slots[t].stack]
           inSlot(st) == {t \in DOMAIN inSlots : inSlots[t] = st}
           holders(st) == Cardinality(inSlot(st))
                        + (IF st \in freeStacks THEN 1 ELSE 0)
                        + (IF st = boot.stack THEN 1 ELSE 0)
                        + (IF st = userStack THEN 1 ELSE 0)
<1>1. ASSUME NEW st \in Stack PROVE holders(st) = 1
  <2>1. inSlot(st) = {t \in ThreadId : slots[t].stack = st}
    BY StackNumbers
  <2>2. st # NoStack
    BY ZenonT(60), StackNumbers
  <2>3. /\ \A t \in ThreadId : slots[t].stack = st => st \notin freeStacks \cup {boot.stack, userStack}
        /\ \A t, u \in ThreadId : slots[t].stack = st /\ slots[u].stack = st => t = u
        /\ st = boot.stack => st \notin freeStacks /\ st # userStack
        /\ st = userStack => st \notin freeStacks
        /\ \/ st \in freeStacks \cup {boot.stack, userStack}
           \/ \E t \in ThreadId : slots[t].stack = st
    BY <2>2 DEF StacksPart, Accounted, StackOf
  <2> HIDE DEF inSlot
  <2>4. CASE \E t \in ThreadId : slots[t].stack = st
    <3>1. PICK t \in ThreadId : slots[t].stack = st
      BY ZenonT(60), <2>4
    <3>2. inSlot(st) = {t}
      BY ZenonT(60), <2>1, <2>3, <3>1
    <3>3. Cardinality(inSlot(st)) = 1
      BY ZenonT(60), <3>2, FS_Singleton
    <3> QED
      BY <2>3, <3>1, <3>3
  <2>5. CASE ~ \E t \in ThreadId : slots[t].stack = st
    <3>1. inSlot(st) = {}
      BY <2>1, <2>5
    <3>2. Cardinality(inSlot(st)) = 0
      BY <3>1, FS_EmptySet
    <3> QED
      BY <2>3, <2>5, <3>2
  <2> QED
    BY <2>4, <2>5
<1> QED
  BY <1>1 DEF StacksAreAccountedFor

\* The invariant about the stacks, for every number of stacks.
THEOREM StackInvariance == NoTickInCreate /\ Spec => []StackInv
<1>1. NoTickInCreate /\ Init => StackInv
  BY CoreInit, CoreIsLoose DEF StackInv
<1>2. StackInv /\ [Next]_vars => StackInv'
  BY StackInvNext
<1> QED
  BY <1>1, <1>2, PTL DEF Spec

\* Every four-page block is always in exactly one place, even after a creation
\* that found no stack: reap_exited, create and user::init neither leak a
\* stack nor hand it out twice.
THEOREM StacksCorrect == NoTickInCreate /\ Spec => []StacksAreAccountedFor
<1>1. StackInv => StacksAreAccountedFor
  BY AccountedCounts DEF StackInv
<1> QED
  BY <1>1, StackInvariance, PTL

\* The whole invariant, when there is a stack for every slot.
THEOREM KernelInvariance == NoTickInCreate /\ EnoughStacks /\ Spec => []KernelInv
<1>1. NoTickInCreate /\ EnoughStacks /\ Init => KernelInv
  BY CoreInit DEF KernelInv
<1>2. KernelInv /\ [Next]_vars => KernelInv'
  BY KernelInvNext
<1> QED
  BY <1>1, <1>2, PTL DEF Spec

\* The machine runs what the scheduler calls current, with its XMM state, on a
\* stack that nobody else can be given.
THEOREM CpuCorrect == NoTickInCreate /\ EnoughStacks /\ Spec => []CpuFollowsScheduler
<1>1. KernelInv => CpuFollowsScheduler
  <2> SUFFICES ASSUME KernelInv PROVE CpuFollowsScheduler
    OBVIOUS
  <2>1. Core /\ StacksPart
    BY DEF KernelInv
  <2>2. /\ cpu = sched.current /\ xmm = cpu /\ cpu \in ThreadId
        /\ sched.states[cpu] = "Running"
    BY ZenonT(60), <2>1, InvFacts, NoThreadIsNoThread DEF Core, SchedPart
  <2>3. cpu # boot.id
    BY ZenonT(60), <2>1, <2>2, NoThreadIsNoThread DEF Core, BootPart, BootContext, BootStage
  <2>4. home[cpu] = IF cpu = BOOT THEN BootStack ELSE slots[cpu].stack
    BY ZenonT(60), <2>1, <2>2, <2>3 DEF Core, SlotsPart, SlotOK, CompleteOK
  <2>5. cpu # BOOT => slots[cpu].stack \in Stack
    BY ZenonT(60), <2>1, <2>2, <2>3 DEF Core, SlotsPart, CompleteOK
  <2>6. home[cpu] \notin freeStacks
    BY <2>1, <2>2, <2>4, <2>5, StackNumbers DEF StacksPart, Accounted, StackOf
  <2> QED
    BY <2>2, <2>6 DEF CpuFollowsScheduler
<1> QED
  BY <1>1, KernelInvariance, PTL

\* Whichever ready thread switch_to picks next has a live frame of its own.
THEOREM ResumeCorrect ==
    NoTickInCreate /\ EnoughStacks /\ Spec => []ReadyThreadsAreResumable
<1>1. KernelInv => ReadyThreadsAreResumable
  BY DEF KernelInv, Core, SlotsPart, SlotOK, CompleteOK, ReadyThreadsAreResumable, ThreadsIn
<1> QED
  BY <1>1, KernelInvariance, PTL

\* TSS.rsp0 is the service's own kernel stack whenever it runs.
THEOREM Rsp0Correct == NoTickInCreate /\ EnoughStacks /\ Spec => []Rsp0BelongsToUser
<1>1. KernelInv => Rsp0BelongsToUser
  <2> SUFFICES ASSUME KernelInv, program[cpu] = "user"
               PROVE  rsp0 = slots[cpu].stack /\ rsp0 # NoStack
    BY DEF Rsp0BelongsToUser
  <2>1. Core
    BY DEF KernelInv
  <2>2. cpu = sched.current /\ cpu \in ThreadId /\ sched.states[cpu] = "Running"
    BY ZenonT(60), <2>1, InvFacts, NoThreadIsNoThread DEF Core, SchedPart
  <2>3. cpu # boot.id /\ cpu # BOOT
    BY ZenonT(60), <2>1, <2>2, NoThreadIsNoThread
    DEF Core, BootPart, BootContext, BootStage, SlotsPart, SlotOK
  <2>4. slots[cpu].stack \in Stack
    BY ZenonT(60), <2>1, <2>2, <2>3 DEF Core, SlotsPart, CompleteOK
  <2> QED
    BY ZenonT(60), <2>1, <2>4, StackNumbers DEF Core
<1> QED
  BY <1>1, KernelInvariance, PTL


=============================================================================
