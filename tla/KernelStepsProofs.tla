------------------------- MODULE KernelStepsProofs --------------------------
(***************************************************************************)
(* The locks, and the steps of one thread of the kernel.                   *)
(*                                                                         *)
(* For every number of threads and of locks, and for every order in which  *)
(* the timer strikes and the scheduler picks, lock.rs keeps its promises:  *)
(* no lock() ever spins, HELD is the number of locks of the running        *)
(* thread, and nested guards restore the interrupt flag they found.  None  *)
(* of the three is inductive alone: whether the next thread may run with   *)
(* the flag its frame holds depends on the guards on its stack.  LockInv   *)
(* therefore says what every stack of guards looks like, and what else is  *)
(* true of a thread that was switched away from.                           *)
(*                                                                         *)
(* The lemmas about kernel_main, its self-check and the threads need no    *)
(* more of the scheduler than its invariant: what BootCode is made of, for *)
(* every number of workers and rounds, and what the steps of one thread do *)
(* to the locks, to the place in BootCode and to the verdict.  MainInv,    *)
(* ReportInv and NoPreemptInv are the inductive invariants of the theorems *)
(* in KernelMainProofs.                                                    *)
(***************************************************************************)
EXTENDS KernelMain, SchedulerInv, TLAPS

\* A leaf that names no prover goes to the SMT solver, with time to spare.
USE SMTT(60)

-----------------------------------------------------------------------------
(* The locks: the invariant *)

\* The type of every variable; HELD, an AtomicUsize, never goes below zero.
LocksTypeOK ==
    /\ running \in Thread
    /\ enabled \in BOOLEAN
    /\ IFlag \in BOOLEAN
    /\ saved \in [Thread -> BOOLEAN]
    /\ HELD \in Nat
    /\ locked \in [Lock -> BOOLEAN]
    /\ section \in [Thread -> Seq(Guard)]
    /\ phase \in [Thread -> Phase]
    /\ stuck \in BOOLEAN

\* A stack s of guards, of a thread in phase p: one lock at most, and only the
\* outermost guard found interrupts on, which it did if they are on at all.
InOrder(s, p, on) ==
    /\ \A i, j \in DOMAIN s : s[i].lock # NoLock /\ s[j].lock # NoLock => i = j
    /\ \A i \in DOMAIN s : s[i].restore <=> (on /\ i = 1)
    /\ p # "none" => s # <<>>
    /\ p \notin {"none", "read"} => s[Len(s)].lock # NoLock

\* Owns, Counted and Inside, of a stack and a phase.
OwnsIn(s, p, l) ==
    \E i \in DOMAIN s : s[i].lock = l /\ (i = Len(s) => p \notin {"read", "spin", "sti"})

CountedIn(s, p, l) ==
    \E i \in DOMAIN s : s[i].lock = l /\ (i = Len(s) => p = "none")

InsideOf(s, p) == s # <<>> /\ ~ (Len(s) = 1 /\ p = "read")

\* The interrupt flag, the locks and HELD are what the stack of the running
\* thread says.
StackOK(s, p, on, flag, lk, held) ==
    /\ InOrder(s, p, on)
    /\ flag <=> on /\ ~ InsideOf(s, p)
    /\ \A l \in Lock : lk[l] <=> OwnsIn(s, p, l)
    /\ held = IF \E l \in Lock : CountedIn(s, p, l) THEN 1 ELSE 0

\* A thread without the CPU stopped between two calls or between the two
\* halves of its first enter(), owns nothing, and its frame holds the flag
\* that the guards on its stack call for.
ParkedOK(s, p, on, flag) ==
    /\ InOrder(s, p, on)
    /\ p \in {"none", "read"}
    /\ p = "read" => Len(s) = 1
    /\ on => (flag <=> ~ InsideOf(s, p))
    /\ ~ on => flag /\ s = <<>>
    /\ \A l \in Lock : ~ OwnsIn(s, p, l)

LockInv ==
    /\ LocksTypeOK
    /\ ~ stuck
    /\ ~ enabled => running = Boot
    /\ StackOK(section[running], phase[running], enabled, IFlag, locked, HELD)
    /\ \A t \in Thread \ {running} : ParkedOK(section[t], phase[t], enabled, saved[t])

-----------------------------------------------------------------------------
(* Stacks of guards *)

\* Pushing a guard leaves the ones below it alone.
LEMMA PushedGuards ==
    ASSUME NEW s \in Seq(Guard), NEW g \in Guard
    PROVE  /\ Append(s, g) \in Seq(Guard)
           /\ Append(s, g) # <<>>
           /\ Len(Append(s, g)) = Len(s) + 1
           /\ DOMAIN Append(s, g) = 1 .. (Len(s) + 1)
           /\ \A i \in DOMAIN s : Append(s, g)[i] = s[i]
           /\ Append(s, g)[Len(s) + 1] = g
OBVIOUS

\* Dropping the innermost guard leaves the others alone.
LEMMA PoppedGuards ==
    ASSUME NEW s \in Seq(Guard), s # <<>>,
           NEW r, r = SubSeq(s, 1, Len(s) - 1)
    PROVE  /\ r \in Seq(Guard)
           /\ Len(r) = Len(s) - 1
           /\ DOMAIN r = 1 .. (Len(s) - 1)
           /\ \A i \in DOMAIN r : r[i] = s[i]
<1>1. PICK n \in Nat : n = Len(s) /\ n >= 1 /\ \A i \in 1 .. n : s[i] \in Guard
  OBVIOUS
<1>2. SubSeq(s, 1, n - 1) = [i \in 1 .. (n - 1) |-> s[i]]
  BY <1>1
<1>3. r = [i \in 1 .. (n - 1) |-> s[i]]
  BY <1>1, <1>2
<1>4. n - 1 \in Nat /\ r \in [1 .. (n - 1) -> Guard]
  <2>1. \A i \in 1 .. (n - 1) : s[i] \in Guard
    BY <1>1
  <2>2. n - 1 \in Nat
    BY <1>1
  <2> QED
    BY ZenonT(60), <1>3, <2>1, <2>2
<1>5. r \in Seq(Guard) /\ Len(r) = n - 1
  BY <1>4
<1> QED
  BY <1>1, <1>3, <1>5

\* The length and the indices of a stack of guards.
LEMMA GuardIndices ==
    ASSUME NEW s \in Seq(Guard)
    PROVE  /\ Len(s) \in Nat
           /\ DOMAIN s = 1 .. Len(s)
           /\ s # <<>> <=> Len(s) >= 1
           /\ \A i \in DOMAIN s : s[i] \in Guard
OBVIOUS

\* A stack whose innermost guard is of a lock owns that lock or none.
LEMMA InnermostLock ==
    ASSUME NEW s \in Seq(Guard), s # <<>>, NEW p, NEW on, InOrder(s, p, on),
           s[Len(s)].lock # NoLock, NEW q, NEW l \in Lock
    PROVE  /\ OwnsIn(s, q, l) <=> s[Len(s)].lock = l /\ q \notin {"read", "spin", "sti"}
           /\ CountedIn(s, q, l) <=> s[Len(s)].lock = l /\ q = "none"
<1>1. Len(s) \in DOMAIN s
  BY GuardIndices
<1>2. \A i \in DOMAIN s : s[i].lock = l => i = Len(s)
  BY <1>1, LocksAssumption DEF InOrder
<1>3. QED
  BY <1>1, <1>2 DEF OwnsIn, CountedIn

\* A stack whose innermost guard is a plain one owns the same in any phase.
LEMMA InnermostPlain ==
    ASSUME NEW s \in Seq(Guard), s # <<>>, s[Len(s)].lock = NoLock, NEW q, NEW l \in Lock
    PROVE  /\ OwnsIn(s, q, l) <=> \E i \in DOMAIN s : s[i].lock = l
           /\ CountedIn(s, q, l) <=> \E i \in DOMAIN s : s[i].lock = l
BY LocksAssumption DEF OwnsIn, CountedIn

-----------------------------------------------------------------------------
(* Each step of lock.rs, on the stack of the thread that takes it *)

\* A guard is pushed: it remembers the flag it finds.
LEMMA EnterStack ==
    ASSUME NEW s \in Seq(Guard), NEW on \in BOOLEAN, NEW flag \in BOOLEAN, NEW lk, NEW held,
           StackOK(s, "none", on, flag, lk, held),
           NEW l \in Lock \cup {NoLock},
           l # NoLock => \A i \in DOMAIN s : s[i].lock = NoLock,
           NEW r, r = Append(s, [lock |-> l, restore |-> flag])
    PROVE  r \in Seq(Guard) /\ StackOK(r, "read", on, flag, lk, held)
<1>1. [lock |-> l, restore |-> flag] \in Guard
  BY DEF Guard
<1>2. /\ r \in Seq(Guard)
      /\ r # <<>>
      /\ Len(r) = Len(s) + 1
      /\ DOMAIN r = 1 .. (Len(s) + 1)
      /\ \A i \in DOMAIN s : r[i] = s[i]
      /\ r[Len(s) + 1].lock = l
      /\ r[Len(s) + 1].restore = flag
  BY <1>1, PushedGuards
<1>3. Len(s) \in Nat /\ DOMAIN s = 1 .. Len(s) /\ (s # <<>> <=> Len(s) >= 1)
  BY GuardIndices
<1>4. \A i \in DOMAIN r : (i \in DOMAIN s /\ i < Len(r)) \/ i = Len(s) + 1
  BY <1>2, <1>3
<1>5. \A i \in DOMAIN s : i \in DOMAIN r /\ i # Len(r)
  BY <1>2, <1>3
<1>6. flag <=> on /\ s = <<>>
  BY DEF StackOK, InsideOf
<1>7. InOrder(r, "read", on)
  <2>1. InOrder(s, "none", on)
    BY DEF StackOK
  <2>2. ASSUME NEW i \in DOMAIN r, NEW j \in DOMAIN r, r[i].lock # NoLock, r[j].lock # NoLock
        PROVE  i = j
    BY <1>2, <1>4, <2>1, <2>2 DEF InOrder
  <2>3. ASSUME NEW i \in DOMAIN r
        PROVE  r[i].restore <=> (on /\ i = 1)
    BY <1>2, <1>3, <1>4, <1>6, <2>1 DEF InOrder
  <2>4. QED
    BY <1>2, <2>2, <2>3 DEF InOrder
<1>8. InsideOf(r, "read") <=> s # <<>>
  BY <1>2, <1>3 DEF InsideOf
<1>9. ASSUME NEW k \in Lock
      PROVE  /\ OwnsIn(r, "read", k) <=> OwnsIn(s, "none", k)
             /\ CountedIn(r, "read", k) <=> CountedIn(s, "none", k)
  <2>1. OwnsIn(s, "none", k) <=> \E i \in DOMAIN s : s[i].lock = k
    BY DEF OwnsIn
  <2>2. CountedIn(s, "none", k) <=> \E i \in DOMAIN s : s[i].lock = k
    BY DEF CountedIn
  <2>3. OwnsIn(r, "read", k) <=> \E i \in DOMAIN s : s[i].lock = k
    BY <1>2, <1>4, <1>5 DEF OwnsIn
  <2>4. CountedIn(r, "read", k) <=> \E i \in DOMAIN s : s[i].lock = k
    BY <1>2, <1>4, <1>5 DEF CountedIn
  <2>5. QED
    BY <2>1, <2>2, <2>3, <2>4
<1>10. QED
  BY <1>2, <1>6, <1>7, <1>8, <1>9 DEF StackOK

\* Interrupts are off once the outermost guard has found them on.
LEMMA CliStack ==
    ASSUME NEW s \in Seq(Guard), NEW on \in BOOLEAN, NEW flag \in BOOLEAN, NEW lk, NEW held,
           StackOK(s, "read", on, flag, lk, held),
           NEW q, q = IF s[Len(s)].lock = NoLock THEN "none" ELSE "spin",
           NEW now, now = (flag /\ ~ s[Len(s)].restore)
    PROVE  StackOK(s, q, on, now, lk, held)
<1>1. s # <<>> /\ Len(s) \in Nat /\ Len(s) >= 1 /\ Len(s) \in DOMAIN s
  BY GuardIndices DEF StackOK, InOrder
<1>2. InOrder(s, "read", on)
  BY DEF StackOK
<1>3. InOrder(s, q, on)
  BY <1>1, <1>2 DEF InOrder
<1>4. now = FALSE /\ InsideOf(s, q)
  BY ZenonT(60), <1>1, <1>2 DEF StackOK, InOrder, InsideOf
<1>5. ASSUME NEW k \in Lock
      PROVE  /\ OwnsIn(s, q, k) <=> OwnsIn(s, "read", k)
             /\ CountedIn(s, q, k) <=> CountedIn(s, "read", k)
  <2>1. CASE s[Len(s)].lock = NoLock
    BY <1>1, <2>1, InnermostPlain
  <2>2. CASE s[Len(s)].lock # NoLock
    <3>1. q = "spin"
      BY <2>2
    <3>2. QED
      BY <1>1, <1>2, <2>2, <3>1, InnermostLock
  <2>3. QED
    BY <2>1, <2>2
<1>6. QED
  BY <1>3, <1>4, <1>5 DEF StackOK

\* A guard of a lock sits on the stack of a thread in any phase of lock().
LEMMA LockPhase ==
    ASSUME NEW s \in Seq(Guard), NEW p, NEW on, InOrder(s, p, on), p \notin {"none", "read"}
    PROVE  s # <<>> /\ Len(s) \in DOMAIN s /\ s[Len(s)].lock \in Lock
<1>1. s # <<>> /\ s[Len(s)].lock # NoLock
  BY DEF InOrder
<1>2. Len(s) \in DOMAIN s /\ s[Len(s)] \in Guard
  BY <1>1, GuardIndices
<1>3. QED
  BY <1>1, <1>2 DEF Guard

\* The swap always finds the flag clear.
LEMMA SwapStack ==
    ASSUME NEW s \in Seq(Guard), NEW on, NEW flag, NEW lk \in [Lock -> BOOLEAN], NEW held,
           StackOK(s, "spin", on, flag, lk, held),
           NEW l, l = s[Len(s)].lock
    PROVE  /\ ~ lk[l]
           /\ StackOK(s, "count", on, flag, [lk EXCEPT ![l] = TRUE], held)
<1>1. InOrder(s, "spin", on)
  BY DEF StackOK
<1>2. s # <<>> /\ l \in Lock /\ l # NoLock
  BY <1>1, LockPhase, LocksAssumption
<1>3. ASSUME NEW k \in Lock
      PROVE  /\ ~ OwnsIn(s, "spin", k) /\ (OwnsIn(s, "count", k) <=> l = k)
             /\ ~ CountedIn(s, "spin", k) /\ ~ CountedIn(s, "count", k)
  BY <1>1, <1>2, InnermostLock
<1>4. InOrder(s, "count", on)
  BY <1>1 DEF InOrder
<1>5. InsideOf(s, "count") <=> InsideOf(s, "spin")
  BY DEF InsideOf
<1>6. QED
  BY <1>2, <1>3, <1>4, <1>5 DEF StackOK

\* HELD is counted up with the lock taken: it was zero.
LEMMA CountStack ==
    ASSUME NEW s \in Seq(Guard), NEW on, NEW flag, NEW lk, NEW held,
           StackOK(s, "count", on, flag, lk, held)
    PROVE  held = 0 /\ StackOK(s, "none", on, flag, lk, held + 1)
<1>1. InOrder(s, "count", on)
  BY DEF StackOK
<1>2. s # <<>> /\ s[Len(s)].lock \in Lock /\ s[Len(s)].lock # NoLock
  BY <1>1, LockPhase, LocksAssumption
<1>3. ASSUME NEW k \in Lock
      PROVE  /\ OwnsIn(s, "none", k) <=> OwnsIn(s, "count", k)
             /\ ~ CountedIn(s, "count", k) /\ (CountedIn(s, "none", k) <=> s[Len(s)].lock = k)
  BY <1>1, <1>2, InnermostLock
<1>4. InOrder(s, "none", on)
  BY <1>1 DEF InOrder
<1>5. InsideOf(s, "none") <=> InsideOf(s, "count")
  BY DEF InsideOf
<1>6. held = 0
  BY <1>3 DEF StackOK
<1>7. QED
  BY <1>2, <1>3, <1>4, <1>5, <1>6 DEF StackOK

\* HELD is counted down before the lock is released: it was one.
LEMMA DiscountStack ==
    ASSUME NEW s \in Seq(Guard), NEW on, NEW flag, NEW lk, NEW held,
           StackOK(s, "none", on, flag, lk, held),
           s # <<>>, s[Len(s)].lock # NoLock
    PROVE  held = 1 /\ StackOK(s, "unlock", on, flag, lk, held - 1)
<1>1. InOrder(s, "none", on)
  BY DEF StackOK
<1>2. InOrder(s, "unlock", on)
  BY <1>1 DEF InOrder
<1>3. s[Len(s)].lock \in Lock
  BY <1>2, LockPhase
<1>4. ASSUME NEW k \in Lock
      PROVE  /\ OwnsIn(s, "unlock", k) <=> OwnsIn(s, "none", k)
             /\ ~ CountedIn(s, "unlock", k) /\ (CountedIn(s, "none", k) <=> s[Len(s)].lock = k)
  BY <1>1, InnermostLock
<1>5. InsideOf(s, "unlock") <=> InsideOf(s, "none")
  BY DEF InsideOf
<1>6. held = 1
  BY <1>3, <1>4 DEF StackOK
<1>7. QED
  BY <1>2, <1>4, <1>5, <1>6 DEF StackOK

\* The lock is released; interrupts are still off.
LEMMA UnlockStack ==
    ASSUME NEW s \in Seq(Guard), NEW on, NEW flag, NEW lk \in [Lock -> BOOLEAN], NEW held,
           StackOK(s, "unlock", on, flag, lk, held),
           NEW l, l = s[Len(s)].lock
    PROVE  StackOK(s, "sti", on, flag, [lk EXCEPT ![l] = FALSE], held)
<1>1. InOrder(s, "unlock", on)
  BY DEF StackOK
<1>2. s # <<>> /\ l \in Lock /\ l # NoLock
  BY <1>1, LockPhase, LocksAssumption
<1>3. ASSUME NEW k \in Lock
      PROVE  /\ (OwnsIn(s, "unlock", k) <=> l = k) /\ ~ OwnsIn(s, "sti", k)
             /\ ~ CountedIn(s, "unlock", k) /\ ~ CountedIn(s, "sti", k)
  BY <1>1, <1>2, InnermostLock
<1>4. InOrder(s, "sti", on)
  BY <1>1 DEF InOrder
<1>5. InsideOf(s, "sti") <=> InsideOf(s, "unlock")
  BY DEF InsideOf
<1>6. QED
  BY <1>2, <1>3, <1>4, <1>5 DEF StackOK

\* The guard is popped, and the flag is what it found.
LEMMA LeaveStack ==
    ASSUME NEW s \in Seq(Guard), NEW on \in BOOLEAN, NEW flag \in BOOLEAN, NEW lk, NEW held,
           s # <<>>,
           NEW p, p = IF s[Len(s)].lock = NoLock THEN "none" ELSE "sti",
           StackOK(s, p, on, flag, lk, held),
           NEW r \in Seq(Guard), Len(r) = Len(s) - 1,
           \A i \in DOMAIN r : r[i] = s[i],
           NEW now, now = (flag \/ s[Len(s)].restore)
    PROVE  StackOK(r, "none", on, now, lk, held)
<1>1. DOMAIN r = 1 .. (Len(s) - 1)
  BY GuardIndices
<1>2. Len(s) \in Nat /\ Len(s) >= 1 /\ DOMAIN s = 1 .. Len(s) /\ Len(s) \in DOMAIN s
  BY GuardIndices
<1>3. \A i \in DOMAIN r : i \in DOMAIN s /\ i # Len(s)
  BY <1>1, <1>2
<1>4. \A i \in DOMAIN s : i \in DOMAIN r \/ i = Len(s)
  BY <1>1, <1>2
<1>5. InOrder(s, p, on)
  BY DEF StackOK
<1>6. InOrder(r, "none", on)
  BY <1>1, <1>3, <1>5 DEF InOrder
<1>7. now <=> on /\ ~ InsideOf(r, "none")
  <2>1. r = <<>> <=> Len(s) = 1
    BY <1>1, <1>2, GuardIndices
  <2>2. s[Len(s)].restore <=> (on /\ Len(s) = 1)
    BY <1>2, <1>5 DEF InOrder
  <2>3. ~ flag
    BY DEF StackOK, InsideOf
  <2>4. QED
    BY <2>1, <2>2, <2>3 DEF InsideOf
<1>8. ASSUME NEW k \in Lock
      PROVE  /\ OwnsIn(r, "none", k) <=> OwnsIn(s, p, k)
             /\ CountedIn(r, "none", k) <=> CountedIn(s, p, k)
  <2>1. OwnsIn(r, "none", k) <=> \E i \in DOMAIN r : r[i].lock = k
    BY DEF OwnsIn
  <2>2. CountedIn(r, "none", k) <=> \E i \in DOMAIN r : r[i].lock = k
    BY DEF CountedIn
  <2>3. CASE s[Len(s)].lock = NoLock
    <3>1. (\E i \in DOMAIN r : r[i].lock = k) <=> \E i \in DOMAIN s : s[i].lock = k
      BY <1>1, <1>3, <1>4, <2>3, LocksAssumption
    <3>2. QED
      BY <2>1, <2>2, <2>3, <3>1, InnermostPlain
  <2>4. CASE s[Len(s)].lock # NoLock
    <3>1. p = "sti"
      BY <2>4
    <3>2. ~ OwnsIn(s, p, k) /\ ~ CountedIn(s, p, k)
      BY <1>5, <2>4, <3>1, InnermostLock
    <3>3. ~ \E i \in DOMAIN r : r[i].lock = k
      BY <1>1, <1>2, <1>3, <1>5, <2>4, LocksAssumption DEF InOrder
    <3>4. QED
      BY <2>1, <2>2, <3>2, <3>3
  <2>5. QED
    BY <2>3, <2>4
<1>9. QED
  BY <1>1, <1>6, <1>7, <1>8 DEF StackOK

\* Before kernel_main enables interrupts a thread without guards owns nothing,
\* and enabling them finds the frames of all threads as they should be.
LEMMA EmptyStack ==
    /\ ParkedOK(<<>>, "none", TRUE, TRUE)
    /\ \A lk, held, flag :
          StackOK(<<>>, "none", FALSE, flag, lk, held)
              => StackOK(<<>>, "none", TRUE, TRUE, lk, held)
BY DEF ParkedOK, StackOK, InOrder, InsideOf, OwnsIn, CountedIn

\* The timer needs the interrupt flag, and yield_now and exit need HELD = 0:
\* either way the thread that is switched away from owns no lock.
LEMMA ParkStack ==
    ASSUME NEW s \in Seq(Guard), NEW p, NEW flag, NEW lk, NEW held,
           StackOK(s, p, TRUE, flag, lk, held),
           flag \/ (p = "none" /\ held = 0)
    PROVE  /\ ParkedOK(s, p, TRUE, flag)
           /\ \A l \in Lock : ~ lk[l]
           /\ held = 0
<1>1. Len(s) \in Nat /\ DOMAIN s = 1 .. Len(s)
  BY GuardIndices
<1>2. InOrder(s, p, TRUE) /\ (flag <=> ~ InsideOf(s, p))
  BY ZenonT(60) DEF StackOK
<1>3. ASSUME NEW l \in Lock
      PROVE  ~ OwnsIn(s, p, l) /\ ~ CountedIn(s, p, l)
  <2>1. CASE s = <<>>
    BY <2>1 DEF OwnsIn, CountedIn
  <2>2. CASE s # <<>> /\ flag
    <3>1. Len(s) = 1 /\ p = "read"
      BY <1>2, <2>2 DEF InsideOf
    <3>2. \A i \in DOMAIN s : i = Len(s)
      BY <1>1, <3>1
    <3>3. QED
      BY <3>1, <3>2 DEF OwnsIn, CountedIn
  <2>3. CASE ~ flag
    <3>1. p = "none" /\ held = 0
      BY <2>3
    <3>2. ~ CountedIn(s, "none", l)
      BY <3>1 DEF StackOK
    <3>3. QED
      BY <3>1, <3>2 DEF OwnsIn, CountedIn
  <2>4. QED
    BY <2>1, <2>2, <2>3
<1>4. p \in {"none", "read"} /\ (p = "read" => Len(s) = 1)
  BY <1>2 DEF InOrder, InsideOf
<1>5. held = 0 /\ \A l \in Lock : ~ lk[l]
  BY <1>3 DEF StackOK
<1>6. QED
  BY ZenonT(60), <1>2, <1>3, <1>4, <1>5 DEF ParkedOK

\* A parked thread can be resumed whenever no lock is taken.
LEMMA ResumeStack ==
    ASSUME NEW s, NEW p, NEW flag, NEW lk, NEW held,
           ParkedOK(s, p, TRUE, flag), \A l \in Lock : ~ lk[l], held = 0
    PROVE  StackOK(s, p, TRUE, flag, lk, held)
<1>1. \A l \in Lock : CountedIn(s, p, l) => OwnsIn(s, p, l)
  BY DEF CountedIn, OwnsIn
<1>2. QED
  BY ZenonT(60), <1>1 DEF ParkedOK, StackOK

-----------------------------------------------------------------------------
(* Each step keeps the invariant *)

\* What a step of the running thread leaves alone.
OnlyRunning ==
    /\ UNCHANGED <<running, enabled, saved, stuck>>
    /\ \A t \in Thread \ {running} : section'[t] = section[t] /\ phase'[t] = phase[t]

\* Such a step only has to look after the running thread's own stack.
LEMMA RunningStep ==
    ASSUME LockInv, OnlyRunning, LocksTypeOK',
           StackOK(section'[running], phase'[running], enabled, IFlag', locked', HELD')
    PROVE  LockInv'
BY DEF LockInv, OnlyRunning

\* What the steps below start from.
LEMMA RunningHolds ==
    ASSUME LockInv
    PROVE  /\ LocksTypeOK
           /\ running \in Thread
           /\ section[running] \in Seq(Guard)
           /\ enabled \in BOOLEAN /\ IFlag \in BOOLEAN
           /\ locked \in [Lock -> BOOLEAN]
           /\ HELD \in Nat
           /\ StackOK(section[running], phase[running], enabled, IFlag, locked, HELD)
BY DEF LockInv, LocksTypeOK

\* lock() and without_interrupts begin.
LEMMA EnterInv ==
    ASSUME LockInv, NEW l \in Lock \cup {NoLock}, Enter(l)
    PROVE  LockInv'
<1>1. PICK r : r = Append(section[running], [lock |-> l, restore |-> IFlag])
  BY ZenonT(60)
<1>2. /\ phase[running] = "none"
      /\ l # NoLock => \A i \in DOMAIN section[running] : section[running][i].lock = NoLock
      /\ section' = [section EXCEPT ![running] = r]
      /\ phase' = [phase EXCEPT ![running] = "read"]
      /\ UNCHANGED <<running, enabled, IFlag, saved, HELD, locked, stuck>>
  BY <1>1 DEF Enter, Push, GoTo, HasLock
<1>3. r \in Seq(Guard) /\ StackOK(r, "read", enabled, IFlag, locked, HELD)
  <2>1. /\ section[running] \in Seq(Guard) /\ enabled \in BOOLEAN /\ IFlag \in BOOLEAN
        /\ StackOK(section[running], "none", enabled, IFlag, locked, HELD)
    BY <1>2, RunningHolds
  <2>2. QED
    BY ZenonT(60), <1>1, <1>2, <2>1, EnterStack
<1>4. /\ section'[running] = r /\ phase'[running] = "read"
      /\ OnlyRunning /\ LocksTypeOK'
  BY <1>2, <1>3, RunningHolds DEF LocksTypeOK, OnlyRunning, Phase
<1>5. QED
  BY <1>2, <1>3, <1>4, RunningStep

\* The flag is read, and cleared if it was set.
LEMMA CliInv ==
    ASSUME LockInv, Cli
    PROVE  LockInv'
<1> DEFINE s == section[running]
<1>1. PICK q : q = IF s[Len(s)].lock = NoLock THEN "none" ELSE "spin"
  OBVIOUS
<1>2. PICK now : now = (IFlag /\ ~ s[Len(s)].restore)
  OBVIOUS
<1>3. /\ phase[running] = "read"
      /\ phase' = [phase EXCEPT ![running] = q]
      /\ IFlag' = now
      /\ UNCHANGED <<running, enabled, saved, HELD, locked, section, stuck>>
  BY <1>1, <1>2 DEF Cli, GoTo, Innermost
<1>4. StackOK(s, q, enabled, now, locked, HELD)
  BY <1>1, <1>2, <1>3, RunningHolds, CliStack
<1>5. phase'[running] = q /\ OnlyRunning /\ LocksTypeOK'
  BY <1>1, <1>2, <1>3, RunningHolds DEF LocksTypeOK, OnlyRunning, Phase
<1>6. QED
  BY <1>3, <1>4, <1>5, RunningStep

\* The swap that takes the lock: it is free, so it does not spin.
LEMMA SwapInv ==
    ASSUME LockInv, Swap
    PROVE  LockInv'
<1>1. PICK l : l = section[running][Len(section[running])].lock
  OBVIOUS
<1>2. /\ phase[running] = "spin"
      /\ locked' = [locked EXCEPT ![l] = TRUE]
      /\ phase' = [phase EXCEPT ![running] = "count"]
      /\ UNCHANGED <<running, enabled, IFlag, saved, HELD, section, stuck>>
  BY <1>1 DEF Swap, GoTo, Innermost
<1>3. StackOK(section[running], "count", enabled, IFlag, locked', HELD)
  <2>1. /\ section[running] \in Seq(Guard) /\ locked \in [Lock -> BOOLEAN]
        /\ StackOK(section[running], "spin", enabled, IFlag, locked, HELD)
    BY <1>2, RunningHolds
  <2>2. QED
    BY ZenonT(60), <1>1, <1>2, <2>1, SwapStack
<1>4. phase'[running] = "count" /\ OnlyRunning /\ LocksTypeOK'
  BY ZenonT(60), <1>2, RunningHolds DEF LocksTypeOK, OnlyRunning, Phase
<1>5. QED
  BY <1>2, <1>3, <1>4, RunningStep

\* HELD is counted up.
LEMMA CountInv ==
    ASSUME LockInv, Count
    PROVE  LockInv'
<1>1. /\ phase[running] = "count"
      /\ HELD' = HELD + 1
      /\ phase' = [phase EXCEPT ![running] = "none"]
      /\ UNCHANGED <<running, enabled, IFlag, saved, locked, section, stuck>>
  BY DEF Count, GoTo
<1>2. StackOK(section[running], "none", enabled, IFlag, locked, HELD')
  <2>1. /\ section[running] \in Seq(Guard)
        /\ StackOK(section[running], "count", enabled, IFlag, locked, HELD)
    BY <1>1, RunningHolds
  <2>2. QED
    BY <1>1, <2>1, CountStack
<1>3. phase'[running] = "none" /\ OnlyRunning /\ LocksTypeOK'
  BY <1>1, RunningHolds DEF LocksTypeOK, OnlyRunning, Phase
<1>4. QED
  BY <1>1, <1>2, <1>3, RunningStep

\* A lock guard begins to be dropped.
LEMMA DiscountInv ==
    ASSUME LockInv, Discount
    PROVE  LockInv'
<1>1. /\ phase[running] = "none"
      /\ section[running] # <<>>
      /\ section[running][Len(section[running])].lock # NoLock
      /\ HELD' = HELD - 1
      /\ phase' = [phase EXCEPT ![running] = "unlock"]
      /\ UNCHANGED <<running, enabled, IFlag, saved, locked, section, stuck>>
  BY DEF Discount, GoTo, Innermost
<1>2. HELD = 1 /\ StackOK(section[running], "unlock", enabled, IFlag, locked, HELD')
  <2>1. /\ section[running] \in Seq(Guard)
        /\ StackOK(section[running], "none", enabled, IFlag, locked, HELD)
    BY <1>1, RunningHolds
  <2>2. QED
    BY <1>1, <2>1, DiscountStack
<1>3. phase'[running] = "unlock" /\ OnlyRunning /\ LocksTypeOK'
  BY <1>1, <1>2, RunningHolds DEF LocksTypeOK, OnlyRunning, Phase
<1>4. QED
  BY <1>1, <1>2, <1>3, RunningStep

\* The lock of a guard is released.
LEMMA UnlockInv ==
    ASSUME LockInv, Unlock
    PROVE  LockInv'
<1>1. PICK l : l = section[running][Len(section[running])].lock
  OBVIOUS
<1>2. /\ phase[running] = "unlock"
      /\ locked' = [locked EXCEPT ![l] = FALSE]
      /\ phase' = [phase EXCEPT ![running] = "sti"]
      /\ UNCHANGED <<running, enabled, IFlag, saved, HELD, section, stuck>>
  BY <1>1 DEF Unlock, GoTo, Innermost
<1>3. StackOK(section[running], "sti", enabled, IFlag, locked', HELD)
  <2>1. /\ section[running] \in Seq(Guard) /\ locked \in [Lock -> BOOLEAN]
        /\ StackOK(section[running], "unlock", enabled, IFlag, locked, HELD)
    BY <1>2, RunningHolds
  <2>2. QED
    BY ZenonT(60), <1>1, <1>2, <2>1, UnlockStack
<1>4. phase'[running] = "sti" /\ OnlyRunning /\ LocksTypeOK'
  BY ZenonT(60), <1>2, RunningHolds DEF LocksTypeOK, OnlyRunning, Phase
<1>5. QED
  BY <1>2, <1>3, <1>4, RunningStep

\* A guard is gone and the flag is restored.
LEMMA LeaveInv ==
    ASSUME LockInv, Leave
    PROVE  LockInv'
<1> DEFINE s == section[running]
<1>1. PICK r : r = SubSeq(s, 1, Len(s) - 1)
  BY ZenonT(60)
<1>2. PICK now : now = (IFlag \/ s[Len(s)].restore)
  OBVIOUS
<1>3. /\ s # <<>>
      /\ phase[running] = IF s[Len(s)].lock = NoLock THEN "none" ELSE "sti"
      /\ IFlag' = now
      /\ section' = [section EXCEPT ![running] = r]
      /\ phase' = [phase EXCEPT ![running] = "none"]
      /\ UNCHANGED <<running, enabled, saved, HELD, locked, stuck>>
  BY <1>1, <1>2 DEF Leave, Pop, GoTo, Innermost, Outer
<1>4. r \in Seq(Guard) /\ StackOK(r, "none", enabled, now, locked, HELD)
  <2>1. /\ s \in Seq(Guard) /\ enabled \in BOOLEAN /\ IFlag \in BOOLEAN
        /\ StackOK(s, phase[running], enabled, IFlag, locked, HELD)
    BY RunningHolds
  <2>2. r \in Seq(Guard) /\ Len(r) = Len(s) - 1 /\ \A i \in DOMAIN r : r[i] = s[i]
    BY <1>1, <1>3, <2>1, PoppedGuards
  <2>3. QED
    BY ZenonT(60), <1>2, <1>3, <2>1, <2>2, LeaveStack
<1>5. now \in BOOLEAN
  BY <1>2, RunningHolds
<1>6. /\ section'[running] = r /\ phase'[running] = "none"
      /\ OnlyRunning /\ LocksTypeOK'
  BY <1>3, <1>4, <1>5, RunningHolds DEF LocksTypeOK, OnlyRunning, Phase
<1>7. QED
  BY <1>3, <1>4, <1>6, RunningStep

\* Interrupts are enabled once, outside every guard.
LEMMA EnableInterruptsInv ==
    ASSUME LockInv, EnableInterrupts
    PROVE  LockInv'
<1>1. /\ section[running] = <<>> /\ phase[running] = "none" /\ ~ enabled
      /\ enabled' = TRUE /\ IFlag' = TRUE
      /\ UNCHANGED <<running, saved, HELD, locked, section, phase, stuck>>
  BY DEF EnableInterrupts
<1>2. LocksTypeOK'
  BY <1>1, RunningHolds DEF LocksTypeOK
<1>3. StackOK(<<>>, "none", TRUE, TRUE, locked, HELD)
  <2>1. StackOK(<<>>, "none", FALSE, IFlag, locked, HELD)
    <3>1. enabled = FALSE
      BY <1>1, RunningHolds
    <3>2. QED
      BY ZenonT(60), <1>1, <3>1, RunningHolds
  <2>2. QED
    BY ZenonT(60), <2>1, EmptyStack
<1>4. ASSUME NEW t \in Thread \ {running}
      PROVE  ParkedOK(section[t], phase[t], TRUE, saved[t])
  <2>1. ParkedOK(section[t], phase[t], enabled, saved[t])
    BY DEF LockInv
  <2>2. section[t] = <<>> /\ saved[t] = TRUE
    BY <1>1, <2>1, RunningHolds DEF ParkedOK, LocksTypeOK
  <2>3. phase[t] = "none"
    BY <2>1, <2>2 DEF ParkedOK, InOrder
  <2>4. QED
    BY ZenonT(60), <2>2, <2>3, EmptyStack
<1>5. QED
  BY ZenonT(60), <1>1, <1>2, <1>3, <1>4 DEF LockInv

\* A new thread starts with no guard and with interrupts on.
LEMMA SpawnInv ==
    ASSUME LockInv, NEW t \in Thread, Spawn(t)
    PROVE  LockInv'
<1>1. /\ enabled /\ t # running
      /\ saved' = [saved EXCEPT ![t] = TRUE]
      /\ section' = [section EXCEPT ![t] = <<>>]
      /\ phase' = [phase EXCEPT ![t] = "none"]
      /\ UNCHANGED <<running, enabled, IFlag, HELD, locked, stuck>>
  BY DEF Spawn, GoTo
<1>2. LocksTypeOK'
  BY <1>1, RunningHolds DEF LocksTypeOK, Phase
<1>3. section'[running] = section[running] /\ phase'[running] = phase[running]
  BY <1>1, RunningHolds DEF LocksTypeOK
<1>4. ASSUME NEW u \in Thread \ {running}
      PROVE  ParkedOK(section'[u], phase'[u], enabled, saved'[u])
  <2>1. CASE u = t
    <3>1. section'[u] = <<>> /\ phase'[u] = "none" /\ saved'[u] = TRUE /\ enabled = TRUE
      BY <1>1, <2>1, RunningHolds DEF LocksTypeOK
    <3>2. QED
      BY ZenonT(60), <3>1, EmptyStack
  <2>2. CASE u # t
    <3>1. section'[u] = section[u] /\ phase'[u] = phase[u] /\ saved'[u] = saved[u]
      BY <1>1, <2>2, RunningHolds DEF LocksTypeOK
    <3>2. QED
      BY <3>1 DEF LockInv
  <2>3. QED
    BY <2>1, <2>2
<1>5. QED
  BY ZenonT(60), <1>1, <1>2, <1>3, <1>4 DEF LockInv

\* irq_handler finds no lock taken, so it does not spin, and the thread it
\* switches to continues with the flag its own guards call for.
LEMMA HandlerInv ==
    ASSUME LockInv, NEW next \in Thread, NEW reaps \in BOOLEAN,
           Timer(next, reaps) \/ Yield(next, reaps)
    PROVE  LockInv'
<1>1. enabled = TRUE /\ (IFlag \/ (phase[running] = "none" /\ HELD = 0))
  <2>1. IFlag => enabled
    BY RunningHolds DEF StackOK
  <2>2. QED
    BY <2>1, RunningHolds DEF Timer, Yield, MaySwitch
<1>2. /\ ParkedOK(section[running], phase[running], TRUE, IFlag)
      /\ \A l \in Lock : ~ locked[l]
      /\ HELD = 0
  <2>1. /\ section[running] \in Seq(Guard)
        /\ StackOK(section[running], phase[running], TRUE, IFlag, locked, HELD)
    BY ZenonT(60), <1>1, RunningHolds
  <2>2. QED
    BY ZenonT(60), <1>1, <2>1, ParkStack
<1>3. Handler(next, reaps)
  BY DEF Timer, Yield
<1>4. stuck' = FALSE
  BY ZenonT(60), <1>2, <1>3, LocksAssumption DEF Handler
<1>5. /\ running' = next
      /\ saved' = [saved EXCEPT ![running] = IFlag]
      /\ IFlag' = saved'[next]
      /\ UNCHANGED <<enabled, HELD, locked, section, phase>>
  <2>1. saved'[next] \in BOOLEAN
    BY <1>3, RunningHolds DEF Handler, LocksTypeOK
  <2>2. QED
    BY <1>3, <1>4, <2>1 DEF Handler
<1>6. LocksTypeOK'
  BY ZenonT(60), <1>4, <1>5, RunningHolds DEF LocksTypeOK
<1>7. ASSUME NEW t \in Thread
      PROVE  ParkedOK(section[t], phase[t], TRUE, saved'[t])
  <2>1. CASE t = running
    <3>1. saved'[t] = IFlag
      BY <1>5, <2>1, RunningHolds DEF LocksTypeOK
    <3>2. QED
      BY ZenonT(60), <1>2, <2>1, <3>1
  <2>2. CASE t # running
    <3>1. saved'[t] = saved[t]
      BY <1>5, <2>2, RunningHolds DEF LocksTypeOK
    <3>2. QED
      BY ZenonT(60), <1>1, <2>2, <3>1 DEF LockInv
  <2>3. QED
    BY ZenonT(60), <2>1, <2>2
<1>8. StackOK(section[next], phase[next], TRUE, saved'[next], locked, HELD)
  BY ZenonT(60), <1>2, <1>7, ResumeStack
<1>9. QED
  BY ZenonT(60), <1>1, <1>4, <1>5, <1>6, <1>7, <1>8 DEF LockInv

-----------------------------------------------------------------------------
(* The theorems about the locks *)

\* At first nobody holds a guard.
LEMMA LockInvInit ==
    ASSUME LockInit
    PROVE  LockInv
<1>1. LocksTypeOK
  <2>1. <<>> \in Seq(Guard)
    OBVIOUS
  <2>2. QED
    BY ZenonT(60), <2>1, LocksAssumption DEF LockInit, LocksTypeOK, Phase
<1>2. \A t \in Thread : ParkedOK(section[t], phase[t], enabled, saved[t])
  BY DEF LockInit, ParkedOK, InOrder, OwnsIn
<1>3. StackOK(section[running], phase[running], enabled, IFlag, locked, HELD)
  BY LocksAssumption DEF LockInit, StackOK, InOrder, InsideOf, OwnsIn, CountedIn
<1>4. QED
  BY ZenonT(60), <1>1, <1>2, <1>3 DEF LockInv, LockInit

\* Every step of a thread that uses the locks, and every switch, keeps LockInv.
LEMMA LockInvNext ==
    ASSUME LockInv, [LockNext]_lockVars
    PROVE  LockInv'
<1>1. CASE UNCHANGED lockVars
  BY <1>1 DEF LockInv, LocksTypeOK, lockVars
<1>2. CASE LockNext
  BY <1>2, EnterInv, CliInv, SwapInv, CountInv, DiscountInv, UnlockInv, LeaveInv,
     EnableInterruptsInv, SpawnInv, HandlerInv DEF LockNext
<1>3. QED
  BY <1>1, <1>2

\* The inductive invariant of lock.rs.
THEOREM LocksInvariance == LockSpec => []LockInv
BY LockInvInit, LockInvNext, PTL DEF LockSpec

\* Every variable keeps its type; HELD never wraps below zero.
THEOREM LocksTypeCorrect == LockSpec => []LocksTypeOK
<1>1. LockInv => LocksTypeOK
  BY DEF LockInv
<1>2. QED
  BY <1>1, LocksInvariance, PTL

\* No lock() and no handler ever finds the flag it swaps set: with any number
\* of threads and locks, and wherever the timer strikes, nobody spins.
THEOREM NobodySpins == LockSpec => []NeverSpins
<1>1. ASSUME LockInv
      PROVE  NeverSpins
  <2>1. ASSUME phase[running] = "spin"
        PROVE  ~ locked[Innermost(running).lock]
    <3>1. /\ section[running] \in Seq(Guard) /\ locked \in [Lock -> BOOLEAN]
          /\ StackOK(section[running], "spin", enabled, IFlag, locked, HELD)
      BY <1>1, <2>1, RunningHolds
    <3>2. QED
      BY ZenonT(60), <3>1, SwapStack DEF Innermost
  <2>2. QED
    BY <1>1, <2>1 DEF NeverSpins, LockInv
<1>2. QED
  BY <1>1, LocksInvariance, PTL

\* HELD is the number of locks of the running thread, the locks that are
\* taken are that thread's, and no lock is held across a context switch.
THEOREM HeldIsExact == LockSpec => []HeldCountsOwnLocks
<1>1. ASSUME LockInv
      PROVE  HeldCountsOwnLocks
  <2>1. \A t \in Thread, l \in Lock :
           /\ Owns(t, l) <=> OwnsIn(section[t], phase[t], l)
           /\ Counted(t, l) <=> CountedIn(section[t], phase[t], l)
    BY DEF Owns, OwnsIn, Counted, CountedIn
  <2>2. \A t \in Thread \ {running}, l \in Lock : ~ OwnsIn(section[t], phase[t], l)
    BY <1>1 DEF LockInv, ParkedOK
  <2>3. QED
    BY <1>1, <2>1, <2>2, RunningHolds DEF HeldCountsOwnLocks, StackOK
<1>2. QED
  BY <1>1, LocksInvariance, PTL

\* Nested guards restore exactly the interrupt flag they found.
THEOREM GuardsRestore == LockSpec => []FlagFollowsGuards
<1>1. ASSUME LockInv
      PROVE  FlagFollowsGuards
  BY <1>1, RunningHolds DEF FlagFollowsGuards, StackOK, Inside, InsideOf
<1>2. QED
  BY <1>1, LocksInvariance, PTL

-----------------------------------------------------------------------------
(* kernel_main: the invariant *)

\* Records by their shape.
IsThread(w) == \E A, B, C : w \in [pc : A, left : B, reg : C]

IsBoot(b) ==
    \E A, B : b \in [at : Nat \ {0}, id : ThreadId \cup {NO_THREAD}, workers : A, before : B]

\* The instruction init_boot, and the sti that follows it.
InitBootAt == 10

\* Up to init_boot the scheduler is as New leaves it, also when a failure jumps
\* over init_boot; afterwards the scheduler and the CPU agree.
BootOrder(s, at, on, cpu) ==
    /\ at <= InitBootAt => s = New /\ ~ on
    /\ \/ s = New /\ ~ on /\ (at <= InitBootAt \/ at >= Finish)
       \/ SchedPart(s, Boot) /\ s.current = cpu

\* User code runs outside every critical section.
Outside(w, guards, p) == w.pc = "user" => guards = <<>> /\ p = "none"

MainInv ==
    /\ LockInv
    /\ preemption \in BOOLEAN
    /\ thread = [t \in ThreadId |-> thread[t]]
    /\ \A t \in ThreadId : IsThread(thread[t])
    /\ IsBoot(boot)
    /\ BootOrder(sched, boot.at, enabled, running)
    /\ \A t \in ThreadId \ {Boot} : Outside(thread[t], section[t], phase[t])

-----------------------------------------------------------------------------
(* BootCode *)

\* What is executed between the sti and the exit protocol.
MiddleOp ==
    {"try", "alloc", "free", "note", "compare", "zero", "tally", "probe", "held", "reset",
     "clock", "register", "prepare", "wait", "verify"}

Op == MiddleOp \cup {"init_boot", "sti", "critical", "report"}

\* A list of instructions with operations of O.
IsCode(c, O) == (\E S : c \in Seq(S)) /\ \A i \in 1 .. Len(c) : c[i].op \in O

\* An instruction of a kernel that has not got past step 3: a failure is
\* reported by one of the steps that may do so without preemption.
EarlyStep == {"handoff", "memory", "sched", "step3"}

IsEarly(do) ==
    /\ do.op # "note" => do.step \in EarlyStep
    /\ do.op = "reset" => do.arg = "preempt"

\* A list written out.
LEMMA TupleCode ==
    ASSUME NEW O, NEW n \in Nat, NEW c, c = [i \in 1 .. n |-> c[i]],
           \A i \in 1 .. n : c[i].op \in O
    PROVE  IsCode(c, O) /\ Len(c) = n
<1>1. PICK S : S = {c[i] : i \in 1 .. n}
  BY ZenonT(60)
<1>2. c \in [1 .. n -> S]
  BY <1>1
<1>3. c \in Seq(S) /\ Len(c) = n
  BY <1>2
<1> QED
  BY <1>3 DEF IsCode

\* j is a, of length m, followed by b, of length n.
Joined(j, a, m, b, n) ==
    /\ \A i \in 1 .. m : j[i] = a[i]
    /\ \A i \in 1 .. n : j[m + i] = b[i]

\* One list after the other.
LEMMA JoinedCode ==
    ASSUME NEW O, NEW a, NEW b, IsCode(a, O), IsCode(b, O)
    PROVE  /\ IsCode(a \o b, O)
           /\ Len(a \o b) = Len(a) + Len(b)
           /\ Joined(a \o b, a, Len(a), b, Len(b))
<1>1. PICK S : a \in Seq(S)
  BY DEF IsCode
<1>2. PICK T : b \in Seq(T)
  BY DEF IsCode
<1>3. a \in Seq(S \cup T) /\ b \in Seq(S \cup T)
  BY <1>1, <1>2
<1> QED
  BY <1>3 DEF IsCode, Joined

\* A loop.
LEMMA TimesCode ==
    ASSUME NEW O, NEW a, IsCode(a, O), NEW n \in Nat
    PROVE  IsCode(Times(n, a), O)
<1>1. PICK S : a \in Seq(S)
  BY DEF IsCode
<1>2. PICK k \in Nat : k = Len(a)
  BY <1>1
<1>3. PICK m \in Nat : m = n * k
  BY <1>2
<1>4. ASSUME NEW i \in 1 .. m
      PROVE  ((i - 1) % k) + 1 \in 1 .. k
  <2>1. k # 0
    BY <1>2, <1>3, <1>4
  <2> QED
    BY <1>2, <1>4, <2>1
<1>5. Times(n, a) = [i \in 1 .. m |-> a[((i - 1) % k) + 1]]
  BY <1>2, <1>3 DEF Times
<1>6. \A i \in 1 .. m : /\ a[((i - 1) % k) + 1] \in S
                        /\ a[((i - 1) % k) + 1].op \in O
  BY <1>1, <1>2, <1>4 DEF IsCode
<1>7. Times(n, a) \in [1 .. m -> S]
  BY ZenonT(60), <1>5, <1>6
<1>8. Times(n, a) \in Seq(S) /\ Len(Times(n, a)) = m
  BY <1>7
<1> QED
  BY ZenonT(60), <1>5, <1>6, <1>8 DEF IsCode

\* A creation, of whatever thread.
LEMMA CreationCode ==
    ASSUME NEW entry, NEW step
    PROVE  IsCode(Creation(entry, step), MiddleOp) /\ Len(Creation(entry, step)) = 3
<1>1. PICK c : c = Creation(entry, step)
  OBVIOUS
<1>2. c = [i \in 1 .. 3 |-> c[i]]
  BY <1>1 DEF Creation
<1>3. \A i \in 1 .. 3 : c[i].op \in MiddleOp
  BY <1>1 DEF Creation, Do, MiddleOp
<1> QED
  BY ZenonT(60), <1>1, <1>2, <1>3, TupleCode

\* wait_for_ticks up to create_idle.
LEMMA ClockCodeShape ==
    /\ IsCode(ClockCode, MiddleOp) /\ Len(ClockCode) = 9
    /\ \A i \in 1 .. 9 : IsEarly(ClockCode[i])
<1>1. PICK c : c = <<Do("wait", "ticks", "sched"), Do("note", 0, "sched"),
                     Do("alloc", 1, "sched"), Do("free", 1, "sched"),
                     Do("compare", 0, "sched"), Do("held", 0, "sched")>>
  BY ZenonT(60)
<1>2. PICK d : d = Creation("idle", "sched")
  OBVIOUS
<1>3. IsCode(c, MiddleOp) /\ Len(c) = 6
  <2>1. c = [i \in 1 .. 6 |-> c[i]] /\ \A i \in 1 .. 6 : c[i].op \in MiddleOp
    BY <1>1 DEF Do, MiddleOp
  <2> QED
    BY ZenonT(60), <2>1, TupleCode
<1>4. IsCode(d, MiddleOp) /\ Len(d) = 3
  BY ZenonT(60), <1>2, CreationCode
<1>5. ClockCode = c \o d
  BY ZenonT(60), <1>1, <1>2 DEF ClockCode
<1>6. \A i \in 1 .. 6 : IsEarly(c[i])
  BY <1>1 DEF Do, IsEarly, EarlyStep
<1>7. \A i \in 1 .. 3 : IsEarly(d[i])
  BY <1>2 DEF Creation, Do, IsEarly, EarlyStep
<1>8. IsCode(ClockCode, MiddleOp) /\ Len(ClockCode) = 6 + 3 /\ Joined(ClockCode, c, 6, d, 3)
  <2>1. /\ IsCode(ClockCode, MiddleOp) /\ Len(ClockCode) = Len(c) + Len(d)
        /\ Joined(ClockCode, c, Len(c), d, Len(d))
    BY ZenonT(60), <1>3, <1>4, <1>5, JoinedCode
  <2> QED
    BY ZenonT(60), <1>3, <1>4, <2>1
<1>9. ASSUME NEW i \in 1 .. 9 PROVE IsEarly(ClockCode[i])
  <2>1. CASE i \in 1 .. 6
    BY ZenonT(60), <1>6, <1>8, <2>1 DEF Joined
  <2>2. CASE i \in 7 .. 9
    <3>1. i - 6 \in 1 .. 3 /\ 6 + (i - 6) = i
      BY <2>2
    <3> QED
      BY <1>7, <1>8, <3>1 DEF Joined
  <2> QED
    BY <2>1, <2>2
<1> QED
  BY <1>8, <1>9

\* step3_and_4_preemption: up to the wait only step 3 can fail.
LEMMA PreemptCodeShape ==
    /\ IsCode(PreemptCode, MiddleOp) /\ Len(PreemptCode) = 11
    /\ \A i \in 1 .. 7 : IsEarly(PreemptCode[i])
    /\ PreemptCode[8] = Do("wait", "result", "step3")
<1>1. PICK c : c = <<Do("reset", "preempt", "step3")>>
  BY ZenonT(60)
<1>2. PICK d : d = Creation("start", "step3")
  OBVIOUS
<1>3. PICK e : e = Creation("set", "step3")
  OBVIOUS
<1>4. PICK f : f = <<Do("wait", "result", "step3"), Do("verify", "preempted", "step3"),
                     Do("verify", "ticked", "step4"), Do("verify", "switched", "step4")>>
  BY ZenonT(60)
<1>5. IsCode(c, MiddleOp) /\ Len(c) = 1
  <2>1. c = [i \in 1 .. 1 |-> c[i]] /\ \A i \in 1 .. 1 : c[i].op \in MiddleOp
    BY <1>1 DEF Do, MiddleOp
  <2> QED
    BY ZenonT(60), <2>1, TupleCode
<1>6. IsCode(f, MiddleOp) /\ Len(f) = 4
  <2>1. f = [i \in 1 .. 4 |-> f[i]] /\ \A i \in 1 .. 4 : f[i].op \in MiddleOp
    BY <1>4 DEF Do, MiddleOp
  <2> QED
    BY ZenonT(60), <2>1, TupleCode
<1>7. IsCode(d, MiddleOp) /\ Len(d) = 3 /\ IsCode(e, MiddleOp) /\ Len(e) = 3
  BY <1>2, <1>3, CreationCode
<1>8. PICK cd : cd = c \o d
  BY ZenonT(60)
<1>9. PICK cde : cde = cd \o e
  BY ZenonT(60)
<1>10. PreemptCode = cde \o f
  BY <1>1, <1>2, <1>3, <1>4, <1>8, <1>9 DEF PreemptCode
<1>11. IsCode(cd, MiddleOp) /\ Len(cd) = 1 + 3 /\ Joined(cd, c, 1, d, 3)
  <2>1. /\ IsCode(cd, MiddleOp) /\ Len(cd) = Len(c) + Len(d)
        /\ Joined(cd, c, Len(c), d, Len(d))
    BY ZenonT(60), <1>5, <1>7, <1>8, JoinedCode
  <2> QED
    BY ZenonT(60), <1>5, <1>7, <2>1
<1>12. IsCode(cde, MiddleOp) /\ Len(cde) = 4 + 3 /\ Joined(cde, cd, 4, e, 3)
  <2>1. Len(cd) = 4
    BY <1>11
  <2>2. /\ IsCode(cde, MiddleOp) /\ Len(cde) = Len(cd) + Len(e)
        /\ Joined(cde, cd, Len(cd), e, Len(e))
    BY ZenonT(60), <1>7, <1>9, <1>11, JoinedCode
  <2> QED
    BY ZenonT(60), <1>7, <2>1, <2>2
<1>13. /\ IsCode(PreemptCode, MiddleOp) /\ Len(PreemptCode) = 7 + 4
       /\ Joined(PreemptCode, cde, 7, f, 4)
  <2>1. Len(cde) = 7
    BY <1>12
  <2>2. /\ IsCode(PreemptCode, MiddleOp) /\ Len(PreemptCode) = Len(cde) + Len(f)
        /\ Joined(PreemptCode, cde, Len(cde), f, Len(f))
    BY ZenonT(60), <1>6, <1>10, <1>12, JoinedCode
  <2> QED
    BY ZenonT(60), <1>6, <2>1, <2>2
<1>14. \A i \in 1 .. 3 : IsEarly(d[i]) /\ IsEarly(e[i])
  BY <1>2, <1>3 DEF Creation, Do, IsEarly, EarlyStep
<1>15. IsEarly(c[1]) /\ f[1] = Do("wait", "result", "step3")
  BY <1>1, <1>4 DEF Do, IsEarly, EarlyStep
<1>16. \A i \in 1 .. 4 : IsEarly(cd[i])
  <2>1. cd[1] = c[1] /\ cd[1 + 1] = d[1] /\ cd[1 + 2] = d[2] /\ cd[1 + 3] = d[3]
    BY <1>11 DEF Joined
  <2> QED
    BY <1>14, <1>15, <2>1
<1>17. \A i \in 1 .. 7 : IsEarly(cde[i])
  <2>1. cde[4 + 1] = e[1] /\ cde[4 + 2] = e[2] /\ cde[4 + 3] = e[3]
    BY <1>12 DEF Joined
  <2> QED
    BY <1>12, <1>14, <1>16, <2>1 DEF Joined
<1>18. PreemptCode[7 + 1] = f[1]
  BY <1>13 DEF Joined
<1>19. PreemptCode[8] = Do("wait", "result", "step3")
  BY <1>15, <1>18
<1> QED
  BY <1>13, <1>17, <1>19 DEF Joined

\* The other steps of the self-check, whatever the number of workers.
LEMMA WorkersCodeShape == IsCode(MutexCode, MiddleOp) /\ IsCode(OrderCode, MiddleOp)
<1>1. \A entry, step, n : n \in Nat => IsCode(Times(n, Creation(entry, step)), MiddleOp)
  BY CreationCode, TimesCode
<1>2. LOCK_WORKERS \in Nat /\ ROUND_ROBIN_WORKERS \in Nat
  BY KernelMainAssumption
<1>3. IsCode(MutexCode, MiddleOp)
  <2>1. PICK c : c = <<Do("zero", 0, "step1"), Do("reset", "mutex", "step1")>>
    BY ZenonT(60)
  <2>2. PICK d : d = <<Do("wait", "lockers", "step1"), Do("tally", 0, "step1")>>
    BY ZenonT(60)
  <2>3. c = [i \in 1 .. 2 |-> c[i]] /\ \A i \in 1 .. 2 : c[i].op \in MiddleOp
    BY <2>1 DEF Do, MiddleOp
  <2>4. d = [i \in 1 .. 2 |-> d[i]] /\ \A i \in 1 .. 2 : d[i].op \in MiddleOp
    BY <2>2 DEF Do, MiddleOp
  <2>5. IsCode(c, MiddleOp) /\ IsCode(d, MiddleOp)
    BY ZenonT(60), <2>3, <2>4, TupleCode
  <2> QED
    BY <1>1, <1>2, <2>1, <2>2, <2>5, JoinedCode DEF MutexCode
<1>4. IsCode(OrderCode, MiddleOp)
  <2>1. PICK c : c = <<Do("reset", "order", "step2")>>
    BY ZenonT(60)
  <2>2. PICK d : d = <<Do("wait", "appenders", "step2"), Do("verify", "in_turn", "step2")>>
    BY ZenonT(60)
  <2>3. c = [i \in 1 .. 1 |-> c[i]] /\ \A i \in 1 .. 1 : c[i].op \in MiddleOp
    BY <2>1 DEF Do, MiddleOp
  <2>4. d = [i \in 1 .. 2 |-> d[i]] /\ \A i \in 1 .. 2 : d[i].op \in MiddleOp
    BY <2>2 DEF Do, MiddleOp
  <2>5. IsCode(c, MiddleOp) /\ IsCode(d, MiddleOp)
    BY ZenonT(60), <2>3, <2>4, TupleCode
  <2> QED
    BY <1>1, <1>2, <2>1, <2>2, <2>5, JoinedCode DEF OrderCode
<1> QED
  BY <1>3, <1>4

\* The checks that follow, and user::init.
LEMMA ClosingCodeShape == IsCode(SettleCode, MiddleOp) /\ IsCode(UserCode, MiddleOp)
<1>1. IsCode(SettleCode, MiddleOp)
  <2>1. PICK c : c = SettleCode
    OBVIOUS
  <2>2. c = [i \in 1 .. 8 |-> c[i]] /\ \A i \in 1 .. 8 : c[i].op \in MiddleOp
    BY <2>1 DEF SettleCode, Do, MiddleOp
  <2> QED
    BY ZenonT(60), <2>1, <2>2, TupleCode
<1>2. IsCode(UserCode, MiddleOp)
  <2>1. PICK c : c = <<Do("try", "has_user_image", "user"), Do("alloc", USER_STACK_PAGES, "user"),
                       Do("try", "map_user_region", "user"), Do("clock", 0, "user")>>
    BY ZenonT(60)
  <2>2. PICK d : d = <<Do("wait", "served", "user"), Do("verify", "elapsed", "user"),
                       Do("verify", "rsp0", "user")>>
    BY ZenonT(60)
  <2>3. c = [i \in 1 .. 4 |-> c[i]] /\ \A i \in 1 .. 4 : c[i].op \in MiddleOp
    BY <2>1 DEF Do, MiddleOp
  <2>4. d = [i \in 1 .. 3 |-> d[i]] /\ \A i \in 1 .. 3 : d[i].op \in MiddleOp
    BY <2>2 DEF Do, MiddleOp
  <2>5. IsCode(c, MiddleOp) /\ IsCode(d, MiddleOp)
    BY ZenonT(60), <2>3, <2>4, TupleCode
  <2> QED
    BY ZenonT(60), <2>1, <2>2, <2>5, CreationCode, JoinedCode DEF UserCode
<1> QED
  BY <1>1, <1>2

\* A beginning of BootCode: SetupCode and then something of MiddleOp.
IsPrologue(c) ==
    /\ IsCode(c, Op) /\ Len(c) \in Nat /\ Len(c) >= 11
    /\ \A i \in 1 .. 11 : c[i] = SetupCode[i]
    /\ \A i \in 12 .. Len(c) : c[i].op \in MiddleOp

\* Code that is put after the prologue leaves it as it is.
LEMMA LongerPrologue ==
    ASSUME NEW c, IsPrologue(c), NEW d, IsCode(d, MiddleOp)
    PROVE  /\ IsPrologue(c \o d) /\ Len(d) \in Nat
           /\ Len(c \o d) = Len(c) + Len(d) /\ Joined(c \o d, c, Len(c), d, Len(d))
<1>1. IsCode(c, Op) /\ IsCode(d, Op)
  BY ZenonT(60) DEF IsPrologue, IsCode, Op
<1>2. PICK j : j = c \o d
  BY ZenonT(60)
<1>3. PICK m \in Nat : m = Len(c) /\ m >= 11
  BY DEF IsPrologue
<1>4. PICK n \in Nat : n = Len(d)
  BY DEF IsCode
<1>5. IsCode(j, Op) /\ Len(j) = m + n /\ Joined(j, c, m, d, n)
  BY ZenonT(60), <1>1, <1>2, <1>3, <1>4, JoinedCode
<1>6. \A i \in 1 .. 11 : j[i] = SetupCode[i]
  BY <1>3, <1>5 DEF IsPrologue, Joined
<1>7. ASSUME NEW i \in 12 .. m + n PROVE j[i].op \in MiddleOp
  <2>1. CASE i <= m
    <3>1. i \in 1 .. m /\ i \in 12 .. m
      BY <1>3, <1>7, <2>1
    <3> QED
      BY ZenonT(60), <1>3, <1>5, <3>1 DEF IsPrologue, Joined
  <2>2. CASE i > m
    <3>1. i - m \in 1 .. n /\ m + (i - m) = i
      BY <1>3, <1>4, <1>7, <2>2
    <3> QED
      BY ZenonT(60), <1>4, <1>5, <3>1 DEF IsCode, Joined
  <2> QED
    BY <1>3, <1>4, <1>7, <2>1, <2>2
<1>8. IsPrologue(j)
  BY <1>3, <1>4, <1>5, <1>6, <1>7 DEF IsPrologue
<1> QED
  BY ZenonT(60), <1>2, <1>3, <1>4, <1>5, <1>8

\* The self-check begins with step 3, whatever the number of workers.
LEMMA SelfCheckCodeShape ==
    /\ IsCode(SelfCheckCode, MiddleOp)
    /\ Len(SelfCheckCode) \in Nat /\ Len(SelfCheckCode) >= 12
    /\ SelfCheckCode[1].op = "note"
    /\ \A i \in 1 .. 11 : SelfCheckCode[1 + i] = PreemptCode[i]
<1>1. PICK c : c = <<Do("note", 0, "step5")>>
  BY ZenonT(60)
<1>2. IsCode(c, MiddleOp) /\ Len(c) = 1 /\ c[1].op = "note"
  <2>1. c = [i \in 1 .. 1 |-> c[i]] /\ \A i \in 1 .. 1 : c[i].op \in MiddleOp
    BY <1>1 DEF Do, MiddleOp
  <2> QED
    BY ZenonT(60), <1>1, <2>1, TupleCode DEF Do
<1>3. PICK cp : cp = c \o PreemptCode
  BY ZenonT(60)
<1>4. PICK cpm : cpm = cp \o MutexCode
  BY ZenonT(60)
<1>5. SelfCheckCode = cpm \o OrderCode
  BY <1>1, <1>3, <1>4 DEF SelfCheckCode
<1>6. /\ IsCode(cp, MiddleOp) /\ Len(cp) = Len(c) + Len(PreemptCode)
      /\ Joined(cp, c, Len(c), PreemptCode, Len(PreemptCode))
  BY ZenonT(60), <1>2, <1>3, PreemptCodeShape, JoinedCode
<1>7. Len(cp) = 12 /\ Joined(cp, c, 1, PreemptCode, 11)
  <2>1. Len(cp) = 1 + 11 /\ Joined(cp, c, 1, PreemptCode, 11)
    BY ZenonT(60), <1>2, <1>6, PreemptCodeShape
  <2> QED
    BY <2>1
<1>8. PICK m : m = Len(MutexCode)
  BY ZenonT(60)
<1>9. /\ IsCode(cpm, MiddleOp) /\ Len(cpm) = Len(cp) + Len(MutexCode)
      /\ Joined(cpm, cp, Len(cp), MutexCode, Len(MutexCode))
  BY ZenonT(60), <1>4, <1>6, WorkersCodeShape, JoinedCode
<1>10. m \in Nat /\ Len(cpm) = 12 + m /\ Joined(cpm, cp, 12, MutexCode, m)
  <2>1. m \in Nat
    BY <1>8, WorkersCodeShape DEF IsCode
  <2> QED
    BY ZenonT(60), <1>7, <1>8, <1>9, <2>1
<1>11. PICK n : n = Len(OrderCode)
  BY ZenonT(60)
<1>12. /\ IsCode(SelfCheckCode, MiddleOp) /\ Len(SelfCheckCode) = Len(cpm) + Len(OrderCode)
       /\ Joined(SelfCheckCode, cpm, Len(cpm), OrderCode, Len(OrderCode))
  BY ZenonT(60), <1>5, <1>9, WorkersCodeShape, JoinedCode
<1>13. /\ n \in Nat /\ Len(SelfCheckCode) = (12 + m) + n
       /\ Joined(SelfCheckCode, cpm, 12 + m, OrderCode, n)
  <2>1. n \in Nat
    BY <1>11, WorkersCodeShape DEF IsCode
  <2> QED
    BY ZenonT(60), <1>10, <1>11, <1>12, <2>1
<1>14. \A i \in 1 .. 12 : SelfCheckCode[i] = cp[i]
  BY <1>10, <1>13 DEF Joined
<1>15. cp[1] = c[1] /\ \A i \in 1 .. 11 : cp[1 + i] = PreemptCode[i]
  BY <1>7 DEF Joined
<1>16. SelfCheckCode[1].op = "note"
  BY <1>2, <1>14, <1>15
<1>17. \A i \in 1 .. 11 : SelfCheckCode[1 + i] = PreemptCode[i]
  BY <1>14, <1>15
<1>18. Len(SelfCheckCode) \in Nat /\ Len(SelfCheckCode) >= 12
  BY <1>10, <1>13
<1> QED
  BY <1>12, <1>16, <1>17, <1>18

\* SetupCode.
LEMMA SetupCodeShape ==
    /\ IsPrologue(SetupCode) /\ Len(SetupCode) = 11
    /\ \A i \in 1 .. 9 : SetupCode[i].op \in {"try", "alloc"}
    /\ SetupCode[10].op = "init_boot" /\ SetupCode[11].op = "sti"
    /\ \A i \in 1 .. 11 : IsEarly(SetupCode[i])
<1>1. PICK c : c = SetupCode
  OBVIOUS
<1>2. c = [i \in 1 .. 11 |-> c[i]]
  BY <1>1 DEF SetupCode
<1>3. \A i \in 1 .. 9 : c[i].op \in {"try", "alloc"}
  BY <1>1 DEF SetupCode, Do
<1>4. c[10].op = "init_boot" /\ c[11].op = "sti"
  BY ZenonT(60), <1>1 DEF SetupCode, Do
<1>5. \A i \in 1 .. 11 : IsEarly(c[i])
  BY <1>1 DEF SetupCode, Do, IsEarly, EarlyStep
<1>6. \A i \in 1 .. 11 : c[i].op \in Op
  BY <1>3, <1>4 DEF Op, MiddleOp
<1>7. IsCode(c, Op) /\ Len(c) = 11
  BY ZenonT(60), <1>2, <1>6, TupleCode
<1>8. IsPrologue(c)
  BY <1>1, <1>7 DEF IsPrologue
<1> QED
  BY ZenonT(60), <1>1, <1>3, <1>4, <1>5, <1>7, <1>8

\* BootCode, whatever the number of workers: the setup, the exit protocol, and
\* the wait of step 3 before any other step of the self-check.
LEMMA BootCodeShape ==
    /\ Finish \in Nat /\ Finish >= 33 /\ Len(BootCode) = Finish + 1
    /\ \A i \in 1 .. 9 : BootCode[i].op \in {"try", "alloc"}
    /\ BootCode[10].op = "init_boot" /\ BootCode[11].op = "sti"
    /\ \A i \in 12 .. (Finish - 2) : BootCode[i].op \in MiddleOp
    /\ BootCode[Finish - 1].op = "critical" /\ BootCode[Finish].op = "critical"
    /\ BootCode[Finish + 1].op = "report"
    /\ \A i \in 1 .. 28 : IsEarly(BootCode[i])
    /\ BootCode[29] = Do("wait", "result", "step3")
<1>1. PICK a : a = SetupCode \o ClockCode
  BY ZenonT(60)
<1>2. PICK b : b = a \o SelfCheckCode
  BY ZenonT(60)
<1>3. PICK c : c = b \o SettleCode
  BY ZenonT(60)
<1>4. PICK d : d = c \o UserCode
  BY ZenonT(60)
<1>5. BootCode = d \o FinishCode
  BY ZenonT(60), <1>1, <1>2, <1>3, <1>4 DEF BootCode
<1>6. /\ IsPrologue(a) /\ Len(a) = Len(SetupCode) + Len(ClockCode)
      /\ Joined(a, SetupCode, Len(SetupCode), ClockCode, Len(ClockCode))
  BY ZenonT(60), <1>1, SetupCodeShape, ClockCodeShape, LongerPrologue
<1>7. Len(a) = 20 /\ Joined(a, SetupCode, 11, ClockCode, 9)
  <2>1. Len(a) = 11 + 9 /\ Joined(a, SetupCode, 11, ClockCode, 9)
    BY ZenonT(60), <1>6, SetupCodeShape, ClockCodeShape
  <2> QED
    BY <2>1
<1>8. PICK k \in Nat : k = Len(SelfCheckCode) /\ k >= 12
  BY SelfCheckCodeShape
<1>9. /\ IsPrologue(b) /\ Len(b) = Len(a) + Len(SelfCheckCode)
      /\ Joined(b, a, Len(a), SelfCheckCode, Len(SelfCheckCode))
  BY ZenonT(60), <1>2, <1>6, SelfCheckCodeShape, LongerPrologue
<1>10. Len(b) = 20 + k /\ Joined(b, a, 20, SelfCheckCode, k)
  BY ZenonT(60), <1>7, <1>8, <1>9
<1>11. /\ IsPrologue(c) /\ Len(SettleCode) \in Nat /\ Len(c) = Len(b) + Len(SettleCode)
       /\ Joined(c, b, Len(b), SettleCode, Len(SettleCode))
  BY ZenonT(60), <1>3, <1>9, ClosingCodeShape, LongerPrologue
<1>12. /\ IsPrologue(d) /\ Len(UserCode) \in Nat /\ Len(d) = Len(c) + Len(UserCode)
       /\ Joined(d, c, Len(c), UserCode, Len(UserCode))
  BY ZenonT(60), <1>4, <1>11, ClosingCodeShape, LongerPrologue
<1>13. PICK m \in Nat : m = Len(d) /\ m >= 32
  BY <1>8, <1>10, <1>11, <1>12
<1>14. /\ IsCode(FinishCode, Op) /\ Len(FinishCode) = 3
       /\ FinishCode[1].op = "critical" /\ FinishCode[2].op = "critical"
       /\ FinishCode[3].op = "report"
  <2>1. PICK f : f = FinishCode
    OBVIOUS
  <2>2. f[1].op = "critical" /\ f[2].op = "critical" /\ f[3].op = "report"
    BY <2>1 DEF FinishCode, Do
  <2>3. f = [i \in 1 .. 3 |-> f[i]]
    BY <2>1 DEF FinishCode
  <2>4. \A i \in 1 .. 3 : f[i].op \in Op
    BY <2>2 DEF Op
  <2>5. IsCode(f, Op) /\ Len(f) = 3
    BY ZenonT(60), <2>3, <2>4, TupleCode
  <2> QED
    BY ZenonT(60), <2>1, <2>2, <2>5
<1>15. Len(BootCode) = m + 3 /\ Joined(BootCode, d, m, FinishCode, 3)
  <2>1. IsCode(d, Op)
    BY <1>12 DEF IsPrologue
  <2>2. /\ Len(BootCode) = Len(d) + Len(FinishCode)
        /\ Joined(BootCode, d, Len(d), FinishCode, Len(FinishCode))
    BY ZenonT(60), <1>5, <1>14, <2>1, JoinedCode
  <2> QED
    BY ZenonT(60), <1>13, <1>14, <2>2
<1>16. Finish = m + 2
  BY <1>15 DEF Finish
<1>17. \A i \in 1 .. m : BootCode[i] = d[i]
  BY ZenonT(60), <1>15 DEF Joined
<1>18. /\ BootCode[m + 1] = FinishCode[1] /\ BootCode[m + 2] = FinishCode[2]
       /\ BootCode[m + 3] = FinishCode[3]
  BY <1>15 DEF Joined
<1>19. \A i \in 1 .. 11 : BootCode[i] = SetupCode[i]
  BY <1>12, <1>13, <1>17 DEF IsPrologue
<1>20. \A i \in 12 .. m : BootCode[i].op \in MiddleOp
  BY <1>12, <1>13, <1>17 DEF IsPrologue
<1>21. ASSUME NEW i \in 1 .. 32 PROVE BootCode[i] = b[i]
  <2>1. PICK l \in Nat : l = Len(b) /\ l >= 32
    BY <1>8, <1>10
  <2>2. PICK p \in Nat : p = Len(c) /\ p >= 32
    BY <1>11, <2>1
  <2>3. i \in 1 .. l /\ i \in 1 .. p /\ i \in 1 .. m
    BY <1>13, <2>1, <2>2
  <2>4. Joined(c, b, l, SettleCode, Len(SettleCode)) /\ Joined(d, c, p, UserCode, Len(UserCode))
    BY ZenonT(60), <1>11, <1>12, <2>1, <2>2
  <2>5. c[i] = b[i] /\ d[i] = c[i]
    BY ZenonT(60), <2>3, <2>4 DEF Joined
  <2> QED
    BY ZenonT(60), <1>17, <2>3, <2>5
<1>22. ASSUME NEW i \in 12 .. 20
       PROVE  IsEarly(BootCode[i])
  <2>1. BootCode[i] = a[i]
    <3>1. i \in 1 .. 20 /\ i \in 1 .. 32
      OBVIOUS
    <3> QED
      BY ZenonT(60), <1>10, <1>21, <3>1 DEF Joined
  <2>2. i - 11 \in 1 .. 9 /\ 11 + (i - 11) = i
    OBVIOUS
  <2>3. a[i] = ClockCode[i - 11]
    BY <1>7, <2>2 DEF Joined
  <2> QED
    BY <2>1, <2>2, <2>3, ClockCodeShape
<1>23. ASSUME NEW i \in 1 .. 12 PROVE BootCode[20 + i] = SelfCheckCode[i]
  <2>1. BootCode[20 + i] = b[20 + i]
    BY <1>21
  <2>2. i \in 1 .. k
    BY <1>8
  <2> QED
    BY ZenonT(60), <1>10, <2>1, <2>2 DEF Joined
<1>24. BootCode[20 + 1].op = "note"
  <2>1. 1 \in 1 .. 12
    OBVIOUS
  <2> QED
    BY ZenonT(60), <1>23, <2>1, SelfCheckCodeShape
<1>25. ASSUME NEW i \in 1 .. 11 PROVE BootCode[20 + (1 + i)] = PreemptCode[i]
  <2>1. 1 + i \in 1 .. 12
    OBVIOUS
  <2> QED
    BY ZenonT(60), <1>23, <2>1, SelfCheckCodeShape
<1>26. ASSUME NEW i \in 22 .. 28 PROVE IsEarly(BootCode[i])
  <2>1. i - 21 \in 1 .. 7 /\ 20 + (1 + (i - 21)) = i
    OBVIOUS
  <2>2. BootCode[i] = PreemptCode[i - 21]
    BY <1>25, <2>1
  <2> QED
    BY <2>1, <2>2, PreemptCodeShape
<1>27. BootCode[29] = Do("wait", "result", "step3")
  <2>1. BootCode[20 + (1 + 8)] = PreemptCode[8]
    BY <1>25
  <2> QED
    BY <2>1, PreemptCodeShape
<1>28. \A i \in 1 .. 28 : IsEarly(BootCode[i])
  <2>1. \A i \in 1 .. 11 : IsEarly(BootCode[i])
    BY ZenonT(60), <1>19, SetupCodeShape
  <2>2. IsEarly(BootCode[21])
    BY <1>24 DEF IsEarly
  <2> QED
    BY <1>22, <1>26, <2>1, <2>2
<1>29. \A i \in 1 .. 9 : BootCode[i].op \in {"try", "alloc"}
  BY <1>19, SetupCodeShape
<1>30. BootCode[10].op = "init_boot" /\ BootCode[11].op = "sti"
  BY <1>19, SetupCodeShape
<1>31. /\ BootCode[Finish - 1].op = "critical" /\ BootCode[Finish].op = "critical"
       /\ BootCode[Finish + 1].op = "report"
  BY <1>14, <1>16, <1>18
<1>32. \A i \in 12 .. (Finish - 2) : BootCode[i].op \in MiddleOp
  BY <1>16, <1>20
<1> QED
  <2>1. Finish \in Nat /\ Finish >= 33 /\ Len(BootCode) = Finish + 1
    BY <1>13, <1>15, <1>16
  <2> QED
    BY ZenonT(60), <1>27, <1>28, <1>29, <1>30, <1>31, <1>32, <2>1

\* Where in BootCode an operation may stand.
LEMMA OpPlace ==
    ASSUME NEW i \in Nat \ {0}, i <= Len(BootCode)
    PROVE  /\ BootCode[i].op = "init_boot" => i = 10
           /\ BootCode[i].op = "sti" => i = 11
           /\ BootCode[i].op \in MiddleOp \ {"try", "alloc"} => i \in 12 .. (Finish - 2)
           /\ BootCode[i].op \in MiddleOp => i < Finish
           /\ BootCode[i].op = "critical" => i \in {Finish - 1, Finish}
           /\ BootCode[i].op = "report" => i = Finish + 1
<1>1. Finish \in Nat /\ Finish >= 33 /\ i <= Finish + 1
  BY BootCodeShape
<1>2. PICK o : o = BootCode[i].op
  OBVIOUS
<1>3. CASE i \in 1 .. 9
  <2>1. o \in {"try", "alloc"}
    BY ZenonT(60), <1>2, <1>3, BootCodeShape
  <2>2. i < Finish
    BY <1>1, <1>3
  <2> QED
    BY <1>2, <2>1, <2>2
<1>4. CASE i = 10
  <2>1. o = "init_boot"
    BY ZenonT(60), <1>2, <1>4, BootCodeShape
  <2> QED
    BY <1>1, <1>2, <1>4, <2>1 DEF MiddleOp
<1>5. CASE i = 11
  <2>1. o = "sti"
    BY ZenonT(60), <1>2, <1>5, BootCodeShape
  <2> QED
    BY <1>1, <1>2, <1>5, <2>1 DEF MiddleOp
<1>6. CASE i \in 12 .. (Finish - 2)
  <2>1. o \in MiddleOp
    BY ZenonT(60), <1>2, <1>6, BootCodeShape
  <2>2. o \notin {"init_boot", "sti", "critical", "report"}
    BY ZenonT(60), <2>1 DEF MiddleOp
  <2> QED
    BY <1>1, <1>2, <1>6, <2>2
<1>7. CASE i \in {Finish - 1, Finish}
  <2>1. o = "critical"
    BY ZenonT(60), <1>2, <1>7, BootCodeShape
  <2> QED
    BY <1>1, <1>2, <1>7, <2>1 DEF MiddleOp
<1>8. CASE i = Finish + 1
  <2>1. o = "report"
    BY ZenonT(60), <1>2, <1>8, BootCodeShape
  <2> QED
    BY ZenonT(60), <1>1, <1>2, <1>8, <2>1 DEF MiddleOp
<1>9. \/ i \in 1 .. 9 \/ i = 10 \/ i = 11 \/ i \in 12 .. (Finish - 2)
      \/ i \in {Finish - 1, Finish} \/ i = Finish + 1
  BY <1>1
<1> QED
  BY ZenonT(60), <1>3, <1>4, <1>5, <1>6, <1>7, <1>8, <1>9

-----------------------------------------------------------------------------
(* The scheduler *)

\* Threads are slots of the table.
LEMMA BootIsThread == Boot \in ThreadId /\ Thread = ThreadId
BY ZenonT(60), LocksAssumption, KernelMainAssumption

-----------------------------------------------------------------------------
(* Steps of one thread *)

\* The steps of Locks that a thread takes by itself.
LocalStep ==
    \/ UNCHANGED lockVars
    \/ \E l \in Lock \cup {NoLock} : Enter(l)
    \/ Discount \/ Cli \/ Swap \/ Count \/ Unlock \/ Leave

\* They leave the other threads alone.
LEMMA LocalStepRuns ==
    ASSUME LockInv, LocalStep
    PROVE  OnlyRunning /\ [LockNext]_lockVars
<1>1. /\ section \in [Thread -> Seq(Guard)] /\ phase \in [Thread -> Phase]
  BY DEF LockInv, LocksTypeOK
<1>2. [LockNext]_lockVars
  BY ZenonT(60) DEF LocalStep, LockNext
<1>3. OnlyRunning
  <2>1. CASE UNCHANGED lockVars
    BY ZenonT(60), <2>1 DEF lockVars, OnlyRunning
  <2>2. ASSUME NEW l, Enter(l) PROVE OnlyRunning
    BY ZenonT(60), <1>1, <2>2 DEF Enter, Push, GoTo, OnlyRunning
  <2>3. CASE Discount
    BY ZenonT(60), <1>1, <2>3 DEF Discount, GoTo, OnlyRunning
  <2>4. CASE Cli
    BY ZenonT(60), <1>1, <2>4 DEF Cli, GoTo, OnlyRunning
  <2>5. CASE Swap
    BY ZenonT(60), <1>1, <2>5 DEF Swap, GoTo, OnlyRunning
  <2>6. CASE Count
    BY ZenonT(60), <1>1, <2>6 DEF Count, GoTo, OnlyRunning
  <2>7. CASE Unlock
    BY ZenonT(60), <1>1, <2>7 DEF Unlock, GoTo, OnlyRunning
  <2>8. CASE Leave
    BY <1>1, <2>8 DEF Leave, Pop, GoTo, OnlyRunning
  <2> QED
    BY ZenonT(60), <2>1, <2>2, <2>3, <2>4, <2>5, <2>6, <2>7, <2>8 DEF LocalStep
<1> QED
  BY ZenonT(60), <1>2, <1>3

\* What the parts of the next state have to satisfy.
LEMMA MainStep ==
    ASSUME MainInv, [LockNext]_lockVars, preemption' \in BOOLEAN,
           thread' = [t \in ThreadId |-> thread'[t]],
           \A t \in ThreadId : IsThread(thread'[t]),
           IsBoot(boot'), BootOrder(sched', boot'.at, enabled', running'),
           \A t \in ThreadId \ {Boot} : Outside(thread'[t], section'[t], phase'[t])
    PROVE  MainInv'
<1>1. LockInv'
  BY ZenonT(60), LockInvNext DEF MainInv
<1> QED
  BY ZenonT(60), <1>1 DEF MainInv

\* The boot context goes on, or to finish.
LEMMA BootMoves ==
    ASSUME MainInv, running = Boot, LocalStep, UNCHANGED <<preemption, sched, thread>>,
           IsBoot(boot'), boot'.at \in {boot.at, boot.at + 1, Finish},
           boot.at = InitBootAt => boot' = boot
    PROVE  MainInv' /\ [LockNext]_lockVars
<1>1. LockInv /\ OnlyRunning /\ [LockNext]_lockVars
  BY ZenonT(60), LocalStepRuns DEF MainInv
<1>2. boot.at \in Nat /\ boot'.at \in Nat
  BY ZenonT(60) DEF MainInv, IsBoot
<1>3. BootOrder(sched, boot.at, enabled, running)
  BY ZenonT(60) DEF MainInv
<1>4. UNCHANGED <<running, enabled>>
  BY ZenonT(60), <1>1 DEF OnlyRunning
<1>5. BootOrder(sched', boot'.at, enabled', running')
  <2>1. boot'.at <= InitBootAt => boot.at <= InitBootAt
    <3>1. Finish \in Nat /\ Finish >= 33
      BY BootCodeShape
    <3> QED
      BY <1>2, <3>1 DEF InitBootAt
  <2>2. boot.at <= InitBootAt \/ boot.at >= Finish
            => boot'.at <= InitBootAt \/ boot'.at >= Finish
    <3>1. Finish \in Nat /\ Finish >= 33
      BY BootCodeShape
    <3> QED
      BY <1>2, <3>1 DEF InitBootAt
  <2> QED
    BY ZenonT(60), <1>3, <1>4, <2>1, <2>2 DEF BootOrder
<1>6. \A t \in ThreadId \ {Boot} : Outside(thread'[t], section'[t], phase'[t])
  BY <1>1, BootIsThread DEF MainInv, OnlyRunning
<1>7. /\ preemption' \in BOOLEAN /\ thread' = [t \in ThreadId |-> thread'[t]]
      /\ \A t \in ThreadId : IsThread(thread'[t])
  BY ZenonT(60) DEF MainInv
<1> QED
  BY <1>1, <1>5, <1>6, <1>7, MainStep

\* A worker goes on.
LEMMA WorkerMoves ==
    ASSUME MainInv, running # Boot, LocalStep, UNCHANGED <<preemption, sched, boot>>,
           NEW w, IsThread(w), w.pc # "user", thread' = [thread EXCEPT ![running] = w]
    PROVE  MainInv' /\ [LockNext]_lockVars
<1>1. LockInv /\ OnlyRunning /\ [LockNext]_lockVars
  BY ZenonT(60), LocalStepRuns DEF MainInv
<1>2. UNCHANGED <<running, enabled>> /\ running \in ThreadId
  BY ZenonT(60), <1>1, BootIsThread DEF OnlyRunning, LockInv, LocksTypeOK
<1>3. BootOrder(sched', boot'.at, enabled', running')
  BY <1>2 DEF MainInv
<1>4. /\ thread = [t \in ThreadId |-> thread[t]]
      /\ \A t \in ThreadId : IsThread(thread[t])
  BY ZenonT(60) DEF MainInv
<1>5. /\ thread' = [t \in ThreadId |-> thread'[t]]
      /\ thread'[running] = w /\ \A t \in ThreadId \ {running} : thread'[t] = thread[t]
  BY <1>2, <1>4
<1>6. \A t \in ThreadId : IsThread(thread'[t])
  BY ZenonT(60), <1>4, <1>5
<1>7. \A t \in ThreadId \ {Boot} : Outside(thread'[t], section'[t], phase'[t])
  BY <1>1, <1>5, BootIsThread DEF MainInv, OnlyRunning, Outside
<1>8. preemption' \in BOOLEAN /\ IsBoot(boot')
  BY ZenonT(60) DEF MainInv
<1> QED
  BY <1>1, <1>3, <1>5, <1>6, <1>7, <1>8, MainStep

-----------------------------------------------------------------------------
(* The boot context *)

\* Counting on.
LEMMA BootCounts ==
    ASSUME IsBoot(boot), NEW a \in Nat \ {0}, boot' = [boot EXCEPT !.at = a]
    PROVE  IsBoot(boot') /\ boot'.at = a
BY DEF IsBoot

\* Advance, Fail and AdvanceIf.
LEMMA BootAdvances ==
    ASSUME MainInv, NEW cond, NEW what,
           Advance \/ Fail(what) \/ AdvanceIf(cond, what)
    PROVE  IsBoot(boot') /\ boot'.at \in {boot.at + 1, Finish}
<1>1. IsBoot(boot) /\ boot.at \in Nat /\ Finish \in Nat /\ Finish # 0
  <2>1. Finish \in Nat /\ Finish >= 33
    BY ZenonT(60), BootCodeShape
  <2> QED
    BY <2>1 DEF MainInv, IsBoot
<1>2. PICK a \in {boot.at + 1, Finish} : boot' = [boot EXCEPT !.at = a]
  BY ZenonT(60), <1>1 DEF Advance, Fail, AdvanceIf
<1>3. a \in Nat \ {0}
  BY <1>1
<1> QED
  BY ZenonT(60), <1>1, <1>2, <1>3, BootCounts

\* What At and Under say, on a state of MainInv.
LEMMA BootIsAt ==
    ASSUME MainInv, NEW op, op # "init_boot", At(op) \/ Under(op)
    PROVE  running = Boot /\ boot.at # InitBootAt
<1>1. BootCode[boot.at].op = op
  BY ZenonT(60) DEF At, Under, Instruction
<1>2. BootCode[10].op = "init_boot"
  BY ZenonT(60), BootCodeShape
<1> QED
  BY ZenonT(60), <1>1, <1>2 DEF At, Under, InitBootAt

\* Instructions that only read, or write what the invariant does not mention.
LEMMA QuietStep ==
    ASSUME MainInv,
           \/ Try \/ TryFails \/ CheckHeld \/ ResetStatics \/ ReadClock
           \/ WaitEnds \/ WaitTimesOut \/ Verify \/ Report
    PROVE  MainInv' /\ [LockNext]_lockVars
<1>1. PICK op \in {"try", "held", "reset", "clock", "wait", "verify", "report"} : At(op)
  BY ZenonT(60) DEF Try, TryFails, CheckHeld, ResetStatics, ReadClock, WaitEnds, WaitTimesOut,
     Verify, Report
<1>2. UNCHANGED lockVars /\ UNCHANGED <<preemption, sched, thread>>
  BY ZenonT(60) DEF Try, TryFails, CheckHeld, ResetStatics, ReadClock, WaitEnds, WaitTimesOut,
     Verify, Report, machine
<1>3. \E cond, what : Advance \/ Fail(what) \/ AdvanceIf(cond, what)
  BY ZenonT(60) DEF Try, TryFails, CheckHeld, ResetStatics, ReadClock, WaitEnds, WaitTimesOut,
     Verify, Report
<1>4. IsBoot(boot') /\ boot'.at \in {boot.at + 1, Finish}
  BY ZenonT(60), <1>3, BootAdvances
<1>5. running = Boot /\ boot.at # InitBootAt
  BY <1>1, BootIsAt
<1>6. LocalStep
  BY ZenonT(60), <1>2 DEF LocalStep
<1> QED
  BY <1>2, <1>4, <1>5, <1>6, BootMoves

\* What is done under a lock.
LEMMA UnderStep ==
    ASSUME MainInv,
           \/ AllocFrames \/ FreeFrames \/ NoteFrames \/ CompareFrames
           \/ ZeroCounter \/ TallyCounter \/ ProbeLock
    PROVE  MainInv' /\ [LockNext]_lockVars
<1>1. PICK op \in {"alloc", "free", "note", "compare", "zero", "tally", "probe"} : Under(op)
  BY ZenonT(60) DEF AllocFrames, FreeFrames, NoteFrames, CompareFrames, ZeroCounter,
     TallyCounter, ProbeLock
<1>2. Discount /\ UNCHANGED <<preemption, sched, thread>>
  BY <1>1 DEF Under
<1>3. IsBoot(boot') /\ boot'.at \in {boot.at + 1, Finish}
  <2>1. CASE NoteFrames
    <3>1. boot' = [boot EXCEPT !.at = boot.at + 1, !.before = frames] /\ IsBoot(boot)
      BY <2>1 DEF NoteFrames, MainInv
    <3>2. PICK A, B : boot \in [at : Nat \ {0}, id : ThreadId \cup {NO_THREAD},
                                workers : A, before : B]
      BY <3>1 DEF IsBoot
    <3>3. boot.at \in Nat /\ boot.at + 1 \in Nat \ {0}
      BY <3>2
    <3>4. /\ boot'.at = boot.at + 1
          /\ boot' \in [at : Nat \ {0}, id : ThreadId \cup {NO_THREAD},
                        workers : A, before : {frames}]
      BY ZenonT(60), <3>1, <3>2, <3>3
    <3> QED
      BY ZenonT(60), <3>4 DEF IsBoot
  <2>2. CASE ~ NoteFrames
    <3>1. \E cond, what : Advance \/ Fail(what) \/ AdvanceIf(cond, what)
      BY ZenonT(60), <2>2 DEF AllocFrames, FreeFrames, CompareFrames, ZeroCounter,
         TallyCounter, ProbeLock
    <3> QED
      BY <3>1, BootAdvances
  <2> QED
    BY ZenonT(60), <2>1, <2>2
<1>4. running = Boot /\ boot.at # InitBootAt
  BY ZenonT(60), <1>1, BootIsAt
<1>5. LocalStep
  BY ZenonT(60), <1>2 DEF LocalStep
<1> QED
  BY <1>2, <1>3, <1>4, <1>5, BootMoves

\* lock() and critical() begin.
LEMMA BootEnters ==
    ASSUME MainInv, BootLock \/ Critical
    PROVE  MainInv' /\ [LockNext]_lockVars
<1>1. CASE BootLock
  <2>1. PICK op \in DOMAIN LockOf : At(op) /\ Enter(LockOf[op])
    BY <1>1 DEF BootLock, Acquire
  <2>2. LockOf[op] \in Lock /\ op # "init_boot"
    <3>1. /\ op \in {"alloc", "free", "note", "compare", "zero", "tally", "probe"}
          /\ LockOf[op] \in {COUNTER, ROUND_ROBIN_LOCK, FrameLock}
      BY <2>1 DEF LockOf
    <3> QED
      BY <3>1, KernelMainAssumption
  <2>3. running = Boot
    BY <2>1, <2>2, BootIsAt
  <2>4. LocalStep
    BY ZenonT(60), <2>1, <2>2 DEF LocalStep
  <2>5. UNCHANGED <<preemption, sched, thread>> /\ UNCHANGED boot
    BY ZenonT(60), <1>1 DEF BootLock, machine
  <2>6. IsBoot(boot') /\ boot'.at \in {boot.at, boot.at + 1, Finish}
    BY ZenonT(60), <2>5 DEF MainInv
  <2> QED
    BY <2>3, <2>4, <2>5, <2>6, BootMoves
<1>2. CASE Critical
  <2>1. Advance /\ UNCHANGED <<preemption, sched, thread>>
    BY ZenonT(60), <1>2 DEF Critical, machine
  <2>2. IsBoot(boot') /\ boot'.at \in {boot.at + 1, Finish}
    BY <2>1, BootAdvances
  <2>3. running = Boot /\ boot.at # InitBootAt
    BY <1>2, BootIsAt DEF Critical
  <2>4. LocalStep
    BY ZenonT(60), <1>2 DEF Critical, LocalStep
  <2> QED
    BY <2>1, <2>2, <2>3, <2>4, BootMoves
<1> QED
  BY <1>1, <1>2

\* What the steps below leave alone.
LEMMA MainHolds ==
    ASSUME MainInv
    PROVE  /\ LockInv /\ preemption \in BOOLEAN
           /\ thread = [t \in ThreadId |-> thread[t]]
           /\ \A t \in ThreadId : IsThread(thread[t])
           /\ IsBoot(boot) /\ boot.at \in Nat \ {0}
           /\ BootOrder(sched, boot.at, enabled, running)
           /\ \A t \in ThreadId \ {Boot} : Outside(thread[t], section[t], phase[t])
<1>1. boot.at \in Nat \ {0}
  BY DEF MainInv, IsBoot
<1> QED
  BY ZenonT(60), <1>1 DEF MainInv

\* sti comes right after init_boot.
LEMMA StiStep ==
    ASSUME MainInv, Sti
    PROVE  MainInv' /\ [LockNext]_lockVars
<1>1. /\ At("sti") /\ Advance /\ EnableInterrupts
      /\ UNCHANGED <<preemption, sched, thread>>
  BY ZenonT(60) DEF Sti, machine
<1>2. running = Boot /\ boot.at <= Len(BootCode) /\ BootCode[boot.at].op = "sti"
  <2>1. Len(BootCode) \in Nat
    BY BootCodeShape
  <2> QED
    BY <1>1, <2>1, MainHolds DEF At, halted, Instruction
<1>3. boot.at = 11
  BY ZenonT(60), <1>2, OpPlace, MainHolds
<1>4. SchedPart(sched, Boot) /\ sched.current = running
  <2>1. Finish \in Nat /\ Finish >= 33
    BY ZenonT(60), BootCodeShape
  <2> QED
    BY <1>3, <2>1, MainHolds DEF BootOrder, InitBootAt
<1>5. boot'.at = 12 /\ IsBoot(boot')
  <2>1. boot' = [boot EXCEPT !.at = 12]
    BY <1>1, <1>3 DEF Advance
  <2> QED
    BY <2>1, BootCounts, MainHolds
<1>6. UNCHANGED <<running, section, phase>>
  BY ZenonT(60), <1>1 DEF EnableInterrupts
<1>7. BootOrder(sched', boot'.at, enabled', running')
  BY <1>1, <1>4, <1>5, <1>6 DEF BootOrder, InitBootAt
<1>8. \A t \in ThreadId \ {Boot} : Outside(thread'[t], section'[t], phase'[t])
  BY ZenonT(60), <1>1, <1>6, MainHolds
<1>9. [LockNext]_lockVars
  BY ZenonT(60), <1>1 DEF LockNext
<1>10. /\ preemption' \in BOOLEAN /\ thread' = [t \in ThreadId |-> thread'[t]]
       /\ \A t \in ThreadId : IsThread(thread'[t])
  BY ZenonT(60), <1>1, MainHolds
<1> QED
  BY ZenonT(60), <1>5, <1>7, <1>8, <1>9, <1>10, MainStep

\* Spawn of a slot that is no thread's does nothing.
LEMMA SpawnNobody ==
    ASSUME LockInv, NEW t, t \notin Thread, Spawn(t)
    PROVE  UNCHANGED lockVars
<1>1. /\ saved \in [Thread -> BOOLEAN] /\ section \in [Thread -> Seq(Guard)]
      /\ phase \in [Thread -> Phase]
  BY DEF LockInv, LocksTypeOK
<1>2. \A f, S, v : f \in [Thread -> S] => [f EXCEPT ![t] = v] = f
  BY ZenonT(60)
<1>3. UNCHANGED <<saved, section, phase>>
  BY <1>1, <1>2 DEF Spawn, GoTo
<1> QED
  BY ZenonT(60), <1>3 DEF Spawn, lockVars

\* A thread starts outside every critical section.
LEMMA PrepareStep ==
    ASSUME MainInv, Prepare
    PROVE  MainInv' /\ [LockNext]_lockVars
<1>1. PICK w : w = [pc |-> Instruction.arg, left |-> Rounds(Instruction.arg), reg |-> 0]
  BY ZenonT(60)
<1>2. IsThread(w)
  <2>1. w \in [pc : {Instruction.arg}, left : {Rounds(Instruction.arg)}, reg : {0}]
    BY <1>1
  <2> QED
    BY ZenonT(60), <2>1 DEF IsThread
<1>3. PICK ids : boot' = [boot EXCEPT !.at = boot.at + 1, !.id = NO_THREAD, !.workers = ids]
  BY ZenonT(60) DEF Prepare
<1>4. /\ At("prepare") /\ Spawn(boot.id) /\ UNCHANGED <<preemption, sched>>
      /\ thread' = [thread EXCEPT ![boot.id] = w]
  BY ZenonT(60), <1>1 DEF Prepare, machine
<1>5. running = Boot /\ boot.at # InitBootAt
  BY ZenonT(60), <1>4, BootIsAt
<1>6. IsBoot(boot') /\ boot'.at = boot.at + 1
  <2>1. PICK A, B : boot \in [at : Nat \ {0}, id : ThreadId \cup {NO_THREAD},
                              workers : A, before : B]
    BY MainHolds DEF IsBoot
  <2>2. boot.at + 1 \in Nat \ {0}
    BY MainHolds
  <2>3. /\ boot'.at = boot.at + 1
        /\ boot' \in [at : Nat \ {0}, id : ThreadId \cup {NO_THREAD},
                      workers : {ids}, before : B]
    BY ZenonT(60), <1>3, <2>1, <2>2
  <2> QED
    BY ZenonT(60), <2>3 DEF IsBoot
<1>7. UNCHANGED <<running, enabled>>
  BY <1>4 DEF Spawn
<1>8. BootOrder(sched', boot'.at, enabled', running')
  <2>1. enabled
    BY ZenonT(60), <1>4 DEF Spawn
  <2>2. SchedPart(sched, Boot) /\ sched.current = running /\ boot.at > 10
    BY <2>1, MainHolds DEF BootOrder, InitBootAt
  <2> QED
    BY <1>4, <1>6, <1>7, <2>2, MainHolds DEF BootOrder, InitBootAt
<1>9. CASE boot.id \in ThreadId
  <2>1. [LockNext]_lockVars
    BY ZenonT(60), <1>4, <1>9, BootIsThread DEF LockNext
  <2>2. /\ section \in [ThreadId -> Seq(Guard)] /\ phase \in [ThreadId -> Phase]
    BY ZenonT(60), MainHolds, BootIsThread DEF LockInv, LocksTypeOK
  <2>3. /\ section' = [section EXCEPT ![boot.id] = <<>>]
        /\ phase' = [phase EXCEPT ![boot.id] = "none"]
    BY ZenonT(60), <1>4 DEF Spawn, GoTo
  <2>4. /\ thread' = [t \in ThreadId |-> thread'[t]]
        /\ thread'[boot.id] = w
        /\ \A t \in ThreadId \ {boot.id} : thread'[t] = thread[t]
    BY ZenonT(60), <1>4, <1>9, MainHolds
  <2>5. /\ section'[boot.id] = <<>> /\ phase'[boot.id] = "none"
        /\ \A t \in ThreadId \ {boot.id} : section'[t] = section[t] /\ phase'[t] = phase[t]
    BY <1>9, <2>2, <2>3
  <2>6. \A t \in ThreadId : IsThread(thread'[t])
    BY ZenonT(60), <1>2, <2>4, MainHolds
  <2>7. \A t \in ThreadId \ {Boot} : Outside(thread'[t], section'[t], phase'[t])
    <3>1. Outside(thread'[boot.id], section'[boot.id], phase'[boot.id])
      BY ZenonT(60), <2>5 DEF Outside
    <3>2. ASSUME NEW t \in ThreadId \ {Boot}, t # boot.id
          PROVE  Outside(thread'[t], section'[t], phase'[t])
      <4>1. thread'[t] = thread[t] /\ section'[t] = section[t] /\ phase'[t] = phase[t]
        BY ZenonT(60), <2>4, <2>5, <3>2
      <4> QED
        BY ZenonT(60), <4>1, MainHolds
    <3> QED
      BY ZenonT(60), <3>1, <3>2
  <2> QED
    BY <1>4, <1>6, <1>8, <2>1, <2>4, <2>6, <2>7, MainStep, MainHolds
<1>10. CASE boot.id \notin ThreadId
  <2>1. UNCHANGED lockVars
    BY ZenonT(60), <1>4, <1>10, SpawnNobody, BootIsThread, MainHolds
  <2>2. UNCHANGED thread
    <3>1. \A f : f = [t \in ThreadId |-> f[t]] => [f EXCEPT ![boot.id] = w] = f
      BY <1>10
    <3> QED
      BY ZenonT(60), <1>4, <3>1, MainHolds
  <2>3. LocalStep
    BY ZenonT(60), <2>1 DEF LocalStep
  <2> QED
    BY <1>4, <1>5, <1>6, <2>2, <2>3, BootMoves
<1> QED
  BY ZenonT(60), <1>9, <1>10

-----------------------------------------------------------------------------
(* The workers *)

\* A label changes, and perhaps the register.
LEMMA Relabelled ==
    ASSUME MainInv, NEW label, NEW x,
           \/ thread' = [thread EXCEPT ![running].pc = label]
           \/ thread' = [thread EXCEPT ![running].pc = label, ![running].reg = x]
    PROVE  \E w : IsThread(w) /\ w.pc = label /\ thread' = [thread EXCEPT ![running] = w]
<1>1. running \in ThreadId
  BY ZenonT(60), MainHolds, BootIsThread DEF LockInv, LocksTypeOK
<1>2. PICK A, B, C : thread[running] \in [pc : A, left : B, reg : C]
  BY ZenonT(60), <1>1, MainHolds DEF IsThread
<1>3. CASE thread' = [thread EXCEPT ![running].pc = label]
  <2>1. PICK w : w = [thread[running] EXCEPT !.pc = label]
    BY ZenonT(60)
  <2>2. w \in [pc : {label}, left : B, reg : C]
    BY <1>2, <2>1
  <2>3. thread' = [thread EXCEPT ![running] = w]
    BY ZenonT(60), <1>3, <2>1
  <2> QED
    BY ZenonT(60), <2>2, <2>3 DEF IsThread
<1>4. CASE thread' = [thread EXCEPT ![running].pc = label, ![running].reg = x]
  <2>1. PICK v : v = [thread[running] EXCEPT !.pc = label]
    BY ZenonT(60)
  <2>2. PICK w : w = [v EXCEPT !.reg = x]
    BY ZenonT(60)
  <2>3. v \in [pc : {label}, left : B, reg : C]
    BY <1>2, <2>1
  <2>4. w \in [pc : {label}, left : B, reg : {x}]
    BY <2>2, <2>3
  <2>5. thread' = [thread EXCEPT ![running] = w]
    <3>1. PICK f : f = thread /\ f = [t \in ThreadId |-> f[t]]
      BY ZenonT(60), MainHolds
    <3>2. PICK g : g = [f EXCEPT ![running] = v]
      BY ZenonT(60)
    <3>3. thread' = [g EXCEPT ![running] = [g[running] EXCEPT !.reg = x]]
      BY ZenonT(60), <1>4, <2>1, <3>1, <3>2
    <3>4. g[running] = v
      BY ZenonT(60), <1>1, <3>1, <3>2
    <3>5. [g EXCEPT ![running] = w] = [f EXCEPT ![running] = w]
      BY ZenonT(60), <1>1, <3>1, <3>2
    <3> QED
      BY ZenonT(60), <2>2, <3>1, <3>3, <3>4, <3>5
  <2> QED
    BY ZenonT(60), <2>4, <2>5 DEF IsThread
<1> QED
  BY ZenonT(60), <1>3, <1>4

\* The steps of lock_worker and round_robin_worker that use a lock.
LEMMA WorkerLocks ==
    ASSUME MainInv, LockerLocks \/ AppenderLocks \/ LockerStores \/ AppenderWrites
    PROVE  MainInv' /\ [LockNext]_lockVars
<1>1. COUNTER \in Lock /\ ROUND_ROBIN_LOCK \in Lock
  BY KernelMainAssumption
<1>2. LocalStep
  BY ZenonT(60), <1>1 DEF LockerLocks, AppenderLocks, LockerStores, AppenderWrites, Acquire, LocalStep
<1>3. running # Boot /\ UNCHANGED <<preemption, sched, boot>>
  BY ZenonT(60) DEF LockerLocks, AppenderLocks, LockerStores, AppenderWrites, Work, AtLabel, machine
<1>4. PICK w : IsThread(w) /\ w.pc # "user" /\ thread' = [thread EXCEPT ![running] = w]
  <2>1. CASE LockerLocks \/ AppenderLocks
    <3>1. PICK label \in {"load", "index"} : thread' = [thread EXCEPT ![running].pc = label]
      BY ZenonT(60), <2>1 DEF LockerLocks, AppenderLocks, Go
    <3> QED
      BY ZenonT(60), <3>1, Relabelled
  <2>2. CASE LockerStores \/ AppenderWrites
    <3>0. PICK label \in {"finish", "lock", "yield"} :
              \E n : thread' = [thread EXCEPT ![running] = [pc |-> label, left |-> n, reg |-> 0]]
      BY ZenonT(60), <2>2 DEF LockerStores, AppenderWrites
    <3>1. PICK n : thread' = [thread EXCEPT ![running] = [pc |-> label, left |-> n, reg |-> 0]]
      BY ZenonT(60), <3>0
    <3>2. PICK w : w = [pc |-> label, left |-> n, reg |-> 0]
      BY ZenonT(60)
    <3>3. w \in [pc : {label}, left : {n}, reg : {0}]
      BY <3>2
    <3>4. IsThread(w) /\ w.pc # "user"
      BY ZenonT(60), <3>1, <3>3 DEF IsThread
    <3> QED
      BY ZenonT(60), <3>1, <3>2, <3>4
  <2> QED
    BY ZenonT(60), <2>1, <2>2
<1> QED
  BY ZenonT(60), <1>2, <1>3, <1>4, WorkerMoves

\* The steps of the workers that do not.
LEMMA WorkerComputes ==
    ASSUME MainInv,
           \/ LockerLoads \/ AppenderCounts \/ WorkerFinishes \/ WaiterStarts \/ WaiterPolls
           \/ WaiterCounts \/ WaiterEnds \/ WaiterPublishes \/ SetterSets
    PROVE  MainInv' /\ [LockNext]_lockVars
<1>1. running # Boot /\ UNCHANGED <<preemption, sched, boot>> /\ UNCHANGED lockVars
  BY ZenonT(60) DEF LockerLoads, AppenderCounts, WorkerFinishes, WaiterStarts, WaiterPolls,
     WaiterCounts, WaiterEnds, WaiterPublishes, SetterSets, Work, AtLabel, machine
<1>2. LocalStep
  BY ZenonT(60), <1>1 DEF LocalStep
<1>3. PICK w : IsThread(w) /\ w.pc # "user" /\ thread' = [thread EXCEPT ![running] = w]
  <2>1. CASE WaiterPolls
    <3>1. PICK label \in {"end", "budget"}, x \in {1, 2} :
              thread' = [thread EXCEPT ![running] = [pc |-> label, left |-> 0, reg |-> x]]
      BY ZenonT(60), <2>1 DEF WaiterPolls
    <3>2. PICK w : w = [pc |-> label, left |-> 0, reg |-> x]
      BY ZenonT(60)
    <3>3. w \in [pc : {label}, left : {0}, reg : {x}]
      BY <3>2
    <3>4. IsThread(w) /\ w.pc # "user"
      BY ZenonT(60), <3>1, <3>3 DEF IsThread
    <3> QED
      BY ZenonT(60), <3>1, <3>2, <3>4
  <2>2. CASE LockerLoads \/ AppenderCounts \/ WaiterPublishes
    <3>0. PICK label \in {"store", "write", "exit"} :
              \E x : thread' = [thread EXCEPT ![running].pc = label, ![running].reg = x]
      BY ZenonT(60), <2>2 DEF LockerLoads, AppenderCounts, WaiterPublishes
    <3>1. PICK x : thread' = [thread EXCEPT ![running].pc = label, ![running].reg = x]
      BY ZenonT(60), <3>0
    <3>2. label # "user"
      BY ZenonT(60), <3>1
    <3> QED
      BY ZenonT(60), <3>1, <3>2, Relabelled
  <2>3. CASE WorkerFinishes \/ WaiterStarts \/ WaiterEnds \/ SetterSets
    <3>1. PICK label \in {"exit", "flag", "publish"} :
              thread' = [thread EXCEPT ![running].pc = label]
      BY ZenonT(60), <2>3 DEF WorkerFinishes, WaiterStarts, WaiterEnds, SetterSets, Go
    <3>2. label # "user"
      BY <3>1
    <3> QED
      BY ZenonT(60), <3>1, <3>2, Relabelled
  <2>4. CASE WaiterCounts
    <3>1. PICK label \in {"end", "flag"} : thread' = [thread EXCEPT ![running].pc = label]
      BY ZenonT(60), <2>4 DEF WaiterCounts, Go
    <3>2. label # "user"
      BY ZenonT(60), <3>1
    <3> QED
      BY ZenonT(60), <3>1, <3>2, Relabelled
  <2> QED
    BY ZenonT(60), <2>1, <2>2, <2>3, <2>4
<1> QED
  BY ZenonT(60), <1>1, <1>2, <1>3, WorkerMoves

\* The steps inside lock() and a guard's drop: user code is not there.
LEMMA LockStepInv ==
    ASSUME MainInv, LockStep
    PROVE  MainInv' /\ [LockNext]_lockVars
<1>1. LocalStep /\ UNCHANGED <<preemption, sched, thread, boot>>
  BY ZenonT(60) DEF LockStep, LocalStep, machine
<1>2. phase[running] # "none"
  BY ZenonT(60) DEF LockStep, Cli, Swap, Count, Unlock
<1>3. CASE running = Boot
  <2>1. IsBoot(boot') /\ boot'.at \in {boot.at, boot.at + 1, Finish}
    BY ZenonT(60), <1>1, MainHolds
  <2> QED
    BY ZenonT(60), <1>1, <1>3, <2>1, BootMoves
<1>4. CASE running # Boot
  <2>1. running \in ThreadId
    BY MainHolds, BootIsThread DEF LockInv, LocksTypeOK
  <2>2. IsThread(thread[running]) /\ thread[running].pc # "user"
    BY ZenonT(60), <1>2, <1>4, <2>1, MainHolds DEF Outside
  <2>3. thread' = [thread EXCEPT ![running] = thread[running]]
    <3>1. PICK f : f = thread /\ f = [t \in ThreadId |-> f[t]]
      BY ZenonT(60), MainHolds
    <3>2. [f EXCEPT ![running] = f[running]] = f
      BY ZenonT(60), <3>1
    <3> QED
      BY ZenonT(60), <1>1, <3>1, <3>2
  <2> QED
    BY ZenonT(60), <1>1, <1>4, <2>2, <2>3, WorkerMoves
<1> QED
  BY ZenonT(60), <1>3, <1>4

-----------------------------------------------------------------------------
(* Interrupts *)

\* Once interrupts are on, the scheduler and the CPU agree.
LEMMA SchedulerRuns ==
    ASSUME MainInv, enabled
    PROVE  SchedPart(sched, Boot) /\ sched.current = running
BY ZenonT(60), MainHolds DEF BootOrder

-----------------------------------------------------------------------------
(* kernel_main begins with the invariant *)

\* At first the boot context is at the start of BootCode and nothing is set up.
LEMMA MainInvInit ==
    ASSUME Init
    PROVE  MainInv
<1>1. LockInv
  BY ZenonT(60), LockInvInit DEF Init
<1>2. PICK w : w = [pc |-> "none", left |-> 0, reg |-> 0]
  BY ZenonT(60)
<1>3. IsThread(w) /\ w.pc # "user"
  <2>1. w \in [pc : {"none"}, left : {0}, reg : {0}]
    BY <1>2
  <2> QED
    BY ZenonT(60), <2>1 DEF IsThread
<1>4. thread = [t \in ThreadId |-> w]
  BY ZenonT(60), <1>2 DEF Init
<1>5. /\ thread = [t \in ThreadId |-> thread[t]]
      /\ \A t \in ThreadId : thread[t] = w
  BY ZenonT(60), <1>4
<1>6. IsBoot(boot) /\ boot.at = 1
  <2>1. boot \in [at : Nat \ {0}, id : ThreadId \cup {NO_THREAD}, workers : {<<>>}, before : {0}]
    BY DEF Init
  <2>2. boot.at = 1
    BY ZenonT(60) DEF Init
  <2> QED
    BY ZenonT(60), <2>1, <2>2 DEF IsBoot
<1>7. sched = New /\ enabled = FALSE
  BY ZenonT(60) DEF Init, LockInit
<1>8. BootOrder(sched, boot.at, enabled, running)
  BY <1>6, <1>7 DEF BootOrder, InitBootAt
<1>9. \A t \in ThreadId \ {Boot} : Outside(thread[t], section[t], phase[t])
  BY ZenonT(60), <1>3, <1>5 DEF Outside
<1>10. \A t \in ThreadId : IsThread(thread[t])
  BY ZenonT(60), <1>3, <1>5
<1>11. preemption \in BOOLEAN
  BY DEF Init
<1> QED
  BY ZenonT(60), <1>1, <1>5, <1>6, <1>8, <1>9, <1>10, <1>11 DEF MainInv

-----------------------------------------------------------------------------
(* The report *)

\* A boot context that has come past the guard of finish: the guard is on its
\* stack and no lock is, so that nothing will drop it.
Guarded(at, guards, p) ==
    at > Finish => /\ p \in {"none", "read"} /\ guards # <<>>
                   /\ \A i \in DOMAIN guards : guards[i].lock = NoLock

\* The boot context, unlike a worker that may yield, loses the CPU to the timer
\* only: never inside a critical section.
ReportInv ==
    /\ Guarded(boot.at, section[Boot], phase[Boot])
    /\ InsideOf(section[Boot], phase[Boot]) => running = Boot

\* Where the boot context is when it executes op.
LEMMA AtPlace ==
    ASSUME MainInv, NEW op, At(op)
    PROVE  /\ running = Boot /\ phase[Boot] = "none" /\ ~ HasLock(Boot)
           /\ boot.at \in Nat \ {0} /\ Finish \in Nat
           /\ op = "report" => boot.at = Finish + 1
           /\ op = "critical" => boot.at <= Finish
           /\ op \in MiddleOp \cup {"init_boot", "sti"} => boot.at < Finish
<1>1. Finish \in Nat /\ Finish >= 33 /\ Len(BootCode) = Finish + 1
  BY ZenonT(60), BootCodeShape
<1>2. boot.at \in Nat \ {0} /\ boot.at <= Len(BootCode) /\ BootCode[boot.at].op = op
  BY <1>1, MainHolds DEF At, halted, Instruction
<1>3. PICK i \in Nat \ {0} : i = boot.at /\ i <= Len(BootCode) /\ BootCode[i].op = op
  BY ZenonT(60), <1>2
<1>4. /\ op = "report" => i = Finish + 1
      /\ op = "critical" => i \in {Finish - 1, Finish}
      /\ op \in MiddleOp => i < Finish
      /\ op = "init_boot" => i = 10
      /\ op = "sti" => i = 11
  BY ZenonT(60), <1>3, OpPlace
<1>5. running = Boot /\ phase[Boot] = "none" /\ ~ HasLock(Boot)
  BY ZenonT(60) DEF At
<1> QED
  BY <1>1, <1>3, <1>4, <1>5

\* The operations of the boot context.
LEMMA BootOps ==
    ASSUME BootStep \/ TryFails \/ WaitTimesOut
    PROVE  \/ Critical \/ Report
           \/ \E op \in MiddleOp \cup {"init_boot", "sti"} : At(op)
           \/ \E op \in MiddleOp : Under(op)
<1>1. \/ Critical \/ Report
      \/ At("try") \/ At("init_boot") \/ At("sti") \/ (\E op \in DOMAIN LockOf : At(op))
      \/ Under("alloc") \/ Under("free") \/ Under("note") \/ Under("compare")
      \/ Under("zero") \/ Under("tally") \/ Under("probe")
      \/ At("held") \/ At("reset") \/ At("clock") \/ At("register") \/ At("prepare")
      \/ At("wait") \/ At("verify")
  BY ZenonT(60) DEF BootStep, TryFails, WaitTimesOut, Try, InitBoot, Sti, BootLock, AllocFrames,
     FreeFrames, NoteFrames, CompareFrames, ZeroCounter, TallyCounter, ProbeLock, CheckHeld,
     ResetStatics, ReadClock, Register, Prepare, WaitEnds, Verify
<1>2. DOMAIN LockOf \subseteq MiddleOp
  BY DEF LockOf, MiddleOp
<1>3. {"try", "alloc", "free", "note", "compare", "zero", "tally", "probe", "held", "reset",
       "clock", "register", "prepare", "wait", "verify"} \subseteq MiddleOp
  BY DEF MiddleOp
<1> QED
  BY ZenonT(60), <1>1, <1>2, <1>3

\* The boot context keeps the CPU while it executes.
LEMMA BootKeepsCpu ==
    ASSUME MainInv, BootStep \/ TryFails \/ WaitTimesOut
    PROVE  running = Boot /\ running' = Boot
<1>1. running = Boot
  BY ZenonT(60), BootOps, AtPlace DEF Critical, Report, Under
<1>2. UNCHANGED running
  BY ZenonT(60) DEF BootStep, TryFails, WaitTimesOut, Try, InitBoot, Sti, BootLock, AllocFrames,
     FreeFrames, NoteFrames, CompareFrames, ZeroCounter, TallyCounter, ProbeLock, CheckHeld,
     ResetStatics, ReadClock, Register, Prepare, WaitEnds, Verify, Critical, Report, Under,
     Acquire, Enter, Discount, EnableInterrupts, Spawn, lockVars
<1> QED
  BY ZenonT(60), <1>1, <1>2

\* What the instruction pointer does.
LEMMA BootPace ==
    ASSUME MainInv, BootStep \/ TryFails \/ WaitTimesOut
    PROVE  boot'.at \in {boot.at, boot.at + 1, Finish}
<1>1. \/ UNCHANGED boot
      \/ NoteFrames \/ Register \/ Prepare
      \/ \E cond, what : Advance \/ Fail(what) \/ AdvanceIf(cond, what)
  BY ZenonT(60) DEF BootStep, TryFails, WaitTimesOut, Try, InitBoot, Sti, BootLock, AllocFrames,
     FreeFrames, CompareFrames, ZeroCounter, TallyCounter, ProbeLock, CheckHeld,
     ResetStatics, ReadClock, WaitEnds, Verify, Critical, Report
<1>2. IsBoot(boot)
  BY ZenonT(60), MainHolds
<1>3. CASE NoteFrames \/ Prepare
  BY ZenonT(60), <1>2, <1>3 DEF NoteFrames, Prepare, IsBoot
<1>4. CASE Register
  <2>1. PICK ret : \/ \E what : Fail(what)
                   \/ boot' = [boot EXCEPT !.at = boot.at + 1, !.id = ret]
    BY ZenonT(60), <1>4 DEF Register
  <2>2. CASE \E what : Fail(what)
    BY ZenonT(60), <2>2, BootAdvances
  <2>3. CASE boot' = [boot EXCEPT !.at = boot.at + 1, !.id = ret]
    BY <1>2, <2>3 DEF IsBoot
  <2> QED
    BY <2>1, <2>2, <2>3
<1>5. CASE \E cond, what : Advance \/ Fail(what) \/ AdvanceIf(cond, what)
  BY ZenonT(60), <1>5, BootAdvances
<1> QED
  BY <1>1, <1>3, <1>4, <1>5

\* Whoever has the CPU, a step that is not the boot context's leaves its stack
\* of guards alone and takes the CPU from it only outside critical sections.
LEMMA OthersLeaveBoot ==
    ASSUME MainInv, ReportInv, WorkerStep \/ Tick
    PROVE  /\ section'[Boot] = section[Boot] /\ phase'[Boot] = phase[Boot] /\ UNCHANGED boot
           /\ UNCHANGED running \/ ~ InsideOf(section[Boot], phase[Boot])
<1>1. UNCHANGED boot
  BY ZenonT(60) DEF WorkerStep, Tick, LockerLocks, LockerLoads, LockerStores, AppenderLocks,
     AppenderCounts, AppenderWrites, YieldNow, WaiterStarts, WaiterPolls, WaiterCounts,
     WaiterEnds, WaiterPublishes, SetterSets, WorkerFinishes, Exit, Syscall, Work, Serve
<1>2. CASE Tick
  <2>1. \E next : Timer(next, Reaps)
    BY ZenonT(60), <1>2 DEF Tick
  <2>2. UNCHANGED <<section, phase>> /\ IFlag
    BY ZenonT(60), <2>1 DEF Timer, Handler
  <2>3. ~ InsideOf(section[running], phase[running])
    BY ZenonT(60), <2>2, MainHolds, RunningHolds DEF StackOK
  <2> QED
    BY <1>1, <2>2, <2>3 DEF ReportInv
<1>3. CASE WorkerStep
  <2>1. running # Boot
    BY ZenonT(60), <1>3 DEF WorkerStep, LockerLocks, LockerLoads, LockerStores, AppenderLocks,
       AppenderCounts, AppenderWrites, YieldNow, WaiterStarts, WaiterPolls, WaiterCounts,
       WaiterEnds, WaiterPublishes, SetterSets, WorkerFinishes, Exit, Syscall, Work, AtLabel
  <2>2. ~ InsideOf(section[Boot], phase[Boot])
    BY ZenonT(60), <2>1 DEF ReportInv
  <2>3. CASE YieldNow \/ Exit \/ Syscall
    <3>1. \E next : Handler(next, Reaps)
      BY ZenonT(60), <2>3 DEF YieldNow, Exit, Syscall, Yield
    <3>2. UNCHANGED <<section, phase>>
      BY ZenonT(60), <3>1 DEF Handler
    <3> QED
      BY ZenonT(60), <1>1, <2>2, <3>2
  <2>4. CASE ~ (YieldNow \/ Exit \/ Syscall)
    <3>1. COUNTER \in Lock /\ ROUND_ROBIN_LOCK \in Lock
      BY KernelMainAssumption
    <3>2. LocalStep
      BY ZenonT(60), <1>3, <2>4, <3>1 DEF WorkerStep, LockerLocks, LockerLoads, LockerStores,
         AppenderLocks, AppenderCounts, AppenderWrites, WaiterStarts, WaiterPolls,
         WaiterCounts, WaiterEnds, WaiterPublishes, SetterSets, WorkerFinishes, Acquire,
         LocalStep
    <3>3. OnlyRunning
      BY ZenonT(60), <3>2, LocalStepRuns, MainHolds
    <3> QED
      BY ZenonT(60), <1>1, <2>1, <2>2, <3>3, BootIsThread DEF OnlyRunning
  <2> QED
    BY ZenonT(60), <2>3, <2>4
<1> QED
  BY <1>2, <1>3

\* Inside lock() and a guard's drop: past the guard of finish only the cli of
\* that guard is left.
LEMMA LockStepGuards ==
    ASSUME MainInv, ReportInv, LockStep
    PROVE  ReportInv'
<1>1. LocalStep /\ UNCHANGED boot
  BY ZenonT(60) DEF LockStep, LocalStep
<1>2. OnlyRunning /\ section \in [Thread -> Seq(Guard)] /\ phase \in [Thread -> Phase]
  BY ZenonT(60), <1>1, LocalStepRuns, MainHolds DEF LockInv, LocksTypeOK
<1>3. CASE running # Boot
  <2>1. section'[Boot] = section[Boot] /\ phase'[Boot] = phase[Boot] /\ UNCHANGED running
    BY ZenonT(60), <1>2, <1>3, LocksAssumption DEF OnlyRunning
  <2> QED
    BY ZenonT(60), <1>1, <2>1 DEF ReportInv
<1>4. CASE running = Boot
  <2>1. running' = Boot
    BY ZenonT(60), <1>2, <1>4 DEF OnlyRunning
  <2>2. ASSUME boot.at > Finish
        PROVE  /\ section'[Boot] = section[Boot] /\ phase'[Boot] = "none"
    <3>1. /\ phase[Boot] \in {"none", "read"} /\ section[Boot] # <<>>
          /\ \A i \in DOMAIN section[Boot] : section[Boot][i].lock = NoLock
      BY ZenonT(60), <2>2 DEF ReportInv, Guarded
    <3>2. Cli
      BY ZenonT(60), <1>4, <3>1 DEF LockStep, Swap, Count, Unlock
    <3>3. Innermost(Boot).lock = NoLock
      <4>1. section[Boot] \in Seq(Guard)
        BY ZenonT(60), <1>2, LocksAssumption
      <4>2. Len(section[Boot]) \in DOMAIN section[Boot]
        BY <3>1, <4>1
      <4> QED
        BY ZenonT(60), <3>1, <4>2 DEF Innermost
    <3>4. phase' = [phase EXCEPT ![Boot] = "none"] /\ UNCHANGED section
      BY ZenonT(60), <1>4, <3>2, <3>3 DEF Cli, GoTo
    <3> QED
      BY ZenonT(60), <1>2, <3>4, LocksAssumption
  <2> QED
    BY ZenonT(60), <1>1, <2>1, <2>2 DEF ReportInv, Guarded
<1> QED
  BY <1>3, <1>4

\* The guard of finish is entered without a lock and stays.
LEMMA BootGuards ==
    ASSUME MainInv, ReportInv, BootStep \/ TryFails \/ WaitTimesOut
    PROVE  ReportInv'
<1>1. running' = Boot
  BY ZenonT(60), BootKeepsCpu
<1>2. boot.at \in Nat /\ Finish \in Nat /\ boot'.at \in {boot.at, boot.at + 1, Finish}
  BY ZenonT(60), BootPace, MainHolds, BootCodeShape
<1>3. CASE Critical
  <2>1. At("critical") /\ Enter(NoLock)
    BY ZenonT(60), <1>3 DEF Critical
  <2>2. running = Boot /\ ~ HasLock(Boot)
    BY ZenonT(60), <2>1 DEF At
  <2>3. PICK g : g.lock = NoLock /\ section' = [section EXCEPT ![Boot] = Append(section[Boot], g)]
    BY ZenonT(60), <2>1, <2>2 DEF Enter, Push
  <2>4. phase' = [phase EXCEPT ![Boot] = "read"]
    BY <2>1, <2>2 DEF Enter, GoTo
  <2>5. section \in [Thread -> Seq(Guard)] /\ phase \in [Thread -> Phase]
    BY ZenonT(60), MainHolds DEF LockInv, LocksTypeOK
  <2>6. section'[Boot] = Append(section[Boot], g) /\ phase'[Boot] = "read"
    BY <2>3, <2>4, <2>5, LocksAssumption
  <2>7. PICK s \in Seq(Guard) : s = section[Boot] /\ \A i \in DOMAIN s : s[i].lock = NoLock
    BY ZenonT(60), <2>2, <2>5, LocksAssumption DEF HasLock
  <2>8. PICK r : r = Append(s, g)
    BY ZenonT(60)
  <2>9. r # <<>> /\ \A i \in DOMAIN r : r[i].lock = NoLock
    BY <2>3, <2>7, <2>8
  <2>10. section'[Boot] = r
    BY ZenonT(60), <2>6, <2>7, <2>8
  <2> QED
    BY <1>1, <2>6, <2>9, <2>10 DEF ReportInv, Guarded
<1>4. CASE Report
  <2>1. UNCHANGED <<section, phase>> /\ boot.at = Finish + 1
    BY ZenonT(60), <1>4, AtPlace DEF Report, lockVars
  <2> QED
    BY <1>1, <1>2, <2>1 DEF ReportInv, Guarded
<1>5. CASE \E op \in MiddleOp \cup {"init_boot", "sti"} : At(op)
  <2>1. boot.at < Finish
    BY ZenonT(60), <1>5, AtPlace
  <2>2. ~ (boot'.at > Finish)
    BY <1>2, <2>1
  <2> QED
    BY ZenonT(60), <1>1, <2>2 DEF ReportInv, Guarded
<1>6. CASE \E op \in MiddleOp : Under(op)
  <2>1. HasLock(Boot)
    BY ZenonT(60), <1>6 DEF Under
  <2>2. boot.at <= Finish
    BY <1>2, <2>1 DEF ReportInv, Guarded, HasLock
  <2>3. boot.at # Finish
    <3>1. BootCode[boot.at].op \in MiddleOp
      BY ZenonT(60), <1>6 DEF Under, Instruction
    <3>2. BootCode[Finish].op = "critical" /\ "critical" \notin MiddleOp
      BY ZenonT(60), BootCodeShape DEF MiddleOp
    <3> QED
      BY ZenonT(60), <3>1, <3>2
  <2>4. ~ (boot'.at > Finish)
    BY <1>2, <2>2, <2>3
  <2> QED
    BY ZenonT(60), <1>1, <2>4 DEF ReportInv, Guarded
<1> QED
  BY <1>3, <1>4, <1>5, <1>6, BootOps

\* At first the boot context is nowhere near the report.
LEMMA ReportInvInit ==
    ASSUME Init
    PROVE  ReportInv
<1>1. running = Boot /\ boot.at = 1 /\ Finish \in Nat /\ Finish >= 33
  BY ZenonT(60), BootCodeShape DEF Init, LockInit
<1> QED
  BY <1>1 DEF ReportInv, Guarded

\* Every step keeps it: the guard of finish stays, and no switch happens inside a
\* critical section of the boot context.
LEMMA ReportInvNext ==
    ASSUME MainInv, ReportInv, [Next]_vars
    PROVE  ReportInv'
<1>1. CASE UNCHANGED vars
  <2>1. UNCHANGED <<boot, section, phase, running>>
    BY ZenonT(60), <1>1 DEF vars, lockVars
  <2> QED
    BY ZenonT(60), <2>1 DEF ReportInv
<1>2. CASE BootStep \/ TryFails \/ WaitTimesOut
  BY ZenonT(60), <1>2, BootGuards
<1>3. CASE WorkerStep \/ Tick
  <2>1. /\ section'[Boot] = section[Boot] /\ phase'[Boot] = phase[Boot] /\ UNCHANGED boot
        /\ UNCHANGED running \/ ~ InsideOf(section[Boot], phase[Boot])
    BY ZenonT(60), <1>3, OthersLeaveBoot
  <2> QED
    BY ZenonT(60), <2>1 DEF ReportInv
<1>4. CASE LockStep
  BY <1>4, LockStepGuards
<1> QED
  BY ZenonT(60), <1>1, <1>2, <1>3, <1>4 DEF Next, Halt

\* Once finish has its guard the only step left is the report.
LEMMA OnlyReportLeft ==
    ASSUME MainInv, ReportInv, Next, Reporting
    PROVE  UNCHANGED <<running, sched, statics, frames>>
<1>1. Finish \in Nat /\ boot.at \in Nat /\ boot.at > Finish /\ phase[Boot] = "none"
  BY ZenonT(60), MainHolds, BootCodeShape DEF Reporting
<1>2. /\ section[Boot] # <<>>
      /\ \A i \in DOMAIN section[Boot] : section[Boot][i].lock = NoLock
  BY <1>1 DEF ReportInv, Guarded
<1>3. InsideOf(section[Boot], phase[Boot]) /\ running = Boot
  BY <1>1, <1>2 DEF ReportInv, InsideOf
<1>4. ~ IFlag /\ ~ HasLock(Boot)
  <2>1. ~ IFlag
    BY ZenonT(60), <1>3, MainHolds, RunningHolds DEF StackOK
  <2> QED
    BY ZenonT(60), <1>2, <2>1 DEF HasLock
<1>5. ~ Tick /\ ~ LockStep /\ ~ WorkerStep
  <2>1. ~ Tick
    BY ZenonT(60), <1>4 DEF Tick
  <2>2. ~ LockStep
    BY ZenonT(60), <1>1, <1>3 DEF LockStep, Cli, Swap, Count, Unlock
  <2>3. ~ WorkerStep
    BY ZenonT(60), <1>3 DEF WorkerStep, LockerLocks, LockerLoads, LockerStores, AppenderLocks,
       AppenderCounts, AppenderWrites, YieldNow, WaiterStarts, WaiterPolls, WaiterCounts,
       WaiterEnds, WaiterPublishes, SetterSets, WorkerFinishes, Exit, Syscall, Work, AtLabel
  <2> QED
    BY ZenonT(60), <2>1, <2>2, <2>3
<1>6. CASE BootStep \/ TryFails \/ WaitTimesOut
  <2>1. ~ Critical
    BY <1>1, AtPlace DEF Critical
  <2>2. ~ \E op \in MiddleOp \cup {"init_boot", "sti"} : At(op)
    BY <1>1, AtPlace
  <2>3. ~ \E op \in MiddleOp : Under(op)
    BY <1>4 DEF Under
  <2>4. Report
    BY ZenonT(60), <1>6, <2>1, <2>2, <2>3, BootOps
  <2> QED
    BY ZenonT(60), <2>4 DEF Report, lockVars, machine
<1>7. CASE Halt
  BY ZenonT(60), <1>7 DEF Halt, vars, lockVars
<1> QED
  BY ZenonT(60), <1>5, <1>6, <1>7 DEF Next

-----------------------------------------------------------------------------
(* A kernel without preemption *)

\* The statics by their shape.
IsStatics(s) ==
    /\ s = [COUNTER |-> s.COUNTER, FINISHED |-> s.FINISHED, ROUND_ROBIN |-> s.ROUND_ROBIN,
            ROUND_ROBIN_INDEX |-> s.ROUND_ROBIN_INDEX, PREEMPTED |-> s.PREEMPTED,
            PREEMPT_RESULT |-> s.PREEMPT_RESULT, TICKED |-> s.TICKED]
    /\ s.PREEMPT_RESULT = 0

\* The wait of step 3.
Step3Waits == 29

\* Without preemption the boot context keeps the CPU, so that nobody publishes
\* a result and it never gets past the wait of step 3, except to finish.
NoPreemptInv ==
    ~ preemption =>
        /\ running = Boot
        /\ IsStatics(statics)
        /\ \/ boot.at <= Step3Waits /\ failure = NoFailure
           \/ boot.at >= Finish /\ failure.step \in EarlyStep

\* The instruction pointer and the failure.
LEMMA BootVerdict ==
    ASSUME MainInv, BootStep \/ TryFails \/ WaitTimesOut
    PROVE  \/ boot'.at \in {boot.at, boot.at + 1} /\ UNCHANGED failure
           \/ /\ boot'.at = Finish /\ failure'.step = Instruction.step
              /\ Instruction.op # "note"
<1>1. \/ UNCHANGED <<boot, failure>>
      \/ NoteFrames \/ Register \/ Prepare \/ Advance
      \/ \E cond, what : /\ Fail(what) \/ AdvanceIf(cond, what)
                         /\ \E op \in {"try", "alloc", "compare", "tally", "probe", "held",
                                       "wait", "verify"} : At(op) \/ Under(op)
  BY ZenonT(60) DEF BootStep, TryFails, WaitTimesOut, Try, InitBoot, Sti, BootLock, AllocFrames,
     FreeFrames, CompareFrames, ZeroCounter, TallyCounter, ProbeLock, CheckHeld,
     ResetStatics, ReadClock, WaitEnds, Verify, Critical, Report
<1>2. IsBoot(boot) /\ boot.at \in Nat /\ Finish \in Nat \ {0}
  <2>1. Finish \in Nat /\ Finish >= 33
    BY ZenonT(60), BootCodeShape
  <2> QED
    BY <2>1, MainHolds
<1>3. \A a \in Nat \ {0} : boot' = [boot EXCEPT !.at = a] => boot'.at = a
  BY ZenonT(60), <1>2, BootCounts
<1>4. boot.at + 1 \in Nat \ {0}
  BY <1>2
<1>5. CASE NoteFrames \/ Prepare
  <2>1. UNCHANGED failure
    BY ZenonT(60), <1>5 DEF NoteFrames, Prepare
  <2>2. boot'.at = boot.at + 1
    BY ZenonT(60), <1>2, <1>5 DEF NoteFrames, Prepare, IsBoot
  <2> QED
    BY ZenonT(60), <2>1, <2>2
<1>6. CASE Register
  <2>1. PICK ret : \/ \E what : Fail(what)
                   \/ boot' = [boot EXCEPT !.at = boot.at + 1, !.id = ret] /\ UNCHANGED failure
    BY ZenonT(60), <1>6 DEF Register
  <2>2. Instruction.op = "register"
    BY <1>6 DEF Register, At
  <2>3. CASE \E what : Fail(what)
    <3>1. boot' = [boot EXCEPT !.at = Finish] /\ failure'.step = Instruction.step
      BY <2>3 DEF Fail
    <3> QED
      BY ZenonT(60), <1>2, <1>3, <2>2, <3>1
  <2>4. CASE boot' = [boot EXCEPT !.at = boot.at + 1, !.id = ret] /\ UNCHANGED failure
    BY ZenonT(60), <1>2, <2>4 DEF IsBoot
  <2> QED
    BY <2>1, <2>3, <2>4
<1>7. CASE Advance
  BY ZenonT(60), <1>3, <1>4, <1>7 DEF Advance
<1>8. ASSUME NEW cond, NEW what, Fail(what) \/ AdvanceIf(cond, what),
             NEW op \in {"try", "alloc", "compare", "tally", "probe", "held", "wait", "verify"},
             At(op) \/ Under(op)
      PROVE  \/ boot'.at \in {boot.at, boot.at + 1} /\ UNCHANGED failure
             \/ /\ boot'.at = Finish /\ failure'.step = Instruction.step
                /\ Instruction.op # "note"
  <2>1. Instruction.op # "note"
    BY ZenonT(60), <1>8 DEF At, Under
  <2>2. \/ boot' = [boot EXCEPT !.at = boot.at + 1] /\ UNCHANGED failure
        \/ boot' = [boot EXCEPT !.at = Finish] /\ failure'.step = Instruction.step
    BY <1>8 DEF Fail, AdvanceIf
  <2> QED
    BY ZenonT(60), <1>2, <1>3, <1>4, <2>1, <2>2
<1> QED
  BY ZenonT(60), <1>1, <1>5, <1>6, <1>7, <1>8

\* What the boot context does to the statics: no store but that of the waiter
\* makes PREEMPT_RESULT anything but 0.
LEMMA BootStatics ==
    ASSUME IsStatics(statics), BootStep \/ TryFails \/ WaitTimesOut,
           Instruction.op = "reset" => Instruction.arg = "preempt"
    PROVE  IsStatics(statics')
<1>1. UNCHANGED statics \/ ResetStatics \/ ZeroCounter
  BY ZenonT(60) DEF BootStep, TryFails, WaitTimesOut, Try, InitBoot, Sti, BootLock, AllocFrames,
     FreeFrames, NoteFrames, CompareFrames, TallyCounter, ProbeLock, CheckHeld,
     ReadClock, Register, Prepare, WaitEnds, Verify, Critical, Report
<1>2. CASE ResetStatics
  <2>1. statics' = [statics EXCEPT !.PREEMPTED = FALSE, !.PREEMPT_RESULT = 0, !.FINISHED = 0]
    BY <1>2 DEF ResetStatics, At, Reset
  <2> QED
    BY ZenonT(60), <2>1 DEF IsStatics
<1>3. CASE ZeroCounter
  <2>1. statics' = [statics EXCEPT !.COUNTER = 0]
    BY ZenonT(60), <1>3 DEF ZeroCounter
  <2> QED
    BY <2>1 DEF IsStatics
<1> QED
  BY ZenonT(60), <1>1, <1>2, <1>3

\* The wait of step 3 does not end by itself.
LEMMA Step3Hangs ==
    ASSUME MainInv, BootStep \/ TryFails \/ WaitTimesOut,
           boot.at = Step3Waits, IsStatics(statics)
    PROVE  boot'.at = Finish /\ failure'.step = "step3"
<1>1. Instruction = Do("wait", "result", "step3")
  BY ZenonT(60), BootCodeShape DEF Instruction, Step3Waits
<1>2. Instruction.op = "wait" /\ Instruction.arg = "result" /\ Instruction.step = "step3"
  BY ZenonT(60), <1>1 DEF Do
<1>3. ~ Awaited("result")
  BY DEF Awaited, IsStatics
<1>4. WaitTimesOut
  <2>1. \A op : At(op) \/ Under(op) => op = "wait"
    BY ZenonT(60), <1>2 DEF At, Under
  <2>2. \/ WaitTimesOut \/ WaitEnds
        \/ At("try") \/ At("init_boot") \/ At("sti") \/ (\E op \in DOMAIN LockOf : At(op))
        \/ Under("alloc") \/ Under("free") \/ Under("note") \/ Under("compare")
        \/ Under("zero") \/ Under("tally") \/ Under("probe")
        \/ At("held") \/ At("reset") \/ At("clock") \/ At("register") \/ At("prepare")
        \/ At("verify") \/ At("critical") \/ At("report")
    BY ZenonT(60) DEF BootStep, TryFails, Try, InitBoot, Sti, BootLock, AllocFrames,
       FreeFrames, NoteFrames, CompareFrames, ZeroCounter, TallyCounter, ProbeLock, CheckHeld,
       ResetStatics, ReadClock, Register, Prepare, Verify, Critical, Report
  <2>3. "wait" \notin DOMAIN LockOf
    BY ZenonT(60) DEF LockOf
  <2>4. WaitTimesOut \/ WaitEnds
    BY ZenonT(60), <2>1, <2>2, <2>3
  <2> QED
    BY ZenonT(60), <1>2, <1>3, <2>4 DEF WaitEnds
<1>5. boot' = [boot EXCEPT !.at = Finish] /\ failure'.step = "step3"
  BY ZenonT(60), <1>2, <1>4 DEF WaitTimesOut, Fail
<1>6. Finish \in Nat \ {0}
  <2>1. Finish \in Nat /\ Finish >= 33
    BY ZenonT(60), BootCodeShape
  <2> QED
    BY <2>1
<1> QED
  BY <1>5, <1>6, BootCounts, MainHolds

\* At first the boot context runs and nothing has failed.
LEMMA NoPreemptInvInit ==
    ASSUME Init
    PROVE  NoPreemptInv
<1>1. running = Boot /\ boot.at = 1 /\ failure = NoFailure
  BY ZenonT(60) DEF Init, LockInit
<1>2. IsStatics(statics)
  BY ZenonT(60) DEF Init, IsStatics
<1> QED
  BY <1>1, <1>2 DEF NoPreemptInv, Step3Waits

\* The boot context of a kernel without preemption.
LEMMA BootAlone ==
    ASSUME MainInv, ReportInv, ~ preemption, NoPreemptInv,
           BootStep \/ TryFails \/ WaitTimesOut
    PROVE  NoPreemptInv'
<1>1. running' = Boot
  BY ZenonT(60), BootKeepsCpu
<1>2. boot.at \in Nat \ {0} /\ Finish \in Nat /\ Finish >= 33
  BY ZenonT(60), MainHolds, BootCodeShape
<1>3. IsStatics(statics)
  BY ZenonT(60) DEF NoPreemptInv
<1>4. CASE boot.at <= 28 /\ failure = NoFailure
  <2>1. IsEarly(Instruction)
    <3>1. boot.at \in 1 .. 28
      BY <1>2, <1>4
    <3> QED
      BY ZenonT(60), <3>1, BootCodeShape DEF Instruction
  <2>2. IsStatics(statics')
    BY <1>3, <2>1, BootStatics DEF IsEarly
  <2>3. \/ boot'.at \in {boot.at, boot.at + 1} /\ UNCHANGED failure
        \/ boot'.at = Finish /\ failure'.step \in EarlyStep
    BY ZenonT(60), <2>1, BootVerdict DEF IsEarly
  <2> QED
    BY <1>1, <1>2, <1>4, <2>2, <2>3 DEF NoPreemptInv, Step3Waits
<1>5. CASE boot.at = Step3Waits
  <2>1. boot'.at = Finish /\ failure'.step = "step3"
    BY ZenonT(60), <1>3, <1>5, Step3Hangs
  <2>2. IsStatics(statics')
    <3>1. Instruction = Do("wait", "result", "step3")
      BY ZenonT(60), <1>5, BootCodeShape DEF Instruction, Step3Waits
    <3>2. Instruction.op = "wait"
      BY <3>1 DEF Do
    <3> QED
      BY ZenonT(60), <1>3, <3>2, BootStatics
  <2> QED
    BY <1>1, <1>2, <2>1, <2>2 DEF NoPreemptInv, EarlyStep
<1>6. CASE boot.at >= Finish /\ failure.step \in EarlyStep
  <2>1. ~ \E op \in MiddleOp \cup {"init_boot", "sti"} : At(op)
    BY <1>2, <1>6, AtPlace
  <2>2. ~ \E op \in MiddleOp : Under(op)
    <3>1. ASSUME NEW op \in MiddleOp, Under(op) PROVE FALSE
      <4>1. HasLock(Boot) /\ BootCode[boot.at].op \in MiddleOp
        BY ZenonT(60), <3>1 DEF Under, Instruction
      <4>2. boot.at <= Finish
        BY <1>2, <4>1 DEF ReportInv, Guarded, HasLock
      <4>3. boot.at = Finish
        BY <1>2, <1>6, <4>2
      <4>4. BootCode[Finish].op = "critical" /\ "critical" \notin MiddleOp
        BY ZenonT(60), BootCodeShape DEF MiddleOp
      <4> QED
        BY ZenonT(60), <4>1, <4>3, <4>4
    <3> QED
      BY ZenonT(60), <3>1
  <2>3. Critical \/ Report
    BY ZenonT(60), <2>1, <2>2, BootOps
  <2>4. boot' = [boot EXCEPT !.at = boot.at + 1] /\ UNCHANGED <<failure, statics>>
    BY <2>3 DEF Critical, Report, Advance
  <2>5. boot'.at = boot.at + 1
    <3>1. boot.at + 1 \in Nat \ {0}
      BY <1>2
    <3> QED
      BY ZenonT(60), <2>4, <3>1, BootCounts, MainHolds
  <2> QED
    BY <1>1, <1>2, <1>3, <1>6, <2>4, <2>5 DEF NoPreemptInv
<1>7. \/ boot.at <= Step3Waits /\ failure = NoFailure
      \/ boot.at >= Finish /\ failure.step \in EarlyStep
  BY ZenonT(60) DEF NoPreemptInv
<1> QED
  BY <1>2, <1>4, <1>5, <1>6, <1>7 DEF Step3Waits

\* Its timer never switches.
LEMMA TickAlone ==
    ASSUME MainInv, ~ preemption, Tick
    PROVE  UNCHANGED <<running, boot, failure, statics>>
<1>1. PICK r : /\ r = OnTick(ReapAll(sched), preemption)
               /\ Timer(NextThread(r.ret), Reaps) /\ Serve(r)
  BY ZenonT(60) DEF Tick
<1>2. r.ret = Keep
  BY ZenonT(60), <1>1 DEF OnTick, Ok
<1>3. NextThread(r.ret) = running
  BY <1>2 DEF NextThread, Keep
<1>4. Handler(running, Reaps)
  BY ZenonT(60), <1>1, <1>3 DEF Timer
<1>5. UNCHANGED running
  BY ZenonT(60), <1>4 DEF Handler
<1> QED
  BY ZenonT(60), <1>1, <1>5 DEF Serve

\* Every step keeps it: without preemption the wait of step 3 can only time out.
LEMMA NoPreemptInvNext ==
    ASSUME MainInv, ReportInv, NoPreemptInv, [Next]_vars
    PROVE  NoPreemptInv'
<1>1. UNCHANGED preemption
  BY ZenonT(60) DEF Next, BootStep, TryFails, WaitTimesOut, Try, InitBoot, Sti, BootLock,
     AllocFrames, FreeFrames, NoteFrames, CompareFrames, ZeroCounter, TallyCounter, ProbeLock,
     CheckHeld, ResetStatics, ReadClock, Register, Prepare, WaitEnds, Verify, Critical, Report,
     Under, WorkerStep, LockerLocks, LockerLoads, LockerStores, AppenderLocks, AppenderCounts,
     AppenderWrites, YieldNow, WaiterStarts, WaiterPolls, WaiterCounts, WaiterEnds,
     WaiterPublishes, SetterSets, WorkerFinishes, Exit, Syscall, Work, LockStep, Tick, Serve,
     Halt, vars, machine
<1>2. CASE preemption
  BY ZenonT(60), <1>1, <1>2 DEF NoPreemptInv
<1>3. CASE ~ preemption
  <2>1. running = Boot
    BY ZenonT(60), <1>3 DEF NoPreemptInv
  <2>2. CASE BootStep \/ TryFails \/ WaitTimesOut
    BY ZenonT(60), <1>3, <2>2, BootAlone
  <2>3. CASE UNCHANGED <<running, boot, failure, statics>>
    BY ZenonT(60), <1>1, <2>3 DEF NoPreemptInv
  <2>4. CASE Tick
    BY <1>3, <2>3, <2>4, TickAlone
  <2>5. CASE LockStep
    <3>1. UNCHANGED <<running, boot, failure, statics>>
      BY ZenonT(60), <2>5 DEF LockStep, Cli, Swap, Count, Unlock, Leave
    <3> QED
      BY ZenonT(60), <2>3, <3>1
  <2>6. CASE UNCHANGED vars
    BY ZenonT(60), <2>3, <2>6 DEF vars, lockVars
  <2>7. ~ WorkerStep
    BY ZenonT(60), <2>1 DEF WorkerStep, LockerLocks, LockerLoads, LockerStores, AppenderLocks,
       AppenderCounts, AppenderWrites, YieldNow, WaiterStarts, WaiterPolls, WaiterCounts,
       WaiterEnds, WaiterPublishes, SetterSets, WorkerFinishes, Exit, Syscall, Work, AtLabel
  <2> QED
    BY ZenonT(60), <2>2, <2>4, <2>5, <2>6, <2>7 DEF Next, Halt
<1> QED
  BY ZenonT(60), <1>2, <1>3

=============================================================================
