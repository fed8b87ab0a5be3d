----------------------------- MODULE HeapProofs -----------------------------
(***************************************************************************)
(* The heap's free blocks and allocations tile the arena, its list is in   *)
(* address order and merged, and a free that ends no allocation is         *)
(* refused, for every size of the arena and every order of calls.          *)
(*                                                                         *)
(* The invariant speaks of the set of free blocks, not of the list: a link *)
(* leads to the next block of the set.  One lemma shows that the walk then *)
(* meets exactly that set, in order; after it no step needs the walk.      *)
(***************************************************************************)
EXTENDS Heap, TLAPS

\* A leaf that names no prover goes to the SMT solver, with time to spare.
USE SMTT(60)

\* The hypothesis of the theorems: what is freed is an allocation's payload, or
\* lies in no allocation.  See the run heap_stale_header for what happens otherwise.
NoFreeInside == ~ FREE_INSIDE

-----------------------------------------------------------------------------
(* The invariant *)

\* n is the block of F that follows b, or NONE.
IsNext(F, b, n) ==
    \/ n = NONE /\ \A c \in F : c <= b
    \/ n \in F /\ b < n /\ \A c \in F : c <= b \/ n <= c

FreeBlock(m, b) ==
    /\ b + HEADER_SIZE < ARENA
    /\ MagicOf(m, b) = MAGIC_FREE
    /\ SizeOf(m, b) > HEADER_SIZE
    /\ EndOf(m, b) <= ARENA

AllocatedBlock(m, a) ==
    /\ a.at >= HEADER_SIZE /\ a.at < ARENA
    /\ MagicOf(m, a.at - HEADER_SIZE) = MAGIC_ALLOC
    /\ a.at + a.size <= EndOf(m, a.at - HEADER_SIZE)
    /\ EndOf(m, a.at - HEADER_SIZE) <= ARENA

\* The list leads through F in address order, and no two blocks of it touch.
Listed(m, first, F) ==
    /\ IsNext(F, -1, first)
    /\ \A b \in F : FreeBlock(m, b) /\ IsNext(F, b, NextOf(m, b))
    /\ \A b, c \in F : b < c => EndOf(m, b) < c

Headers(A) == {a.at - HEADER_SIZE : a \in A}

\* The first word of each of these blocks, with the word its block ends before.
Extents(m, B) == {<<b, EndOf(m, b)>> : b \in B}

\* The blocks with these headers share no word and leave out none.
Tiled(m, S) ==
    /\ \A b, c \in S : b < c => EndOf(m, b) <= c
    /\ \A word \in Offset : \E b \in S : b <= word /\ word < EndOf(m, b)

\* What was the header of an allocation still has a size, or no word of it that
\* could be one.
NoEmptyHeader(m) ==
    \A word \in Offset :
        m[word] = MAGIC_ALLOC /\ word + 1 \in Offset =>
            m[word + 1] = 0 \/ m[word + 1] > HEADER_SIZE

HeapHolds(m, first, F, A) ==
    /\ m \in [Offset -> Nat]
    /\ F \subseteq Offset
    /\ A \subseteq [at : Nat, size : Nat \ {0}]
    /\ Listed(m, first, F)
    /\ \A a \in A : AllocatedBlock(m, a)
    /\ \A a, b \in A : a.at = b.at => a = b
    /\ Tiled(m, F \cup Headers(A))
    /\ NoEmptyHeader(m)

HeapInv == \E F \in SUBSET Offset : HeapHolds(mem, head, F, live)

\* The numbers the definitions stand for.
LEMMA Constants ==
    /\ ARENA \in Nat /\ ARENA >= 5
    /\ HEADER_SIZE = 3 /\ MIN_BLOCK = 5
    /\ MAGIC_FREE = ARENA + 1 /\ MAGIC_ALLOC = ARENA + 2 /\ NONE = ARENA + 3
    /\ Offset = 0 .. (ARENA - 1)
    /\ MAX_BLOCKS = ARENA + 2
BY HeapAssumption DEF HEADER_SIZE, MIN_BLOCK, MIN_PAYLOAD, MAGIC_FREE, MAGIC_ALLOC, NONE, Offset, MAX_BLOCKS

\* The words left behind an allocation hold a header when there are MIN_BLOCK of them.
LEMMA RoomBehind ==
    ASSUME NEW t \in Nat, NEW e \in Nat, e <= ARENA, e - t >= 5
    PROVE  t + HEADER_SIZE < ARENA /\ e - t > HEADER_SIZE
BY Constants

-----------------------------------------------------------------------------
(* Blocks *)

Blocks(F, A) == F \cup Headers(A)

\* A block has room for its header and a word of payload, in the arena.
LEMMA BlockFacts ==
    ASSUME NEW m, NEW first, NEW F, NEW A, HeapHolds(m, first, F, A),
           NEW c \in Blocks(F, A)
    PROVE  /\ c \in Nat /\ SizeOf(m, c) \in Nat /\ EndOf(m, c) \in Nat
           /\ {c, c + 1, c + 2} \subseteq Offset
           /\ c + 3 < EndOf(m, c) /\ EndOf(m, c) <= ARENA
<1>1. ARENA \in Nat /\ Offset = 0 .. (ARENA - 1) /\ m \in [Offset -> Nat]
  BY ZenonT(60), Constants DEF HeapHolds
<1>2. ASSUME c \in Nat, c + 1 \in Offset
      PROVE  SizeOf(m, c) \in Nat /\ EndOf(m, c) \in Nat /\ EndOf(m, c) = c + SizeOf(m, c)
  BY <1>1, <1>2 DEF SizeOf, EndOf
<1>3. CASE c \in F
  <2>1. c \in Nat /\ FreeBlock(m, c)
    BY <1>1, <1>3 DEF HeapHolds, Listed
  <2>2. c + 3 < ARENA /\ SizeOf(m, c) > 3 /\ EndOf(m, c) <= ARENA
    BY ZenonT(60), <2>1, Constants DEF FreeBlock
  <2>3. {c, c + 1, c + 2} \subseteq Offset
    BY <1>1, <2>1, <2>2
  <2> QED
    BY <1>2, <2>1, <2>2, <2>3
<1>4. CASE c \in Headers(A)
  <2>1. PICK a \in A : c = a.at - 3
    BY ZenonT(60), <1>4, Constants DEF Headers
  <2>2. a.at \in Nat /\ a.size \in Nat /\ a.size # 0
    BY ZenonT(60) DEF HeapHolds
  <2>3. a.at >= 3 /\ a.at < ARENA /\ a.at + a.size <= EndOf(m, c) /\ EndOf(m, c) <= ARENA
    BY ZenonT(60), <2>1, Constants DEF HeapHolds, AllocatedBlock
  <2>4. c \in Nat /\ a.at = c + 3
    BY <2>1, <2>2, <2>3
  <2>5. {c, c + 1, c + 2} \subseteq Offset
    BY <1>1, <2>3, <2>4
  <2> QED
    BY <1>2, <2>2, <2>3, <2>4, <2>5
<1> QED
  BY ZenonT(60), <1>3, <1>4 DEF Blocks

\* What is left of S when the words from lo to hi are built anew.
Outer(S, lo, hi) == {c \in S : c < lo \/ hi <= c}

\* Both alloc and dealloc write only in a stretch of whole blocks, lo to hi, and
\* in the link of p, the free block before it (-1: there is none).
Elsewhere(m, m2, lo, hi, p) ==
    \A word \in Offset : (word < lo \/ hi <= word) /\ (p = -1 \/ word # p + 2) => m2[word] = m[word]

WholeBlocks(m, S, lo, hi) ==
    \A c \in S : /\ c < lo => EndOf(m, c) <= lo
                 /\ c < hi => EndOf(m, c) <= hi

IsBefore(F, p, lo) == p \in F \cup {-1} /\ p < lo /\ \A c \in F : c < lo => c <= p

\* A block outside the stretch keeps its header, but for the link of p.
LEMMA OuterBlocks ==
    ASSUME NEW m, NEW first, NEW F, NEW A, HeapHolds(m, first, F, A),
           NEW lo \in Nat, NEW hi \in Nat, WholeBlocks(m, Blocks(F, A), lo, hi),
           NEW p, IsBefore(F, p, lo), NEW m2, Elsewhere(m, m2, lo, hi, p),
           NEW c \in Outer(Blocks(F, A), lo, hi)
    PROVE  /\ c \in Nat /\ c \in Blocks(F, A) /\ EndOf(m, c) \in Nat
           /\ c + 3 < EndOf(m, c) /\ EndOf(m, c) <= ARENA
           /\ EndOf(m, c) <= lo \/ hi <= c
           /\ MagicOf(m2, c) = MagicOf(m, c) /\ SizeOf(m2, c) = SizeOf(m, c)
           /\ EndOf(m2, c) = EndOf(m, c)
           /\ c # p => NextOf(m2, c) = NextOf(m, c)
<1>1. c \in Blocks(F, A) /\ (c < lo \/ hi <= c)
  BY ZenonT(60) DEF Outer
<1>2. /\ c \in Nat /\ EndOf(m, c) \in Nat
      /\ {c, c + 1, c + 2} \subseteq Offset
      /\ c + 3 < EndOf(m, c) /\ EndOf(m, c) <= ARENA
  BY <1>1, BlockFacts
<1>3. EndOf(m, c) <= lo \/ hi <= c
  BY ZenonT(60), <1>1 DEF WholeBlocks
<1>4. \A word \in {c, c + 1, c + 2} : word \in Offset /\ (word < lo \/ hi <= word)
  BY <1>2, <1>3
<1>5. p # -1 => p \in Nat /\ p \in Blocks(F, A) /\ EndOf(m, p) \in Nat /\ p + 3 < EndOf(m, p)
  <2>1. p # -1 => p \in Blocks(F, A)
    BY ZenonT(60) DEF IsBefore, Blocks
  <2> QED
    BY ZenonT(60), <2>1, BlockFacts
<1>6. p # -1 /\ c # p => EndOf(m, p) <= c \/ EndOf(m, c) <= p
  <2>1. Tiled(m, Blocks(F, A))
    BY ZenonT(60) DEF HeapHolds, Blocks
  <2> QED
    BY <1>1, <1>2, <1>5, <2>1 DEF Tiled
<1>7. p # -1 => c # p + 2 /\ c + 1 # p + 2
  BY <1>2, <1>5, <1>6
<1>8. m2[c] = m[c] /\ m2[c + 1] = m[c + 1]
  <2> HIDE DEF Offset
  <2> QED
    BY ZenonT(60), <1>4, <1>7 DEF Elsewhere
<1>9. c # p => m2[c + 2] = m[c + 2]
  <2>1. c # p /\ p # -1 => c + 2 # p + 2
    BY <1>2, <1>5
  <2> QED
    BY ZenonT(60), <1>4, <2>1 DEF Elsewhere
<1> QED
  BY ZenonT(60), <1>1, <1>2, <1>3, <1>8, <1>9 DEF MagicOf, SizeOf, EndOf, NextOf

\* A stretch that new blocks fill leaves no gap in the arena and no overlap.
LEMMA StillTiled ==
    ASSUME NEW m, NEW first, NEW F, NEW A, HeapHolds(m, first, F, A),
           NEW lo \in Nat, NEW hi \in Nat, WholeBlocks(m, Blocks(F, A), lo, hi),
           NEW p, IsBefore(F, p, lo), NEW m2, Elsewhere(m, m2, lo, hi, p),
           NEW N, N \subseteq lo .. (hi - 1),
           \A x \in N : EndOf(m2, x) \in Nat /\ EndOf(m2, x) <= hi,
           \A x, y \in N : x < y => EndOf(m2, x) <= y,
           \A word \in lo .. (hi - 1) : \E x \in N : x <= word /\ word < EndOf(m2, x)
    PROVE  Tiled(m2, Outer(Blocks(F, A), lo, hi) \cup N)
<1> DEFINE S == Blocks(F, A)
           O == Outer(S, lo, hi)
<1>1. \A c \in O : /\ c \in Nat /\ c \in S /\ EndOf(m, c) \in Nat /\ EndOf(m2, c) = EndOf(m, c)
                   /\ EndOf(m, c) <= lo \/ hi <= c
                   /\ c + 3 < EndOf(m, c)
  BY OuterBlocks
<1>2. \A x \in N : x \in Nat /\ lo <= x /\ x < hi /\ EndOf(m2, x) \in Nat /\ EndOf(m2, x) <= hi
  OBVIOUS
<1>3. Tiled(m, S)
  BY ZenonT(60) DEF HeapHolds, Blocks
<1>4. \A c \in S : c \in Nat /\ EndOf(m, c) \in Nat
  BY ZenonT(60), BlockFacts
<1> HIDE DEF O, S
<1>5. ASSUME NEW b \in O \cup N, NEW c \in O \cup N, b < c PROVE EndOf(m2, b) <= c
  <2>1. CASE b \in O /\ c \in O
    BY ZenonT(60), <1>1, <1>3, <1>5, <2>1 DEF Tiled
  <2>2. CASE b \in O /\ c \in N
    BY <1>1, <1>2, <1>5, <2>2
  <2>3. CASE b \in N /\ c \in O
    BY <1>1, <1>2, <1>5, <2>3
  <2>4. CASE b \in N /\ c \in N
    BY ZenonT(60), <1>5, <2>4
  <2> QED
    BY ZenonT(60), <2>1, <2>2, <2>3, <2>4
<1>6. ASSUME NEW word \in Offset
      PROVE  \E b \in O \cup N : b <= word /\ word < EndOf(m2, b)
  <2>1. word \in Nat
    BY Constants
  <2>2. CASE word \in lo .. (hi - 1)
    BY ZenonT(60), <2>2
  <2>3. CASE word \notin lo .. (hi - 1)
    <3>1. PICK b \in S : b <= word /\ word < EndOf(m, b)
      BY ZenonT(60), <1>3 DEF Tiled
    <3>2. b < lo \/ hi <= b
      <4>1. b \in Nat /\ EndOf(m, b) \in Nat
        BY ZenonT(60), <1>4
      <4>2. b < hi => EndOf(m, b) <= hi
        BY ZenonT(60) DEF WholeBlocks, S
      <4> QED
        BY <2>1, <2>3, <3>1, <4>1, <4>2
    <3>3. b \in O
      BY ZenonT(60), <3>2 DEF O, Outer
    <3> QED
      BY ZenonT(60), <1>1, <3>1, <3>3
  <2> QED
    BY ZenonT(60), <2>2, <2>3
<1> QED
  BY ZenonT(60), <1>5, <1>6 DEF Tiled, O, S

\* The free blocks of the stretch: they lead on through F2, and touch no block.
NewFree(m, m2, F, F2, lo, hi, NF) ==
    /\ NF \subseteq lo .. (hi - 1)
    /\ \A x \in NF : FreeBlock(m2, x) /\ IsNext(F2, x, NextOf(m2, x))
    /\ \A x, y \in NF : x < y => EndOf(m2, x) < y
    /\ \A x \in NF, c \in F : c < lo => EndOf(m, c) < x
    /\ \A x \in NF, c \in F : hi <= c => EndOf(m2, x) < c

\* p, or the head of the list, leads to the next block of F2.
LeadsOn(m2, first, first2, p, F2) ==
    \E n : /\ IsNext(F2, p, n)
           /\ first2 = IF p = -1 THEN n ELSE first
           /\ p # -1 => NextOf(m2, p) = n

\* The list leads through the new free blocks NF when p leads to the first of
\* them (or past them) and they lead on.
LEMMA StillListed ==
    ASSUME NEW m, NEW first, NEW F, NEW A, HeapHolds(m, first, F, A),
           NEW lo \in Nat, NEW hi \in Nat, lo < hi, WholeBlocks(m, Blocks(F, A), lo, hi),
           NEW p, IsBefore(F, p, lo), NEW m2, Elsewhere(m, m2, lo, hi, p),
           NEW NF, NEW F2, F2 = Outer(F, lo, hi) \cup NF, NewFree(m, m2, F, F2, lo, hi, NF),
           NEW first2, LeadsOn(m2, first, first2, p, F2)
    PROVE  Listed(m2, first2, F2)
<1>14. /\ NF \subseteq lo .. (hi - 1)
       /\ \A x \in NF : FreeBlock(m2, x) /\ IsNext(F2, x, NextOf(m2, x))
       /\ \A x, y \in NF : x < y => EndOf(m2, x) < y
       /\ \A x \in NF, c \in F : c < lo => EndOf(m, c) < x
       /\ \A x \in NF, c \in F : hi <= c => EndOf(m2, x) < c
  BY ZenonT(60) DEF NewFree
<1>15. PICK n : /\ IsNext(F2, p, n)
                /\ first2 = IF p = -1 THEN n ELSE first
                /\ p # -1 => NextOf(m2, p) = n
  BY ZenonT(60) DEF LeadsOn
<1> DEFINE O == Outer(F, lo, hi)
<1>1. \A c \in O : /\ c \in Nat /\ c \in F /\ (c < lo \/ hi <= c)
                   /\ c + 3 < EndOf(m, c) /\ EndOf(m, c) \in Nat /\ EndOf(m, c) <= ARENA
                   /\ MagicOf(m2, c) = MagicOf(m, c) /\ SizeOf(m2, c) = SizeOf(m, c)
                   /\ EndOf(m2, c) = EndOf(m, c)
                   /\ c # p => NextOf(m2, c) = NextOf(m, c)
  <2> SUFFICES ASSUME NEW c \in O
               PROVE /\ c \in Nat /\ c \in F /\ (c < lo \/ hi <= c)
                     /\ c + 3 < EndOf(m, c) /\ EndOf(m, c) \in Nat /\ EndOf(m, c) <= ARENA
                     /\ MagicOf(m2, c) = MagicOf(m, c) /\ SizeOf(m2, c) = SizeOf(m, c)
                     /\ EndOf(m2, c) = EndOf(m, c)
                     /\ c # p => NextOf(m2, c) = NextOf(m, c)
    BY ZenonT(60)
  <2>1. c \in F /\ (c < lo \/ hi <= c) /\ c \in Outer(Blocks(F, A), lo, hi)
    BY ZenonT(60) DEF Outer, Blocks
  <2> QED
    BY <2>1, OuterBlocks
<1>2. \A x \in NF : x \in Nat /\ lo <= x /\ x < hi
  BY <1>14
<1>3. \A c \in F : c \in Nat /\ c # NONE /\ c < NONE
  BY Constants DEF HeapHolds
<1>4. Listed(m, first, F)
  BY ZenonT(60) DEF HeapHolds
<1> HIDE DEF O
<1>5. F2 = O \cup NF
  BY ZenonT(60) DEF O
<1>6. \A c \in F : c < lo \/ hi <= c => c \in O
  BY ZenonT(60) DEF O, Outer
<1>7. \A c \in F : c < lo => c <= p
  BY ZenonT(60) DEF IsBefore
<1>8. p = -1 \/ (p \in F /\ p < lo)
  BY ZenonT(60) DEF IsBefore
<1>13. p \in Int /\ -1 <= p /\ p < lo
  BY <1>3, <1>8
<1>9. ASSUME NEW c \in Int, -1 <= c, NEW k, IsNext(F, c, k), c < p \/ hi <= c
      PROVE  IsNext(F2, c, k)
  <2>0. hi <= c \/ (c < p /\ p \in F)
    BY <1>8, <1>9, <1>13
  <2>1. CASE k = NONE
    <3>1. \A d \in F : d <= c
      BY ZenonT(60), <1>3, <2>1, <1>9 DEF IsNext
    <3>2. hi <= c
      BY <1>13, <2>0, <3>1
    <3>3. \A x \in F2 : x <= c
      <4> SUFFICES ASSUME NEW x \in F2 PROVE x <= c
        BY ZenonT(60)
      <4>1. CASE x \in O
        BY ZenonT(60), <1>1, <3>1, <4>1
      <4>2. CASE x \in NF
        BY <1>2, <3>2, <4>2
      <4> QED
        BY ZenonT(60), <1>5, <4>1, <4>2
    <3> QED
      BY ZenonT(60), <2>1, <3>3 DEF IsNext
  <2>2. CASE k # NONE
    <3>1. k \in F /\ c < k /\ \A d \in F : d <= c \/ k <= d
      BY ZenonT(60), <2>2, <1>9 DEF IsNext
    <3>2. k \in Nat /\ (hi <= c \/ k <= p)
      BY <1>3, <2>0, <3>1, <1>13
    <3>3. k < lo \/ hi <= k
      BY <1>13, <3>1, <3>2
    <3>4. k \in F2
      BY ZenonT(60), <1>5, <1>6, <3>1, <3>3
    <3>5. \A x \in F2 : x <= c \/ k <= x
      <4> SUFFICES ASSUME NEW x \in F2 PROVE x <= c \/ k <= x
        BY ZenonT(60)
      <4>1. CASE x \in O
        BY ZenonT(60), <1>1, <3>1, <4>1
      <4>2. CASE x \in NF
        BY <1>2, <1>13, <3>2, <4>2
      <4> QED
        BY ZenonT(60), <1>5, <4>1, <4>2
    <3> QED
      BY ZenonT(60), <3>1, <3>4, <3>5 DEF IsNext
  <2> QED
    BY ZenonT(60), <2>1, <2>2
<1>10. IsNext(F2, -1, first2)
  <2>1. CASE p = -1
    BY ZenonT(60), <1>15, <2>1
  <2>2. CASE p # -1
    <3>1. IsNext(F, -1, first) /\ -1 < p /\ -1 \in Int /\ -1 <= -1
      BY <1>4, <1>13, <2>2 DEF Listed
    <3>2. IsNext(F2, -1, first)
      BY ZenonT(60), <1>9, <3>1
    <3> QED
      BY ZenonT(60), <1>15, <2>2, <3>2
  <2> QED
    BY ZenonT(60), <2>1, <2>2
<1>11. ASSUME NEW b \in F2 PROVE FreeBlock(m2, b) /\ IsNext(F2, b, NextOf(m2, b))
  <2>1. CASE b \in O
    <3>1. FreeBlock(m, b) /\ IsNext(F, b, NextOf(m, b))
      BY ZenonT(60), <1>1, <1>4, <2>1 DEF Listed
    <3>2. FreeBlock(m2, b)
      BY ZenonT(60), <1>1, <2>1, <3>1 DEF FreeBlock
    <3>3. CASE b = p
      BY <1>1, <1>15, <2>1, <3>2, <3>3
    <3>4. CASE b # p
      <4>1. b < p \/ hi <= b
        BY <1>1, <1>7, <1>13, <2>1, <3>4
      <4>2. IsNext(F2, b, NextOf(m, b))
        <5>1. b \in Int /\ -1 <= b
          BY <1>1, <2>1
        <5> QED
          BY ZenonT(60), <1>9, <3>1, <4>1, <5>1
      <4> QED
        BY ZenonT(60), <1>1, <2>1, <3>2, <3>4, <4>2
    <3> QED
      BY ZenonT(60), <3>3, <3>4
  <2>2. CASE b \in NF
    BY ZenonT(60), <1>14, <2>2
  <2> QED
    BY ZenonT(60), <1>5, <2>1, <2>2
<1>12. ASSUME NEW b \in F2, NEW c \in F2, b < c PROVE EndOf(m2, b) < c
  <2>1. CASE b \in O /\ c \in O
    BY ZenonT(60), <1>1, <1>4, <1>12, <2>1 DEF Listed
  <2>2. CASE b \in O /\ c \in NF
    BY <1>1, <1>2, <1>12, <1>14, <2>2
  <2>3. CASE b \in NF /\ c \in O
    BY <1>1, <1>2, <1>12, <1>14, <2>3
  <2>4. CASE b \in NF /\ c \in NF
    BY ZenonT(60), <1>12, <1>14, <2>4
  <2> QED
    BY ZenonT(60), <1>5, <2>1, <2>2, <2>3, <2>4
<1> QED
  BY ZenonT(60), <1>10, <1>11, <1>12 DEF Listed

-----------------------------------------------------------------------------
(* alloc *)

\* The free blocks that alloc leaves of the block b to e: the gap before the
\* header h and the tail t.
Remains(b, h, t, e) == {x \in {b, t} : (x = b /\ h # b) \/ (x = t /\ e - t >= MIN_BLOCK)}

\* What alloc computes before it writes: where the header goes in the block from
\* b to e after p, where the allocation and its block end, and the links.
AllocPlan(m, first, F, b, e, p, n, size, h, t, f, after, k, first2) ==
    /\ b \in F /\ e = EndOf(m, b) /\ IsBefore(F, p, b) /\ n = NextOf(m, b)
    /\ size \in Nat \ {0} /\ h \in Nat /\ (h = b \/ h >= b + MIN_BLOCK)
    /\ t = h + HEADER_SIZE + size /\ t <= e /\ f = AllocEnd(t, e)
    /\ after = (IF e - t >= MIN_BLOCK THEN t ELSE n)
    /\ k = (IF h # b THEN b ELSE after)
    /\ first2 = (IF p = -1 THEN k ELSE first)

\* What alloc has written when it is done.
AllocWritten(m, b, e, p, n, h, t, f, after, k, m2) ==
    /\ m2 \in [Offset -> Nat] /\ Elsewhere(m, m2, b, e, p) /\ NoEmptyHeader(m2)
    /\ m2[h] = MAGIC_ALLOC /\ m2[h + 1] = f - h
    /\ h # b => m2[b] = MAGIC_FREE /\ m2[b + 1] = h - b /\ m2[b + 2] = after
    /\ e - t >= MIN_BLOCK => m2[t] = MAGIC_FREE /\ m2[t + 1] = e - t /\ m2[t + 2] = n
    /\ p # -1 => m2[p + 2] = k

\* It leaves the heap as it should be.
LEMMA AllocHolds ==
    ASSUME NEW m, NEW first, NEW F, NEW A, HeapHolds(m, first, F, A),
           NEW b, NEW e, NEW p, NEW n, NEW size, NEW h, NEW t, NEW f, NEW after, NEW k, NEW first2,
           AllocPlan(m, first, F, b, e, p, n, size, h, t, f, after, k, first2),
           NEW m2, AllocWritten(m, b, e, p, n, h, t, f, after, k, m2)
    PROVE  HeapHolds(m2, first2, Outer(F, b, e) \cup Remains(b, h, t, e),
                     A \cup {[at |-> h + HEADER_SIZE, size |-> size]})
<1>p. /\ b \in F /\ e = EndOf(m, b) /\ IsBefore(F, p, b) /\ n = NextOf(m, b)
      /\ size \in Nat \ {0} /\ h \in Nat /\ (h = b \/ h >= b + MIN_BLOCK)
      /\ t = h + HEADER_SIZE + size /\ t <= e /\ f = AllocEnd(t, e)
      /\ after = (IF e - t >= MIN_BLOCK THEN t ELSE n)
      /\ k = (IF h # b THEN b ELSE after)
      /\ first2 = (IF p = -1 THEN k ELSE first)
  BY ZenonT(60) DEF AllocPlan
<1> USE <1>p
<1>0. /\ m2 \in [Offset -> Nat] /\ Elsewhere(m, m2, b, e, p) /\ NoEmptyHeader(m2)
      /\ m2[h] = MAGIC_ALLOC /\ m2[h + 1] = f - h
      /\ h # b => m2[b] = MAGIC_FREE /\ m2[b + 1] = h - b /\ m2[b + 2] = after
      /\ e - t >= MIN_BLOCK => m2[t] = MAGIC_FREE /\ m2[t + 1] = e - t /\ m2[t + 2] = n
      /\ p # -1 => m2[p + 2] = k
  BY ZenonT(60) DEF AllocWritten
<1> USE <1>0
<1> DEFINE NF == Remains(b, h, t, e)
           O == Outer(F, b, e)
           F2 == O \cup NF
           S == Blocks(F, A)
           new == [at |-> h + HEADER_SIZE, size |-> size]
           A2 == A \cup {new}
           N == NF \cup {h}
<1>1. /\ HEADER_SIZE = 3 /\ MIN_BLOCK = 5 /\ ARENA \in Nat /\ Offset = 0 .. (ARENA - 1)
      /\ MAGIC_FREE = ARENA + 1 /\ MAGIC_ALLOC = ARENA + 2 /\ NONE = ARENA + 3
  BY ZenonT(60), Constants
<1>2. b \in Nat /\ e \in Nat /\ b + 3 < e /\ e <= ARENA /\ b \in S
  <2>1. b \in S
    BY ZenonT(60) DEF Blocks
  <2> QED
    BY ZenonT(60), <2>1, BlockFacts
<1>3. /\ h \in Nat /\ t \in Nat /\ size \in Nat /\ size # 0 /\ t = h + 3 + size /\ t <= e
      /\ h = b \/ h >= b + 5
      /\ f = IF e - t >= 5 THEN t ELSE e
      /\ f \in Nat /\ t <= f /\ f <= e
  <2>1. /\ t = h + 3 + size /\ t \in Nat /\ t <= e /\ h \in Nat /\ size \in Nat /\ size # 0
        /\ h = b \/ h >= b + 5
    BY <1>1
  <2>2. f = IF e - t >= 5 THEN t ELSE e
    BY ZenonT(60), <1>1 DEF AllocEnd
  <2> QED
    BY <1>2, <2>1, <2>2
<1>4. Tiled(m, S) /\ Listed(m, first, F) /\ m \in [Offset -> Nat] /\ F \subseteq Offset
  BY ZenonT(60) DEF HeapHolds, Blocks
<1>5. WholeBlocks(m, S, b, e)
  <2> SUFFICES ASSUME NEW c \in S
               PROVE  (c < b => EndOf(m, c) <= b) /\ (c < e => EndOf(m, c) <= e)
    BY ZenonT(60) DEF WholeBlocks
  <2>1. c \in Nat /\ EndOf(m, c) \in Nat
    BY ZenonT(60), BlockFacts
  <2>2. (c < b => EndOf(m, c) <= b) /\ (b < c => e <= c)
    BY ZenonT(60), <1>2, <1>4 DEF Tiled
  <2> QED
    BY <1>2, <2>1, <2>2
<1>t. e - t >= 5 => EndOf(m2, t) = e /\ NextOf(m2, t) = n
  <2> SUFFICES ASSUME e - t >= 5
               PROVE  EndOf(m2, t) = e /\ NextOf(m2, t) = n
    BY ZenonT(60)
  <2>1. m2[t + 1] = e - t /\ m2[t + 2] = n
    BY ZenonT(60), <1>1
  <2>2. t + (e - t) = e
    BY <1>2, <1>3
  <2> QED
    BY ZenonT(60), <2>1, <2>2 DEF EndOf, SizeOf, NextOf
<1>6. \A x \in NF : \/ x = b /\ h # b /\ EndOf(m2, x) = h /\ NextOf(m2, x) = after
                    \/ x = t /\ e - t >= 5 /\ EndOf(m2, x) = e /\ NextOf(m2, x) = n
  <2>1. h # b => EndOf(m2, b) = h /\ NextOf(m2, b) = after
    BY <1>2, <1>3 DEF EndOf, SizeOf, NextOf
  <2> QED
    BY ZenonT(60), <1>1, <1>t, <2>1 DEF Remains
<1>7. /\ EndOf(m2, h) = f
      /\ h # b => b \in NF /\ EndOf(m2, b) = h /\ NextOf(m2, b) = after /\ b # t
      /\ e - t >= 5 => t \in NF /\ EndOf(m2, t) = e /\ NextOf(m2, t) = n
  <2>1. EndOf(m2, h) = f
    BY <1>3 DEF EndOf, SizeOf
  <2>2. h # b => EndOf(m2, b) = h /\ NextOf(m2, b) = after /\ b # t
    BY <1>2, <1>3 DEF EndOf, SizeOf, NextOf
  <2> QED
    BY ZenonT(60), <1>1, <1>t, <2>1, <2>2 DEF Remains
<1> HIDE DEF NF, O
<1>8. /\ \A c \in O : c \in F /\ c \in Nat /\ (c < b \/ e <= c)
      /\ \A c \in F : c \in O \/ c = b
  <2>1. \A c \in F : c = b \/ c < b \/ e <= c
    <3>1. \A c \in F : b < c => e < c
      BY ZenonT(60), <1>4 DEF Listed
    <3>2. \A c \in F : c \in Nat
      BY <1>1, <1>4
    <3> QED
      BY <1>2, <3>1, <3>2
  <2>2. \A c \in F : c \in Nat
    BY <1>1, <1>4
  <2> QED
    BY ZenonT(60), <2>1, <2>2 DEF O, Outer
<1>9. Tiled(m2, Outer(S, b, e) \cup N)
  <2>1. N \subseteq b .. (e - 1)
    BY <1>2, <1>3, <1>6
  <2>2. \A x \in N : EndOf(m2, x) \in Nat /\ EndOf(m2, x) <= e
    BY <1>2, <1>3, <1>6, <1>7
  <2>3. \A x, y \in N : x < y => EndOf(m2, x) <= y
    BY <1>2, <1>3, <1>6, <1>7
  <2>4. \A word \in b .. (e - 1) : \E x \in N : x <= word /\ word < EndOf(m2, x)
    <3> SUFFICES ASSUME NEW word \in b .. (e - 1)
                 PROVE  \E x \in N : x <= word /\ word < EndOf(m2, x)
      BY ZenonT(60)
    <3>1. CASE word < h
      BY <1>2, <1>3, <1>7, <3>1
    <3>2. CASE h <= word /\ word < f
      BY ZenonT(60), <1>7, <3>2
    <3>3. CASE f <= word
      BY <1>2, <1>3, <1>7, <3>3
    <3> QED
      BY <1>2, <1>3, <3>1, <3>2, <3>3
  <2> HIDE DEF N, S
  <2> QED
    BY ZenonT(60), <1>2, <1>5, <2>1, <2>2, <2>3, <2>4, StillTiled DEF S
<1>10. /\ n = NONE => \A c \in F : c <= b
       /\ n # NONE => n \in O /\ n \in Nat /\ e < n /\ \A c \in F : c <= b \/ n <= c
  <2>1. IsNext(F, b, n) /\ \A c \in F : c # NONE
    BY <1>1, <1>4 DEF Listed
  <2>2. \A c \in F : b < c => e < c
    BY ZenonT(60), <1>4 DEF Listed
  <2>3. CASE n = NONE
    BY ZenonT(60), <2>1, <2>3 DEF IsNext
  <2>4. CASE n # NONE
    <3>1. n \in F /\ b < n /\ \A c \in F : c <= b \/ n <= c
      BY ZenonT(60), <2>1, <2>4 DEF IsNext
    <3>2. e < n /\ ~ (n = b)
      BY <1>2, <2>2, <3>1
    <3> QED
      BY ZenonT(60), <1>8, <2>4, <3>1, <3>2
  <2> QED
    BY ZenonT(60), <2>3, <2>4
<1>11. /\ p \in Int /\ -1 <= p /\ p < b /\ \A c \in O : c <= p \/ e <= c
       /\ \A x \in F2 : x \in O \/ (x = b /\ h # b) \/ (x = t /\ e - t >= 5)
       /\ \A c \in O : c \in Nat /\ (b < c => n # NONE /\ n <= c)
       /\ NONE \notin F2
  <2>1. p \in Int /\ -1 <= p /\ p < b /\ \A c \in O : c <= p \/ e <= c
    <3>1. p \in Int /\ -1 <= p /\ p < b
      BY <1>1, <1>4 DEF IsBefore
    <3>2. \A c \in F : c < b => c <= p
      BY ZenonT(60) DEF IsBefore
    <3> QED
      BY ZenonT(60), <1>8, <3>1, <3>2
  <2>2. \A c \in O : c \in Nat /\ (b < c => n # NONE /\ n <= c)
    BY <1>2, <1>8, <1>10
  <2>3. NONE \notin F2
    <3>1. NONE \notin O
      BY <1>1, <1>4, <1>8
    <3>2. NONE \notin NF
      <4>1. b # NONE /\ t # NONE
        BY <1>1, <1>2, <1>3
      <4> QED
        BY ZenonT(60), <1>6, <4>1
    <3> QED
      BY ZenonT(60), <3>1, <3>2
  <2> QED
    BY ZenonT(60), <1>6, <2>1, <2>2, <2>3
<1>12. e - t >= 5 => IsNext(F2, t, n)
  <2> SUFFICES ASSUME e - t >= 5 PROVE IsNext(F2, t, n)
    BY ZenonT(60)
  <2>1. b < t /\ t < e
    BY <1>2, <1>3
  <2>2. CASE n = NONE
    <3>1. \A x \in F2 : x <= t
      BY <1>2, <1>3, <1>8, <1>10, <1>11, <2>1, <2>2
    <3> QED
      BY ZenonT(60), <2>2, <3>1 DEF IsNext
  <2>3. CASE n # NONE
    <3>1. n \in F2 /\ t < n
      BY <1>2, <1>3, <1>10, <2>1, <2>3
    <3>2. \A x \in F2 : x <= t \/ n <= x
      BY <1>2, <1>3, <1>8, <1>11, <2>1, <2>3
    <3> QED
      BY ZenonT(60), <3>1, <3>2 DEF IsNext
  <2> QED
    BY ZenonT(60), <2>2, <2>3
<1>13. ASSUME NEW q \in Int, q < h, b <= q \/ q = p, \A x \in F2 : x <= q \/ x # b
       PROVE  IsNext(F2, q, after)
  <2>1. CASE e - t >= 5
    <3>1. t \in F2 /\ q < t
      BY <1>3, <1>7, <1>13, <2>1
    <3>2. \A x \in F2 : x <= q \/ t <= x
      BY <1>2, <1>3, <1>8, <1>11, <1>13, <2>1
    <3> QED
      BY ZenonT(60), <1>1, <2>1, <3>1, <3>2 DEF IsNext
  <2>2. CASE ~ (e - t >= 5)
    <3>1. after = n
      BY ZenonT(60), <1>1, <2>2
    <3>2. CASE n = NONE
      <4>1. \A x \in F2 : x <= q
        BY <1>2, <1>3, <1>8, <1>10, <1>11, <1>13, <2>2, <3>2
      <4> QED
        BY ZenonT(60), <3>1, <3>2, <4>1 DEF IsNext
    <3>3. CASE n # NONE
      <4>1. n \in F2 /\ q < n
        BY <1>2, <1>3, <1>10, <1>13, <3>3
      <4>2. \A x \in F2 : x <= q \/ n <= x
        BY <1>2, <1>3, <1>8, <1>11, <1>13, <2>2, <3>3
      <4> QED
        BY ZenonT(60), <3>1, <4>1, <4>2 DEF IsNext
    <3> QED
      BY ZenonT(60), <3>2, <3>3
  <2> QED
    BY ZenonT(60), <2>1, <2>2
<1>14. IsNext(F2, p, k)
  <2>1. CASE h # b
    <3>1. k = b /\ b \in F2
      BY ZenonT(60), <1>7, <2>1
    <3>2. \A x \in F2 : x <= p \/ b <= x
      BY <1>2, <1>3, <1>11
    <3> QED
      BY ZenonT(60), <1>11, <3>1, <3>2 DEF IsNext
  <2>2. CASE h = b
    <3>1. k = after /\ \A x \in F2 : x # b
      BY <1>2, <1>3, <1>8, <1>11, <2>2
    <3> QED
      BY ZenonT(60), <1>11, <1>13, <2>2, <3>1
  <2> QED
    BY ZenonT(60), <2>1, <2>2
<1>15. Listed(m2, first2, F2)
  <2>1. NF \subseteq b .. (e - 1)
    BY <1>2, <1>3, <1>6
  <2>2. \A x \in NF : FreeBlock(m2, x) /\ IsNext(F2, x, NextOf(m2, x))
    <3> SUFFICES ASSUME NEW x \in NF PROVE FreeBlock(m2, x) /\ IsNext(F2, x, NextOf(m2, x))
      BY ZenonT(60)
    <3>1. CASE x = b /\ h # b
      <4>1. m2[b] = MAGIC_FREE /\ m2[b + 1] = h - b /\ EndOf(m2, b) = h /\ NextOf(m2, b) = after
        BY ZenonT(60), <1>7, <3>1
      <4>2. FreeBlock(m2, b)
        BY <1>1, <1>2, <1>3, <3>1, <4>1 DEF FreeBlock, MagicOf, SizeOf
      <4>3. b \in Int /\ b < h /\ b <= b
        BY <1>2, <1>3, <3>1
      <4>4. \A y \in F2 : y <= b \/ y # b
        BY ZenonT(60), <4>3
      <4> QED
        BY ZenonT(60), <1>13, <3>1, <4>1, <4>2, <4>3, <4>4
    <3>2. CASE x = t /\ e - t >= 5
      <4>1. m2[t] = MAGIC_FREE /\ m2[t + 1] = e - t /\ EndOf(m2, t) = e /\ NextOf(m2, t) = n
        BY ZenonT(60), <1>1, <1>7, <3>2
      <4>2. FreeBlock(m2, t)
        <5>1. t \in Nat /\ e \in Nat /\ e <= ARENA
          BY <1>2, <1>3
        <5>2. t + HEADER_SIZE < ARENA /\ e - t > HEADER_SIZE
          BY ZenonT(60), <3>2, <5>1, RoomBehind
        <5> QED
          BY ZenonT(60), <4>1, <5>1, <5>2 DEF FreeBlock, MagicOf, SizeOf
      <4> QED
        BY ZenonT(60), <1>12, <3>2, <4>1, <4>2
    <3> QED
      BY ZenonT(60), <1>6, <3>1, <3>2
  <2>3. \A x, y \in NF : x < y => EndOf(m2, x) < y
    BY <1>2, <1>3, <1>6
  <2>4. \A x \in NF : b <= x /\ EndOf(m2, x) \in Nat /\ EndOf(m2, x) <= e /\ x \in Nat
    BY <1>2, <1>3, <1>6
  <2>5. \A c \in F : /\ c \in Nat /\ EndOf(m, c) \in Nat
                     /\ c < b => EndOf(m, c) < b
                     /\ b < c => e < c
    <3>1. \A c \in F : c \in Nat /\ EndOf(m, c) \in Nat
      BY ZenonT(60), BlockFacts DEF Blocks
    <3> QED
      BY ZenonT(60), <1>4, <3>1 DEF Listed
  <2>6. \A x \in NF, c \in F : c < b => EndOf(m, c) < x
    BY <1>2, <2>4, <2>5
  <2>7. \A x \in NF, c \in F : e <= c => EndOf(m2, x) < c
    BY <1>2, <2>4, <2>5
  <2>8. F2 = Outer(F, b, e) \cup NF
    BY ZenonT(60) DEF O
  <2>9. p # -1 => NextOf(m2, p) = k
    BY ZenonT(60) DEF NextOf
  <2>10. b < e
    BY <1>2
  <2>11. NewFree(m, m2, F, F2, b, e, NF)
    BY ZenonT(60), <2>1, <2>2, <2>3, <2>6, <2>7 DEF NewFree
  <2>12. LeadsOn(m2, first, first2, p, F2)
    BY ZenonT(60), <1>14, <2>9 DEF LeadsOn
  <2> HIDE DEF F2
  <2> QED
    BY <1>2, <1>5, <2>8, <2>10, <2>11, <2>12, StillListed
<1>16. ASSUME NEW a \in A
       PROVE  /\ a.at \in Nat /\ a.at >= 3 /\ a.at - 3 \in Outer(S, b, e)
              /\ a.at - 3 < b \/ e <= a.at - 3
              /\ AllocatedBlock(m2, a)
  <2> DEFINE c == a.at - 3
  <2>1. a.at \in Nat /\ AllocatedBlock(m, a)
    BY ZenonT(60) DEF HeapHolds
  <2>2. a.at >= 3 /\ m[c] = MAGIC_ALLOC
    BY ZenonT(60), <1>1, <2>1 DEF AllocatedBlock, MagicOf
  <2>3. c \in S
    BY ZenonT(60), <1>1 DEF Blocks, Headers
  <2>4. m[b] = MAGIC_FREE
    BY ZenonT(60), <1>4 DEF Listed, FreeBlock, MagicOf
  <2>5. c # b
    BY <1>1, <2>2, <2>4
  <2>6. c \in Nat /\ (c < b \/ e <= c)
    <3>1. b < c => e <= c
      BY ZenonT(60), <1>2, <1>4, <2>3 DEF Tiled
    <3> QED
      BY <1>2, <2>1, <2>2, <2>5, <3>1
  <2>7. c \in Outer(S, b, e)
    BY ZenonT(60), <2>3, <2>6 DEF Outer
  <2>8. MagicOf(m2, c) = MagicOf(m, c) /\ EndOf(m2, c) = EndOf(m, c)
    BY <1>2, <1>5, <2>7, OuterBlocks
  <2>9. AllocatedBlock(m2, a)
    BY ZenonT(60), <1>1, <2>1, <2>8 DEF AllocatedBlock
  <2> QED
    BY ZenonT(60), <2>1, <2>2, <2>6, <2>7, <2>9
<1>17. AllocatedBlock(m2, new) /\ new \in [at : Nat, size : Nat \ {0}]
  <2>1. new.at = h + 3 /\ new.size = size /\ (h + 3) - 3 = h
    BY <1>1, <1>3
  <2>2. h + 3 < ARENA /\ h + 3 >= 3 /\ h + 3 + size <= f /\ f <= ARENA
    BY <1>1, <1>2, <1>3
  <2>3. MagicOf(m2, h) = MAGIC_ALLOC
    BY ZenonT(60) DEF MagicOf
  <2>4. AllocatedBlock(m2, new)
    <3> HIDE DEF new
    <3> QED
      BY <1>1, <1>7, <2>1, <2>2, <2>3 DEF AllocatedBlock
  <2>5. h + HEADER_SIZE \in Nat
    BY <1>1, <1>3
  <2> QED
    BY ZenonT(60), <2>4, <2>5
<1>18. \A a, c \in A2 : a.at = c.at => a = c
  <2>1. \A a \in A : a.at # h + HEADER_SIZE
    <3>1. b <= h /\ h < e
      BY <1>2, <1>3
    <3> SUFFICES ASSUME NEW a \in A, a.at = h + HEADER_SIZE PROVE FALSE
      BY ZenonT(60)
    <3>2. a.at \in Nat /\ (a.at - 3 < b \/ e <= a.at - 3)
      BY ZenonT(60), <1>16
    <3>3. a.at = h + 3
      BY ZenonT(60), <1>1
    <3> QED
      BY <1>2, <1>3, <3>1, <3>2, <3>3
  <2>2. \A a, c \in A : a.at = c.at => a = c
    BY ZenonT(60) DEF HeapHolds
  <2>3. new.at = h + HEADER_SIZE
    BY ZenonT(60)
  <2> HIDE DEF new
  <2> QED
    BY <2>1, <2>2, <2>3
<1>19. Tiled(m2, F2 \cup Headers(A2))
  <2>1. new.at - HEADER_SIZE = h
    BY <1>1
  <2>2. Headers(A2) = Headers(A) \cup {h}
    <3> HIDE DEF new
    <3> QED
      BY <2>1 DEF Headers
  <2>3. Outer(S, b, e) = O \cup Headers(A)
    <3>1. \A c \in Headers(A) : c < b \/ e <= c
      BY ZenonT(60), <1>1, <1>16 DEF Headers
    <3> QED
      BY ZenonT(60), <3>1 DEF O, Outer, Blocks
  <2>4. F2 \cup Headers(A2) = Outer(S, b, e) \cup N
    BY ZenonT(60), <2>2, <2>3
  <2> QED
    BY ZenonT(60), <1>9, <2>4
<1>20. F2 \subseteq Offset
  <2>1. \A x \in NF : x \in Offset
    <3>1. NF \subseteq b .. (e - 1)
      BY <1>2, <1>3, <1>6
    <3> QED
      BY <1>1, <1>2, <3>1
  <2> QED
    BY ZenonT(60), <1>4, <1>8, <2>1
<1>21. A2 \subseteq [at : Nat, size : Nat \ {0}]
  <2>1. A \subseteq [at : Nat, size : Nat \ {0}]
    BY ZenonT(60) DEF HeapHolds
  <2> HIDE DEF new
  <2> QED
    BY ZenonT(60), <1>17, <2>1
<1>22. \A a \in A2 : AllocatedBlock(m2, a)
  <2> HIDE DEF new
  <2> QED
    BY ZenonT(60), <1>16, <1>17
<1>23. HeapHolds(m2, first2, F2, A2)
  <2> HIDE DEF F2, A2
  <2> QED
    BY ZenonT(60), <1>15, <1>18, <1>19, <1>20, <1>21, <1>22 DEF HeapHolds
<1> QED
  BY ZenonT(60), <1>23 DEF O, NF

\* A header that is written leaves no empty one of an allocation: its size is
\* more than a header's, and neither a size nor a link looks like a magic.
LEMMA Written ==
    ASSUME NEW m \in [Offset -> Nat], NoEmptyHeader(m), NEW b \in Nat, b + 2 < ARENA,
           NEW magic \in {MAGIC_FREE, MAGIC_ALLOC}, NEW size \in Nat, size > 3, size <= ARENA,
           NEW n \in Nat, n # MAGIC_ALLOC,
           NEW w, w = WriteHeader(m, b, magic, size, n)
    PROVE  /\ w \in [Offset -> Nat] /\ NoEmptyHeader(w)
           /\ w[b] = magic /\ w[b + 1] = size /\ w[b + 2] = n
           /\ \A word \in Offset : word < b \/ b + 3 <= word => w[word] = m[word]
<1>1. {b, b + 1, b + 2} \subseteq Offset /\ magic \in Nat /\ magic > 3
  BY Constants
<1>2. w \in [Offset -> Nat] /\ w[b] = magic /\ w[b + 1] = size /\ w[b + 2] = n
  BY <1>1 DEF WriteHeader
<1>3. \A word \in Offset : word # b /\ word # b + 1 /\ word # b + 2 => w[word] = m[word]
  BY ZenonT(60), <1>1 DEF WriteHeader
<1>4. \A word \in Offset : word < b \/ b + 3 <= word => w[word] = m[word]
  BY <1>3, Constants
<1>5. ASSUME NEW word \in Offset, w[word] = MAGIC_ALLOC, word + 1 \in Offset
      PROVE  w[word + 1] = 0 \/ w[word + 1] > HEADER_SIZE
  <2>0. word \in Int
    BY Constants
  <2>1. CASE word = b
    BY ZenonT(60), <2>1, <1>2, Constants
  <2>2. word # b + 1
    BY <1>5, <1>2, Constants
  <2>3. word # b + 2
    BY ZenonT(60), <1>5, <1>2
  <2>4. CASE word + 1 = b
    BY ZenonT(60), <2>4, <1>1, <1>2, Constants
  <2>5. CASE word # b /\ word + 1 # b
    <3>1. word + 1 # b /\ word + 1 # b + 1 /\ word + 1 # b + 2
      BY <2>0, <2>2, <2>5
    <3>2. w[word] = m[word] /\ w[word + 1] = m[word + 1]
      BY ZenonT(60), <3>1, <2>2, <2>3, <2>5, <1>3, <1>5
    <3> QED
      BY ZenonT(60), <3>2, <1>5 DEF NoEmptyHeader
  <2> QED
    BY ZenonT(60), <2>1, <2>4, <2>5
<1> QED
  BY ZenonT(60), <1>2, <1>4, <1>5 DEF NoEmptyHeader

\* So does a link that is written after a size.
LEMMA Linked ==
    ASSUME NEW m \in [Offset -> Nat], NoEmptyHeader(m), NEW q \in Offset, q - 1 \in Offset,
           m[q - 1] # MAGIC_ALLOC, NEW n \in Nat, n # MAGIC_ALLOC,
           NEW w, w = [m EXCEPT ![q] = n]
    PROVE  /\ w \in [Offset -> Nat] /\ NoEmptyHeader(w) /\ w[q] = n
           /\ \A word \in Offset : word # q => w[word] = m[word]
<1>1. w \in [Offset -> Nat] /\ w[q] = n /\ \A word \in Offset : word # q => w[word] = m[word]
  BY ZenonT(60)
<1>2. ASSUME NEW word \in Offset, w[word] = MAGIC_ALLOC, word + 1 \in Offset
      PROVE  w[word + 1] = 0 \/ w[word + 1] > HEADER_SIZE
  <2>1. word # q /\ word \in Int /\ q \in Int
    BY <1>1, <1>2, Constants
  <2>2. word + 1 # q
    BY <1>1, <1>2, <2>1
  <2> QED
    BY ZenonT(60), <1>1, <1>2, <2>1, <2>2 DEF NoEmptyHeader
<1> QED
  BY ZenonT(60), <1>1, <1>2 DEF NoEmptyHeader

\* So does a payload that is cleared.
LEMMA Cleared ==
    ASSUME NEW m \in [Offset -> Nat], NoEmptyHeader(m), NEW T,
           NEW w, w = [word \in Offset |-> IF word \in T THEN 0 ELSE m[word]]
    PROVE  /\ w \in [Offset -> Nat] /\ NoEmptyHeader(w)
           /\ \A word \in Offset : word \notin T => w[word] = m[word]
<1>1. w \in [Offset -> Nat] /\ \A word \in Offset : w[word] = 0 \/ w[word] = m[word]
  BY ZenonT(60)
<1>2. MAGIC_ALLOC # 0
  BY Constants
<1> QED
  BY ZenonT(60), <1>1, <1>2 DEF NoEmptyHeader

\* The writes of alloc, one after the other.
AllocLinked(m, b, e, p, n, h, t, f, after, k) ==
    LET w1 == WriteHeader(m, h, MAGIC_ALLOC, f - h, NONE)
        w2 == IF e - t >= MIN_BLOCK THEN WriteHeader(w1, t, MAGIC_FREE, e - t, n) ELSE w1
        w3 == IF h # b THEN WriteHeader(w2, b, MAGIC_FREE, h - b, after) ELSE w2
    IN  IF p = -1 THEN w3 ELSE [w3 EXCEPT ![p + 2] = k]

AllocWriting(m, b, e, p, n, h, t, f, after, k, m2) ==
    \E T : /\ T \cap Offset \subseteq (h + HEADER_SIZE) .. (t - 1)
           /\ m2 = [word \in Offset |->
                       IF word \in T THEN 0 ELSE AllocLinked(m, b, e, p, n, h, t, f, after, k)[word]]

\* They leave the heap as it should be.
LEMMA AllocWrites ==
    ASSUME NEW m, NEW first, NEW F, NEW A, HeapHolds(m, first, F, A),
           NEW b, NEW e, NEW p, NEW n, NEW size, NEW h, NEW t, NEW f, NEW after, NEW k, NEW first2,
           AllocPlan(m, first, F, b, e, p, n, size, h, t, f, after, k, first2),
           NEW m2, AllocWriting(m, b, e, p, n, h, t, f, after, k, m2)
    PROVE  HeapHolds(m2, first2, Outer(F, b, e) \cup Remains(b, h, t, e),
                     A \cup {[at |-> h + HEADER_SIZE, size |-> size]})
<1>p. /\ b \in F /\ e = EndOf(m, b) /\ IsBefore(F, p, b) /\ n = NextOf(m, b)
      /\ size \in Nat \ {0} /\ h \in Nat /\ (h = b \/ h >= b + MIN_BLOCK)
      /\ t = h + HEADER_SIZE + size /\ t <= e /\ f = AllocEnd(t, e)
      /\ after = (IF e - t >= MIN_BLOCK THEN t ELSE n)
      /\ k = (IF h # b THEN b ELSE after)
      /\ first2 = (IF p = -1 THEN k ELSE first)
  BY ZenonT(60) DEF AllocPlan
<1> USE <1>p
<1>1. /\ HEADER_SIZE = 3 /\ MIN_BLOCK = 5 /\ ARENA \in Nat /\ Offset = 0 .. (ARENA - 1)
      /\ MAGIC_FREE = ARENA + 1 /\ MAGIC_ALLOC = ARENA + 2 /\ NONE = ARENA + 3
  BY ZenonT(60), Constants
<1>2. b \in Nat /\ e \in Nat /\ b + 3 < e /\ e <= ARENA
  <2>1. b \in Blocks(F, A)
    BY ZenonT(60) DEF Blocks
  <2> QED
    BY ZenonT(60), <2>1, BlockFacts
<1>3. /\ h \in Nat /\ t \in Nat /\ size \in Nat /\ size # 0 /\ t = h + 3 + size /\ t <= e
      /\ h = b \/ h >= b + 5
      /\ f = IF e - t >= 5 THEN t ELSE e
      /\ f \in Nat /\ t <= f /\ f <= e
  <2>1. /\ t = h + 3 + size /\ t \in Nat /\ t <= e /\ h \in Nat /\ size \in Nat /\ size # 0
        /\ h = b \/ h >= b + 5
    BY <1>1
  <2>2. f = IF e - t >= 5 THEN t ELSE e
    BY ZenonT(60), <1>1 DEF AllocEnd
  <2> QED
    BY <1>2, <2>1, <2>2
<1>4. m \in [Offset -> Nat] /\ NoEmptyHeader(m) /\ F \subseteq Offset /\ Listed(m, first, F)
  BY ZenonT(60) DEF HeapHolds
<1>5. n \in Nat /\ n # MAGIC_ALLOC
  <2>1. IsNext(F, b, n)
    BY ZenonT(60), <1>4 DEF Listed
  <2>2. \A c \in F : c \in Nat /\ c < ARENA
    BY <1>1, <1>4
  <2>3. n = NONE \/ n \in F
    BY ZenonT(60), <2>1 DEF IsNext
  <2> QED
    BY <2>2, <2>3, <1>1
<1>6. /\ after \in Nat /\ after # MAGIC_ALLOC /\ k \in Nat /\ k # MAGIC_ALLOC
  BY <1>1, <1>2, <1>3, <1>5
<1>w1. PICK w1 : w1 = WriteHeader(m, h, MAGIC_ALLOC, f - h, NONE)
  BY ZenonT(60)
<1>w2. PICK w2 : w2 = IF e - t >= MIN_BLOCK THEN WriteHeader(w1, t, MAGIC_FREE, e - t, n) ELSE w1
  BY ZenonT(60)
<1>w3. PICK w3 : w3 = IF h # b THEN WriteHeader(w2, b, MAGIC_FREE, h - b, after) ELSE w2
  BY ZenonT(60)
<1>w4. PICK w4 : w4 = IF p = -1 THEN w3 ELSE [w3 EXCEPT ![p + 2] = k]
  BY ZenonT(60)
<1>w5. PICK T : /\ T \cap Offset \subseteq (h + HEADER_SIZE) .. (t - 1)
                /\ m2 = [word \in Offset |-> IF word \in T THEN 0 ELSE w4[word]]
  <2>1. w4 = AllocLinked(m, b, e, p, n, h, t, f, after, k)
    BY ZenonT(60), <1>w1, <1>w2, <1>w3, <1>w4 DEF AllocLinked
  <2> QED
    BY <2>1 DEF AllocWriting
<1>7. /\ w1 \in [Offset -> Nat] /\ NoEmptyHeader(w1)
      /\ w1[h] = MAGIC_ALLOC /\ w1[h + 1] = f - h
      /\ \A word \in Offset : word < h \/ h + 3 <= word => w1[word] = m[word]
  <2>1. f - h \in Nat /\ f - h > 3 /\ f - h <= ARENA /\ h + 2 < ARENA
    BY <1>1, <1>2, <1>3
  <2>2. NONE \in Nat /\ NONE # MAGIC_ALLOC
    BY <1>1
  <2> QED
    BY <2>1, <2>2, <1>w1, <1>w2, <1>w3, <1>w4, <1>w5, <1>3, <1>4, Written
<1>8. /\ w2 \in [Offset -> Nat] /\ NoEmptyHeader(w2)
      /\ w2[h] = MAGIC_ALLOC /\ w2[h + 1] = f - h
      /\ e - t >= 5 => w2[t] = MAGIC_FREE /\ w2[t + 1] = e - t /\ w2[t + 2] = n
      /\ \A word \in Offset : word < h \/ e <= word => w2[word] = m[word]
  <2>1. CASE e - t >= 5
    <3>1. w2 = WriteHeader(w1, t, MAGIC_FREE, e - t, n)
      BY ZenonT(60), <1>1, <1>w1, <1>w2, <1>w3, <1>w4, <1>w5, <2>1
    <3>2. e - t \in Nat /\ e - t > 3 /\ e - t <= ARENA /\ t + 2 < ARENA
      BY <1>1, <1>2, <1>3, <2>1
    <3>3. /\ w2 \in [Offset -> Nat] /\ NoEmptyHeader(w2)
          /\ w2[t] = MAGIC_FREE /\ w2[t + 1] = e - t /\ w2[t + 2] = n
          /\ \A word \in Offset : word < t \/ t + 3 <= word => w2[word] = w1[word]
      BY <3>1, <3>2, <1>3, <1>5, <1>7, Written
    <3>4. h \in Offset /\ h + 1 \in Offset /\ h < t /\ h + 1 < t
      BY <1>1, <1>2, <1>3
    <3>5. ASSUME NEW word \in Offset, word < h \/ e <= word
          PROVE  w2[word] = m[word]
      <4>1. (word < t \/ t + 3 <= word) /\ (word < h \/ h + 3 <= word)
        BY <1>1, <1>2, <1>3, <2>1, <3>5
      <4> QED
        BY ZenonT(60), <4>1, <1>7, <3>3
    <3> QED
      BY ZenonT(60), <3>3, <3>4, <3>5, <1>7
  <2>2. CASE ~ (e - t >= 5)
    <3>1. w2 = w1
      BY ZenonT(60), <1>1, <1>w1, <1>w2, <1>w3, <1>w4, <1>w5, <2>2
    <3>2. \A word \in Offset : word < h \/ e <= word => w1[word] = m[word]
      BY <1>1, <1>2, <1>3, <1>7
    <3> QED
      BY ZenonT(60), <3>1, <3>2, <2>2, <1>7
  <2> QED
    BY ZenonT(60), <2>1, <2>2
<1>9. /\ w3 \in [Offset -> Nat] /\ NoEmptyHeader(w3)
      /\ w3[h] = MAGIC_ALLOC /\ w3[h + 1] = f - h
      /\ e - t >= 5 => w3[t] = MAGIC_FREE /\ w3[t + 1] = e - t /\ w3[t + 2] = n
      /\ h # b => w3[b] = MAGIC_FREE /\ w3[b + 1] = h - b /\ w3[b + 2] = after
      /\ \A word \in Offset : word < b \/ e <= word => w3[word] = m[word]
  <2>1. CASE h # b
    <3>1. w3 = WriteHeader(w2, b, MAGIC_FREE, h - b, after)
      BY ZenonT(60), <1>w1, <1>w2, <1>w3, <1>w4, <1>w5, <2>1
    <3>2. h - b \in Nat /\ h - b > 3 /\ h - b <= ARENA /\ b + 2 < ARENA /\ b + 5 <= h
      BY <1>1, <1>2, <1>3, <2>1
    <3>3. /\ w3 \in [Offset -> Nat] /\ NoEmptyHeader(w3)
          /\ w3[b] = MAGIC_FREE /\ w3[b + 1] = h - b /\ w3[b + 2] = after
          /\ \A word \in Offset : word < b \/ b + 3 <= word => w3[word] = w2[word]
      <4>1. w2 \in [Offset -> Nat] /\ NoEmptyHeader(w2)
        BY ZenonT(60), <1>8
      <4> QED
        BY <4>1, <3>1, <3>2, <1>2, <1>6, Written
    <3>4. h \in Offset /\ h + 1 \in Offset /\ b + 3 <= h /\ b + 3 <= h + 1
      BY <1>1, <1>2, <1>3, <3>2
    <3>5. e - t >= 5 => {t, t + 1, t + 2} \subseteq Offset /\ b + 3 <= t /\ b + 3 <= t + 1 /\ b + 3 <= t + 2
      BY <1>1, <1>2, <1>3, <3>2
    <3>6. e - t >= 5 => w3[t] = MAGIC_FREE /\ w3[t + 1] = e - t /\ w3[t + 2] = n
      BY ZenonT(60), <3>3, <3>5, <1>8
    <3>7. ASSUME NEW word \in Offset, word < b \/ e <= word
          PROVE  w3[word] = m[word]
      <4>1. (word < b \/ b + 3 <= word) /\ (word < h \/ e <= word)
        BY <1>1, <1>2, <1>3, <3>2, <3>7
      <4> QED
        BY ZenonT(60), <4>1, <1>8, <3>3
    <3> QED
      BY ZenonT(60), <3>3, <3>4, <3>6, <3>7, <1>8
  <2>2. CASE h = b
    <3>1. w3 = w2
      BY ZenonT(60), <1>w1, <1>w2, <1>w3, <1>w4, <1>w5, <2>2
    <3> QED
      BY ZenonT(60), <3>1, <2>2, <1>8
  <2> QED
    BY ZenonT(60), <2>1, <2>2
<1>10. p # -1 => /\ p \in F /\ p \in Nat /\ p + 3 < b
                 /\ p + 2 \in Offset /\ (p + 2) - 1 \in Offset /\ m[(p + 2) - 1] # MAGIC_ALLOC
  <2> SUFFICES ASSUME p # -1
               PROVE  /\ p \in F /\ p \in Nat /\ p + 3 < b
                      /\ p + 2 \in Offset /\ (p + 2) - 1 \in Offset /\ m[(p + 2) - 1] # MAGIC_ALLOC
    BY ZenonT(60)
  <2>1. p \in F /\ p < b
    BY ZenonT(60) DEF IsBefore
  <2>2. p \in Blocks(F, A)
    BY ZenonT(60), <2>1 DEF Blocks
  <2>3. /\ p \in Nat /\ SizeOf(m, p) \in Nat /\ EndOf(m, p) \in Nat
        /\ p + 3 < EndOf(m, p) /\ EndOf(m, p) <= ARENA
    BY ZenonT(60), <2>2, BlockFacts
  <2>4. EndOf(m, p) < b
    BY ZenonT(60), <1>4, <2>1 DEF Listed
  <2>5. m[p + 1] # MAGIC_ALLOC
    BY <2>3, <1>1 DEF EndOf, SizeOf
  <2>6. (p + 2) - 1 = p + 1
    BY <2>3
  <2> QED
    BY <2>1, <2>3, <2>4, <2>5, <2>6, <1>1, <1>2

<1>11. /\ w4 \in [Offset -> Nat] /\ NoEmptyHeader(w4)
       /\ p # -1 => w4[p + 2] = k
       /\ \A word \in Offset : p = -1 \/ word # p + 2 => w4[word] = w3[word]
  <2>1. CASE p = -1
    <3>1. w4 = w3
      BY ZenonT(60), <1>w1, <1>w2, <1>w3, <1>w4, <1>w5, <2>1
    <3> QED
      BY ZenonT(60), <3>1, <2>1, <1>9
  <2>2. CASE p # -1
    <3>1. w4 = [w3 EXCEPT ![p + 2] = k]
      BY ZenonT(60), <1>w1, <1>w2, <1>w3, <1>w4, <1>w5, <2>2
    <3>2. w3[(p + 2) - 1] # MAGIC_ALLOC
      <4>1. (p + 2) - 1 < b
        BY <2>2, <1>2, <1>10
      <4> QED
        BY ZenonT(60), <4>1, <2>2, <1>9, <1>10
    <3> QED
      BY ZenonT(60), <3>1, <3>2, <2>2, <1>6, <1>9, <1>10, Linked
  <2> QED
    BY ZenonT(60), <2>1, <2>2
<1>12. /\ m2 \in [Offset -> Nat] /\ NoEmptyHeader(m2)
       /\ \A word \in Offset : word \notin T => m2[word] = w4[word]
  <2>1. w4 \in [Offset -> Nat] /\ NoEmptyHeader(w4)
    BY ZenonT(60), <1>11
  <2>2. m2 = [word \in Offset |-> IF word \in T THEN 0 ELSE w4[word]]
    BY ZenonT(60), <1>w5
  <2> QED
    BY ZenonT(60), <2>1, <2>2, Cleared
<1>13. \A word \in Offset : (p = -1 \/ word # p + 2) /\ (word < h + 3 \/ t <= word) => m2[word] = w3[word]
  <2> SUFFICES ASSUME NEW word \in Offset, p = -1 \/ word # p + 2, word < h + 3 \/ t <= word
               PROVE  m2[word] = w3[word]
    BY ZenonT(60)
  <2>1. word \notin (h + HEADER_SIZE) .. (t - 1)
    BY <1>1, <1>3
  <2>2. word \notin T
    BY ZenonT(60), <2>1, <1>w5
  <2> QED
    BY ZenonT(60), <2>2, <1>11, <1>12
<1>14. \A word \in Offset : b <= word /\ (word < h + 3 \/ t <= word) => m2[word] = w3[word]
  <2> SUFFICES ASSUME NEW word \in Offset, b <= word, word < h + 3 \/ t <= word
               PROVE  m2[word] = w3[word]
    BY ZenonT(60)
  <2>1. p = -1 \/ word # p + 2
    <3>1. CASE p # -1
      <4>1. p \in Nat /\ p + 3 < b /\ word \in Nat
        BY <3>1, <1>1, <1>10
      <4> QED
        BY <4>1, <1>2
    <3> QED
      BY ZenonT(60), <3>1
  <2> QED
    BY ZenonT(60), <2>1, <1>13
<1>15. Elsewhere(m, m2, b, e, p)
  <2> SUFFICES ASSUME NEW word \in Offset, word < b \/ e <= word, p = -1 \/ word # p + 2
               PROVE  m2[word] = m[word]
    BY ZenonT(60) DEF Elsewhere
  <2>1. word < h + 3 \/ t <= word
    BY <1>1, <1>2, <1>3
  <2> QED
    BY ZenonT(60), <2>1, <1>9, <1>13
<1>16. m2[h] = MAGIC_ALLOC /\ m2[h + 1] = f - h
  <2>1. h \in Offset /\ h + 1 \in Offset /\ b <= h /\ b <= h + 1 /\ h < h + 3 /\ h + 1 < h + 3
    BY <1>1, <1>2, <1>3
  <2> QED
    BY ZenonT(60), <2>1, <1>9, <1>14
<1>17. h # b => m2[b] = MAGIC_FREE /\ m2[b + 1] = h - b /\ m2[b + 2] = after
  <2>1. /\ {b, b + 1, b + 2} \subseteq Offset /\ b <= b + 1 /\ b <= b + 2 /\ b <= b
        /\ b < h + 3 /\ b + 1 < h + 3 /\ b + 2 < h + 3
    BY <1>1, <1>2, <1>3
  <2> QED
    BY ZenonT(60), <2>1, <1>9, <1>14
<1>18. e - t >= MIN_BLOCK => m2[t] = MAGIC_FREE /\ m2[t + 1] = e - t /\ m2[t + 2] = n
  <2>1. e - t >= 5 => /\ {t, t + 1, t + 2} \subseteq Offset /\ b <= t /\ b <= t + 1 /\ b <= t + 2
                      /\ t <= t /\ t <= t + 1 /\ t <= t + 2
    BY <1>1, <1>2, <1>3
  <2> QED
    BY ZenonT(60), <2>1, <1>1, <1>9, <1>14
<1>19. p # -1 => m2[p + 2] = k
  <2> SUFFICES ASSUME p # -1
               PROVE  m2[p + 2] = k
    BY ZenonT(60)
  <2>1. p + 2 \notin (h + HEADER_SIZE) .. (t - 1)
    <3>1. p \in Nat /\ p + 2 < h + 3
      BY <1>2, <1>3, <1>10
    <3> QED
      BY <3>1, <1>1, <1>3
  <2> QED
    BY ZenonT(60), <2>1, <1>w5, <1>10, <1>11, <1>12
<1> QED
  <2>1. AllocWritten(m, b, e, p, n, h, t, f, after, k, m2)
    BY ZenonT(60), <1>12, <1>15, <1>16, <1>17, <1>18, <1>19 DEF AllocWritten
  <2> QED
    BY ZenonT(60), <2>1, AllocHolds

-----------------------------------------------------------------------------
(* Where an allocation goes *)

\* A product grows with its factors.
LEMMA Monotone ==
    ASSUME NEW a \in Nat, NEW b \in Nat, NEW c \in Nat, a <= b
    PROVE  a * c <= b * c /\ a * c \in Nat /\ b * c \in Nat
<1>1. PICK k \in Nat : b = a + k
  BY b - a \in Nat
<1>2. (a + k) * c = a * c + k * c /\ k * c \in Nat /\ a * c \in Nat
  OBVIOUS
<1> QED
  BY <1>1, <1>2

\* A number is its quotient times the divisor, and the remainder.
LEMMA Division ==
    ASSUME NEW d \in Nat \ {0}, NEW n \in Nat
    PROVE  n \div d \in Nat /\ n % d \in Nat /\ n % d < d /\ n = (n \div d) * d + (n % d)
  OBVIOUS

Multiple(n, a) == n % a = 0

\* align_up gives the least multiple that is not below the value.
LEMMA LeastMultiple ==
    ASSUME NEW v \in Nat, NEW a \in Nat \ {0}
    PROVE  /\ AlignUp(v, a) \in Nat /\ v <= AlignUp(v, a)
           /\ \A w \in Nat : v <= w /\ Multiple(w, a) => AlignUp(v, a) <= w
<1>1. PICK n \in Nat : n = v + a - 1
  OBVIOUS
<1>2. PICK q \in Nat, r \in Nat : q = n \div a /\ r < a /\ n = q * a + r
  BY Division
<1>3. AlignUp(v, a) = q * a /\ q * a \in Nat
  BY <1>1, <1>2, Monotone DEF AlignUp
<1>4. v <= q * a
  <2>1. PICK s \in Nat : s = q * a
    BY ZenonT(60), <1>3
  <2> QED
    BY <2>1, <1>1, <1>2
<1>5. ASSUME NEW w \in Nat, v <= w, Multiple(w, a)
      PROVE  q * a <= w
  <2>1. PICK x \in Nat : w = x * a + 0
    BY ZenonT(60), <1>5, Division DEF Multiple
  <2>2. x * a \in Nat /\ w = x * a
    BY <2>1, Monotone
  <2>3. CASE q <= x
    BY ZenonT(60), <2>2, <2>3, Monotone
  <2>4. CASE x + 1 <= q
    <3>1. (x + 1) * a <= q * a
      BY <2>4, Monotone
    <3>2. (x + 1) * a = x * a + a
      OBVIOUS
    <3>3. PICK s \in Nat, y \in Nat : s = q * a /\ y = x * a
      BY ZenonT(60), <1>3, <2>2
    <3>4. y + a <= s /\ n = s + r /\ w = y /\ v <= y /\ n = v + a - 1
      BY ZenonT(60), <3>1, <3>2, <3>3, <1>1, <1>2, <1>5, <2>2
    <3> QED
      BY <3>4
  <2> QED
    BY <2>3, <2>4
<1> QED
  BY ZenonT(60), <1>3, <1>4, <1>5

\* The payload of an allocation leaves no gap before its header or one that can be
\* a block, and is the first that does.
LEMMA PayloadPlace ==
    ASSUME NEW b \in Nat, NEW align \in Nat \ {0}
    PROVE  /\ Payload(b, align) \in Nat
           /\ Payload(b, align) = b + 3 \/ Payload(b, align) >= b + 8
           /\ \A w \in Nat : Multiple(w, align) /\ (w = b + 3 \/ w >= b + 8) => Payload(b, align) <= w
<1>1. PICK q \in Nat : q = AlignUp(b + 3, align)
  BY LeastMultiple
<1>2. PICK r \in Nat : r = AlignUp(b + 8, align)
  BY LeastMultiple
<1>3. b + 3 <= q /\ \A w \in Nat : b + 3 <= w /\ Multiple(w, align) => q <= w
  BY b + 3 \in Nat, <1>1, LeastMultiple
<1>4. b + 8 <= r /\ \A w \in Nat : b + 8 <= w /\ Multiple(w, align) => r <= w
  BY b + 8 \in Nat, <1>2, LeastMultiple
<1>5. Payload(b, align) = IF q = b + 3 \/ q >= b + 8 THEN q ELSE r
  <2>1. Payload(b, align) = IF q = b + 3 \/ q - (b + 3) >= 5 THEN q ELSE AlignUp(b + 3 + 5, align)
    BY ZenonT(60), <1>1, Constants DEF Payload
  <2>2. b + 3 + 5 = b + 8
    OBVIOUS
  <2> QED
    BY <1>2, <2>1, <2>2
<1>6. CASE q = b + 3 \/ q >= b + 8
  BY <1>3, <1>5, <1>6
<1>7. CASE ~ (q = b + 3 \/ q >= b + 8)
  <2>1. Payload(b, align) = r
    BY ZenonT(60), <1>5, <1>7
  <2>2. ASSUME NEW w \in Nat, Multiple(w, align), w = b + 3 \/ w >= b + 8
        PROVE  r <= w
    <3>1. q <= w
      BY <1>3, <2>2
    <3>2. w # b + 3
      BY <3>1, <1>3, <1>7
    <3> QED
      BY ZenonT(60), <3>2, <2>2, <1>4
  <2> QED
    BY ZenonT(60), <2>1, <2>2, <1>4
<1> QED
  BY ZenonT(60), <1>6, <1>7

\* What a walk through the blocks of F has met: a run of them from the first on,
\* in address order, without a gap.
Met(w, m, first, F) ==
    /\ w \in Seq(F)
    /\ \A i \in 1 .. Len(w) : i - 1 <= w[i]
    /\ \A i, j \in 1 .. Len(w) : i < j => w[i] < w[j]
    /\ \A i \in 1 .. Len(w) : i < Len(w) => NextOf(m, w[i]) = w[i + 1]
    /\ Len(w) # 0 => first = w[1]
    /\ Len(w) # 0 => \A c \in F : c <= w[Len(w)] => \E i \in 1 .. Len(w) : c = w[i]

\* The blocks of F in the order of the list.
ListOf(L, m, first, F) ==
    /\ Met(L, m, first, F)
    /\ \A c \in F : \E i \in 1 .. Len(L) : c = L[i]
    /\ Len(L) = 0 => first = NONE
    /\ Len(L) # 0 => NextOf(m, L[Len(L)]) = NONE

\* The free block before the one at index k of the list.
LEMMA BeforeIndex ==
    ASSUME NEW m, NEW first, NEW F \in SUBSET Offset, NEW list, ListOf(list, m, first, F),
           NEW k \in 1 .. Len(list), NEW p, p = IF k = 1 THEN -1 ELSE list[k - 1]
    PROVE  list[k] \in F /\ IsBefore(F, p, list[k])
<1>1. /\ list \in Seq(F) /\ Len(list) \in Nat
      /\ \A i, j \in 1 .. Len(list) : i < j => list[i] < list[j]
      /\ \A c \in F : \E i \in 1 .. Len(list) : c = list[i]
  BY DEF ListOf, Met
<1>2. \A i \in 1 .. Len(list) : list[i] \in F /\ list[i] \in Nat
  <2>1. \A i \in 1 .. Len(list) : list[i] \in F
    BY <1>1
  <2>2. \A c \in F : c \in Nat
    BY Constants
  <2> QED
    BY ZenonT(60), <2>1, <2>2
<1>3. CASE k = 1
  <2>1. p = -1 /\ list[k] \in Nat
    BY ZenonT(60), <1>2, <1>3
  <2>2. \A c \in F : ~ (c < list[k])
    <3> SUFFICES ASSUME NEW c \in F, c < list[k]
                 PROVE  FALSE
      BY ZenonT(60)
    <3>1. PICK i \in 1 .. Len(list) : c = list[i]
      BY ZenonT(60), <1>1
    <3>2. i = k \/ k < i
      BY <1>3
    <3>3. list[k] \in Nat /\ c \in Nat /\ (k < i => list[k] < c)
      BY ZenonT(60), <3>1, <1>1, <1>2
    <3> QED
      BY <3>1, <3>2, <3>3
  <2> QED
    BY <2>1, <2>2, <1>2 DEF IsBefore
<1>4. CASE k # 1
  <2>1. k - 1 \in 1 .. Len(list) /\ k - 1 < k
    BY <1>1, <1>4
  <2>2. p = list[k - 1] /\ p \in F /\ p \in Nat /\ p < list[k]
    BY ZenonT(60), <2>1, <1>1, <1>2, <1>4
  <2>3. \A c \in F : c < list[k] => c <= p
    <3> SUFFICES ASSUME NEW c \in F, c < list[k]
                 PROVE  c <= p
      BY ZenonT(60)
    <3>1. PICK i \in 1 .. Len(list) : c = list[i]
      BY ZenonT(60), <1>1
    <3>2. i = k \/ k < i \/ i = k - 1 \/ i < k - 1
      BY <1>1
    <3>3. CASE i = k \/ k < i
      <4>1. list[k] \in Nat /\ c \in Nat /\ (k < i => list[k] < c)
        BY ZenonT(60), <3>1, <1>1, <1>2
      <4> QED
        BY <3>1, <3>3, <4>1
    <3>4. CASE i = k - 1
      BY <3>1, <3>4, <2>2
    <3>5. CASE i < k - 1
      BY <3>1, <3>5, <2>1, <2>2, <1>1, <1>2
    <3> QED
      BY ZenonT(60), <3>2, <3>3, <3>4, <3>5
  <2> QED
    BY ZenonT(60), <2>2, <2>3, <1>2 DEF IsBefore
<1> QED
  BY ZenonT(60), <1>3, <1>4

-----------------------------------------------------------------------------
(* alloc keeps the invariant *)

\* At first the arena is one free block.
LEMMA HeapInvInit ==
    Init => HeapInv
<1> SUFFICES ASSUME Init
             PROVE  HeapHolds(mem, head, {0}, live)
  <2>1. 0 \in Offset
    BY Constants
  <2> QED
    BY ZenonT(60), <2>1 DEF HeapInv
<1>1. /\ HEADER_SIZE = 3 /\ MIN_BLOCK = 5 /\ ARENA \in Nat /\ ARENA >= 5 /\ Offset = 0 .. (ARENA - 1)
      /\ MAGIC_FREE = ARENA + 1 /\ MAGIC_ALLOC = ARENA + 2 /\ NONE = ARENA + 3
  BY ZenonT(60), Constants
<1>2. PICK m \in [Offset -> Nat] : m = [word \in Offset |-> 0]
  BY ZenonT(60)
<1>3. NoEmptyHeader(m)
  BY ZenonT(60), <1>1, <1>2 DEF NoEmptyHeader
<1>4. mem = WriteHeader(m, 0, MAGIC_FREE, ARENA, NONE) /\ head = 0 /\ live = {}
  BY ZenonT(60), <1>2 DEF Init
<1>5. /\ mem \in [Offset -> Nat] /\ NoEmptyHeader(mem)
      /\ mem[0] = MAGIC_FREE /\ mem[0 + 1] = ARENA /\ mem[0 + 2] = NONE
  <2>1. /\ 0 \in Nat /\ 0 + 2 < ARENA /\ ARENA \in Nat /\ ARENA > 3 /\ ARENA <= ARENA
        /\ NONE \in Nat /\ NONE # MAGIC_ALLOC /\ MAGIC_FREE \in {MAGIC_FREE, MAGIC_ALLOC}
    BY <1>1
  <2> QED
    BY <2>1, <1>2, <1>3, <1>4, Written
<1>6. EndOf(mem, 0) = ARENA /\ SizeOf(mem, 0) = ARENA /\ NextOf(mem, 0) = NONE /\ MagicOf(mem, 0) = MAGIC_FREE
  BY <1>1, <1>5 DEF EndOf, SizeOf, NextOf, MagicOf
<1>7. Listed(mem, head, {0})
  BY <1>1, <1>4, <1>6 DEF Listed, IsNext, FreeBlock
<1>8. Tiled(mem, {0} \cup Headers(live))
  BY <1>1, <1>4, <1>6 DEF Tiled, Headers
<1> QED
  BY <1>1, <1>4, <1>5, <1>7, <1>8 DEF HeapHolds

\* An allocation that finds a place keeps the invariant and is a new one.
LEMMA AllocFromKeeps ==
    ASSUME NEW F \in SUBSET Offset, HeapHolds(mem, head, F, live),
           NEW list, ListOf(list, mem, head, F),
           NEW size \in Nat \ {0}, NEW align \in Nat \ {0}, NEW clear \in BOOLEAN,
           NEW k \in 1 .. Len(list), Fits(mem, list[k], size, align),
           AllocFrom(list, k, size, align, clear)
    PROVE  HeapInv' /\ live' # live
<1>1. /\ HEADER_SIZE = 3 /\ MIN_BLOCK = 5 /\ ARENA \in Nat /\ Offset = 0 .. (ARENA - 1)
      /\ MAGIC_FREE = ARENA + 1 /\ MAGIC_ALLOC = ARENA + 2 /\ NONE = ARENA + 3
  BY ZenonT(60), Constants
<1>2. PICK b, p : b = list[k] /\ p = IF k = 1 THEN -1 ELSE list[k - 1]
  BY ZenonT(60)
<1>3. b \in F /\ IsBefore(F, p, b)
  BY ZenonT(60), <1>2, BeforeIndex
<1>4. k = 1 <=> p = -1
  <2>1. list \in Seq(F) /\ F \subseteq Nat
    BY <1>1 DEF ListOf, Met
  <2>2. k # 1 => list[k - 1] \in Nat
    <3>1. k # 1 => k - 1 \in 1 .. Len(list)
      BY <2>1
    <3>2. k # 1 => list[k - 1] \in F
      BY <2>1, <3>1
    <3> QED
      BY ZenonT(60), <2>1, <3>2
  <2> QED
    BY <1>2, <2>2
<1>5. PICK e, n : e = EndOf(mem, b) /\ n = NextOf(mem, b)
  BY ZenonT(60)
<1>6. b \in Blocks(F, live) /\ b \in Nat /\ e \in Nat /\ b + 3 < e /\ e <= ARENA
  <2>1. b \in Blocks(F, live)
    BY ZenonT(60), <1>3 DEF Blocks
  <2> QED
    BY ZenonT(60), <2>1, <1>5, BlockFacts
<1>7. PICK y \in Nat : y = Payload(b, align) /\ (y = b + 3 \/ y >= b + 8)
  BY ZenonT(60), <1>6, PayloadPlace
<1>8. PICK h \in Nat : h = y - HEADER_SIZE /\ y = h + HEADER_SIZE /\ (h = b \/ h >= b + MIN_BLOCK)
  <2>1. y - 3 \in Nat /\ y = (y - 3) + 3 /\ (y - 3 = b \/ y - 3 >= b + 5)
    BY <1>6, <1>7
  <2> QED
    BY ZenonT(60), <2>1, <1>1
<1>9. PICK t \in Nat : t = y + size /\ t = h + HEADER_SIZE + size /\ t <= e
  <2>1. y + size <= e
    BY ZenonT(60), <1>2, <1>5, <1>7 DEF Fits
  <2> QED
    BY <2>1, <1>8
<1>10. PICK f, after : f = AllocEnd(t, e) /\ after = IF e - t >= MIN_BLOCK THEN t ELSE n
  BY ZenonT(60)
<1>11. PICK l, first2 : /\ l = IF h # b THEN b ELSE after
                        /\ first2 = IF p = -1 THEN l ELSE head
  BY ZenonT(60)
<1>12. AllocPlan(mem, head, F, b, e, p, n, size, h, t, f, after, l, first2)
  BY ZenonT(60), <1>3, <1>5, <1>8, <1>9, <1>10, <1>11 DEF AllocPlan
<1>13. h - b > 0 <=> h # b
  BY <1>1, <1>6, <1>8
<1>14. PICK w1, w2, w3, w4, T :
        /\ w1 = WriteHeader(mem, h, MAGIC_ALLOC, f - h, NONE)
        /\ w2 = IF e - t >= MIN_BLOCK THEN WriteHeader(w1, t, MAGIC_FREE, e - t, n) ELSE w1
        /\ w3 = IF h # b THEN WriteHeader(w2, b, MAGIC_FREE, h - b, after) ELSE w2
        /\ w4 = IF p = -1 THEN w3 ELSE [w3 EXCEPT ![p + 2] = l]
        /\ T = IF clear THEN y .. (y + size - 1) ELSE {}
  BY ZenonT(60)
<1>15. /\ head' = first2
       /\ mem' = [word \in Offset |-> IF clear /\ word \in y .. (y + size - 1) THEN 0 ELSE w4[word]]
       /\ live' = live \cup {[at |-> y, size |-> size]}
  <2> DEFINE block == list[k]
             next == NextOf(mem, block)
             end == EndOf(mem, block)
             payload == Payload(block, align)
             header == payload - HEADER_SIZE
             gap == header - block
             tailStart == payload + size
             hasTail == end - tailStart >= MIN_BLOCK
             allocEnd == AllocEnd(tailStart, end)
             afterGap == IF hasTail THEN tailStart ELSE next
             start == IF gap > 0 THEN block ELSE afterGap
             written == WriteHeader(mem, header, MAGIC_ALLOC, allocEnd - header, NONE)
             withTail == IF hasTail
                         THEN WriteHeader(written, tailStart, MAGIC_FREE, end - tailStart, next)
                         ELSE written
             withGap == IF gap > 0
                        THEN WriteHeader(withTail, block, MAGIC_FREE, gap, afterGap)
                        ELSE withTail
             linked == IF k = 1 THEN withGap ELSE [withGap EXCEPT ![list[k - 1] + 2] = start]
  <2>1. /\ head' = IF k = 1 THEN start ELSE head
        /\ mem' = [word \in Offset |->
                      IF clear /\ word \in payload .. (payload + size - 1)
                      THEN 0
                      ELSE linked[word]]
        /\ live' = live \cup {[at |-> payload, size |-> size]}
    BY ZenonT(60) DEF AllocFrom
  <2>2. block = b
    BY ZenonT(60), <1>2
  <2> HIDE DEF block
  <2>3. next = n /\ end = e /\ payload = y
    BY ZenonT(60), <2>2, <1>5, <1>7
  <2> HIDE DEF next, end, payload
  <2>4. header = h /\ tailStart = t
    BY ZenonT(60), <2>3, <1>8, <1>9
  <2> HIDE DEF header, tailStart
  <2>5. /\ gap = h - b /\ (gap > 0 <=> h # b) /\ (hasTail <=> e - t >= MIN_BLOCK)
        /\ allocEnd = f
    BY ZenonT(60), <2>2, <2>3, <2>4, <1>10, <1>13
  <2> HIDE DEF gap, hasTail, allocEnd
  <2>6. afterGap = after
    BY ZenonT(60), <2>3, <2>4, <2>5, <1>10
  <2> HIDE DEF afterGap
  <2>7. start = l
    BY ZenonT(60), <2>2, <2>5, <2>6, <1>11
  <2> HIDE DEF start
  <2>8. written = w1
    BY ZenonT(60), <2>4, <2>5, <1>14
  <2> HIDE DEF written
  <2>9. withTail = w2
    BY ZenonT(60), <2>3, <2>4, <2>5, <2>8, <1>14
  <2> HIDE DEF withTail
  <2>10. withGap = w3
    BY ZenonT(60), <2>2, <2>5, <2>6, <2>9, <1>14
  <2> HIDE DEF withGap
  <2>11. linked = w4
    BY ZenonT(60), <2>7, <2>10, <1>2, <1>4, <1>14
  <2> HIDE DEF linked
  <2>12. (IF k = 1 THEN start ELSE head) = first2
    BY ZenonT(60), <2>7, <1>4, <1>11
  <2> QED
    BY ZenonT(60), <2>1, <2>3, <2>11, <2>12
<1>16. AllocWriting(mem, b, e, p, n, h, t, f, after, l, mem')
  <2>1. T \cap Offset \subseteq (h + HEADER_SIZE) .. (t - 1)
    BY <1>8, <1>9, <1>14
  <2>2. mem' = [word \in Offset |-> IF word \in T THEN 0 ELSE w4[word]]
    <3>1. \A word : word \in T <=> clear /\ word \in y .. (y + size - 1)
      BY ZenonT(60), <1>14
    <3> QED
      BY ZenonT(60), <3>1, <1>15
  <2>3. w4 = AllocLinked(mem, b, e, p, n, h, t, f, after, l)
    BY ZenonT(60), <1>14 DEF AllocLinked
  <2> QED
    BY ZenonT(60), <2>1, <2>2, <2>3 DEF AllocWriting
<1>17. HeapHolds(mem', head', Outer(F, b, e) \cup Remains(b, h, t, e), live')
  <2>1. HeapHolds(mem', first2, Outer(F, b, e) \cup Remains(b, h, t, e),
                  live \cup {[at |-> h + HEADER_SIZE, size |-> size]})
    BY ZenonT(60), <1>12, <1>16, AllocWrites
  <2> QED
    BY ZenonT(60), <2>1, <1>8, <1>15
<1>18. HeapInv'
  <2>1. Outer(F, b, e) \cup Remains(b, h, t, e) \in SUBSET Offset
    BY ZenonT(60), <1>17 DEF HeapHolds
  <2> QED
    BY ZenonT(60), <2>1, <1>17 DEF HeapInv
<1>19. [at |-> y, size |-> size] \notin live
  <2> SUFFICES ASSUME NEW a \in live, a = [at |-> y, size |-> size]
               PROVE  FALSE
    BY ZenonT(60)
  <2>1. a.at - HEADER_SIZE = h
    BY ZenonT(60), <1>1, <1>8
  <2>2. h \in Blocks(F, live)
    BY ZenonT(60), <2>1 DEF Blocks, Headers
  <2>3. MagicOf(mem, h) = MAGIC_ALLOC /\ MagicOf(mem, b) = MAGIC_FREE
    BY ZenonT(60), <2>1, <1>3 DEF HeapHolds, AllocatedBlock, Listed, FreeBlock
  <2>4. h # b /\ b < h
    BY <2>3, <1>1, <1>6, <1>8
  <2>5. EndOf(mem, b) <= h
    BY ZenonT(60), <2>2, <2>4, <1>6 DEF HeapHolds, Tiled, Blocks
  <2> QED
    BY <2>5, <1>1, <1>5, <1>6, <1>9
<1> QED
  BY ZenonT(60), <1>15, <1>18, <1>19

-----------------------------------------------------------------------------
(* dealloc keeps the invariant *)

\* What dealloc computes for the block from h to e of an allocation: the stretch
\* from lo to hi that becomes a free block, the free block p before it and the one
\* n after it.
DeallocPlan(m, first, F, h, e, lo, hi, p, n, first2) ==
    /\ e = EndOf(m, h)
    /\ \/ lo = h /\ \A c \in F : EndOf(m, c) # h
       \/ lo \in F /\ EndOf(m, lo) = h
    /\ \/ hi = e /\ e \notin F
       \/ e \in F /\ hi = EndOf(m, e)
    /\ IsBefore(F, p, lo)
    /\ \/ n = NONE /\ \A c \in F : c < hi
       \/ n \in F /\ hi <= n /\ \A c \in F : c < hi \/ n <= c
    /\ first2 = IF p = -1 THEN lo ELSE first

DeallocWritten(m, lo, hi, p, n, m2) ==
    /\ m2 \in [Offset -> Nat] /\ Elsewhere(m, m2, lo, hi, p) /\ NoEmptyHeader(m2)
    /\ m2[lo] = MAGIC_FREE /\ m2[lo + 1] = hi - lo /\ m2[lo + 2] = n
    /\ p # -1 => m2[p + 2] = lo

\* The stretch is a run of whole blocks, and the allocation the only one in it.
Stretch(m, S, F, h, e, lo, hi) ==
    /\ h \in Nat /\ e \in Nat /\ lo \in Nat /\ hi \in Nat
    /\ lo <= h /\ h + 3 < e /\ e <= hi /\ hi <= ARENA
    /\ WholeBlocks(m, S, lo, hi)
    /\ \A c \in S : lo <= c /\ c < hi => c = h \/ c \in F
    /\ \A c \in F : c < lo => EndOf(m, c) < lo
    /\ \A c \in F : hi <= c => hi < c

\* It is one.
LEMMA DeallocStretch ==
    ASSUME NEW m, NEW first, NEW F, NEW A, HeapHolds(m, first, F, A), NEW a \in A,
           NEW h, h = a.at - HEADER_SIZE, NEW e, NEW lo, NEW hi, NEW p, NEW n, NEW first2,
           DeallocPlan(m, first, F, h, e, lo, hi, p, n, first2)
    PROVE  Stretch(m, Blocks(F, A), F, h, e, lo, hi)
<1> DEFINE S == Blocks(F, A)
<1>1. /\ e = EndOf(m, h)
      /\ \/ lo = h /\ \A c \in F : EndOf(m, c) # h
         \/ lo \in F /\ EndOf(m, lo) = h
      /\ \/ hi = e /\ e \notin F
         \/ e \in F /\ hi = EndOf(m, e)
  BY ZenonT(60) DEF DeallocPlan
<1>2. h \in S /\ F \subseteq S
  BY ZenonT(60) DEF Blocks, Headers
<1>3. /\ \A c, d \in S : c < d => EndOf(m, c) <= d
      /\ \A c, d \in F : c < d => EndOf(m, c) < d
  BY ZenonT(60) DEF HeapHolds, Tiled, Listed, Blocks
<1>4. \A c \in S : c \in Nat /\ EndOf(m, c) \in Nat /\ c + 3 < EndOf(m, c) /\ EndOf(m, c) <= ARENA
  BY ZenonT(60), BlockFacts
<1> HIDE DEF S
<1>5. h \in Nat /\ e \in Nat /\ h + 3 < e /\ e <= ARENA
  BY ZenonT(60), <1>1, <1>2, <1>4
<1>6. lo \in S /\ lo \in Nat /\ lo <= h /\ (lo # h => lo \in F /\ EndOf(m, lo) = h /\ lo < h)
  <2>1. CASE lo = h
    BY <2>1, <1>2, <1>5
  <2>2. CASE lo \in F /\ EndOf(m, lo) = h
    BY <2>2, <1>2, <1>4, <1>5
  <2> QED
    BY ZenonT(60), <1>1, <2>1, <2>2
<1>7. PICK z \in S : z \in Nat /\ h <= z /\ hi = EndOf(m, z) /\ (z = h \/ (z = e /\ z \in F)) /\ hi \in Nat /\ hi <= ARENA /\ z < hi /\ e <= hi
  <2>1. CASE hi = e
    BY <2>1, <1>1, <1>2, <1>5
  <2>2. CASE e \in F /\ hi = EndOf(m, e)
    BY <2>2, <1>2, <1>4, <1>5
  <2> QED
    BY ZenonT(60), <1>1, <2>1, <2>2
<1>8. WholeBlocks(m, S, lo, hi)
  <2> SUFFICES ASSUME NEW c \in S
               PROVE  (c < lo => EndOf(m, c) <= lo) /\ (c < hi => EndOf(m, c) <= hi)
    BY ZenonT(60) DEF WholeBlocks
  <2>1. c < lo => EndOf(m, c) <= lo
    BY ZenonT(60), <1>3, <1>6
  <2>2. c < z => EndOf(m, c) <= z
    BY ZenonT(60), <1>3
  <2>3. z < c => hi <= c
    BY ZenonT(60), <1>3, <1>7
  <2>4. c \in Nat /\ EndOf(m, c) \in Nat
    BY ZenonT(60), <1>4
  <2> QED
    BY <2>1, <2>2, <2>3, <2>4, <1>7
<1>9. ASSUME NEW c \in S, lo <= c, c < hi
      PROVE  c = h \/ c \in F
  <2>1. c \in Nat
    BY ZenonT(60), <1>4
  <2>2. CASE c < h
    <3>1. lo # h /\ lo \in F /\ EndOf(m, lo) = h
      BY <2>1, <2>2, <1>5, <1>6, <1>9
    <3>2. lo < c => h <= c
      BY ZenonT(60), <3>1, <1>3, <1>6
    <3>3. c = lo
      BY <3>2, <2>1, <2>2, <1>5, <1>6, <1>9
    <3> QED
      BY ZenonT(60), <3>1, <3>3
  <2>3. CASE h < c
    <3>1. e <= c
      BY ZenonT(60), <2>3, <1>1, <1>2, <1>3
    <3>2. z # h
      BY <3>1, <2>1, <1>1, <1>5, <1>7, <1>9
    <3>3. z = e /\ z \in F
      BY ZenonT(60), <3>2, <1>7
    <3>4. z < c => hi <= c
      BY ZenonT(60), <1>3, <1>7
    <3>5. c = z
      BY <3>1, <3>3, <3>4, <2>1, <1>5, <1>7, <1>9
    <3> QED
      BY ZenonT(60), <3>3, <3>5
  <2> QED
    BY <2>1, <2>2, <2>3, <1>5
<1>10. ASSUME NEW c \in F, c < lo
       PROVE  EndOf(m, c) < lo
  <2>1. CASE lo = h /\ \A d \in F : EndOf(m, d) # h
    <3>1. EndOf(m, c) <= lo
      BY ZenonT(60), <1>2, <1>3, <1>6, <1>10
    <3>2. EndOf(m, c) # lo /\ EndOf(m, c) \in Nat
      BY ZenonT(60), <2>1, <1>2, <1>4
    <3> QED
      BY <3>1, <3>2, <1>6
  <2>2. CASE lo \in F
    BY ZenonT(60), <2>2, <1>3, <1>10
  <2> QED
    BY ZenonT(60), <2>1, <2>2, <1>1
<1>11. ASSUME NEW c \in F, hi <= c
       PROVE  hi < c
  <2>1. c \in Nat
    BY ZenonT(60), <1>2, <1>4
  <2>2. CASE hi = e /\ e \notin F
    BY <2>1, <2>2, <1>7, <1>11
  <2>3. CASE e \in F /\ hi = EndOf(m, e)
    <3>1. e < c
      <4>1. e + 3 < hi
        BY ZenonT(60), <2>3, <1>2, <1>4
      <4> QED
        BY <4>1, <2>1, <1>5, <1>7, <1>11
    <3> QED
      BY ZenonT(60), <3>1, <2>3, <1>3
  <2> QED
    BY ZenonT(60), <2>2, <2>3, <1>1
<1> QED
  BY ZenonT(60), <1>5, <1>6, <1>7, <1>8, <1>9, <1>10, <1>11 DEF S, Stretch

\* What dealloc writes leaves the heap as it should be, without the allocation.
LEMMA DeallocHolds ==
    ASSUME NEW m, NEW first, NEW F, NEW A, HeapHolds(m, first, F, A), NEW a \in A,
           NEW h, h = a.at - HEADER_SIZE, NEW e, NEW lo, NEW hi, NEW p, NEW n, NEW first2,
           DeallocPlan(m, first, F, h, e, lo, hi, p, n, first2),
           NEW m2, DeallocWritten(m, lo, hi, p, n, m2)
    PROVE  HeapHolds(m2, first2, Outer(F, lo, hi) \cup {lo}, A \ {a})
<1> DEFINE O == Outer(F, lo, hi)
           F2 == O \cup {lo}
           S == Blocks(F, A)
           A2 == A \ {a}
<1>1. /\ HEADER_SIZE = 3 /\ ARENA \in Nat /\ Offset = 0 .. (ARENA - 1)
      /\ MAGIC_FREE = ARENA + 1 /\ MAGIC_ALLOC = ARENA + 2 /\ NONE = ARENA + 3
  BY ZenonT(60), Constants
<1>2. /\ h \in Nat /\ e \in Nat /\ lo \in Nat /\ hi \in Nat
      /\ lo <= h /\ h + 3 < e /\ e <= hi /\ hi <= ARENA
      /\ WholeBlocks(m, S, lo, hi)
      /\ \A c \in S : lo <= c /\ c < hi => c = h \/ c \in F
      /\ \A c \in F : c < lo => EndOf(m, c) < lo
      /\ \A c \in F : hi <= c => hi < c
  <2>1. Stretch(m, S, F, h, e, lo, hi)
    BY ZenonT(60), DeallocStretch
  <2> QED
    BY ZenonT(60), <2>1 DEF Stretch
<1>3. /\ m2 \in [Offset -> Nat] /\ Elsewhere(m, m2, lo, hi, p) /\ NoEmptyHeader(m2)
      /\ m2[lo] = MAGIC_FREE /\ m2[lo + 1] = hi - lo /\ m2[lo + 2] = n
      /\ p # -1 => m2[p + 2] = lo
  BY ZenonT(60) DEF DeallocWritten
<1>4. /\ IsBefore(F, p, lo)
      /\ \/ n = NONE /\ \A c \in F : c < hi
         \/ n \in F /\ hi <= n /\ \A c \in F : c < hi \/ n <= c
      /\ first2 = IF p = -1 THEN lo ELSE first
  BY ZenonT(60) DEF DeallocPlan
<1>5. /\ EndOf(m2, lo) = hi /\ NextOf(m2, lo) = n /\ FreeBlock(m2, lo)
      /\ lo < hi /\ lo + 3 < hi
  BY <1>1, <1>2, <1>3 DEF EndOf, NextOf, FreeBlock, MagicOf, SizeOf
<1>6. F \subseteq Offset /\ (\A c \in F : c \in Nat) /\ m \in [Offset -> Nat]
  BY <1>1 DEF HeapHolds
<1>7. /\ \A c \in O : c \in F /\ c \in Nat /\ (c < lo \/ hi <= c)
      /\ \A c \in F : c < lo \/ hi <= c => c \in O
  BY ZenonT(60), <1>6 DEF Outer
<1>8. Tiled(m2, Outer(S, lo, hi) \cup {lo})
  <2>1. {lo} \subseteq lo .. (hi - 1)
    BY <1>2, <1>5
  <2>2. \A x \in {lo} : EndOf(m2, x) \in Nat /\ EndOf(m2, x) <= hi
    BY <1>2, <1>5
  <2>3. \A x, y \in {lo} : x < y => EndOf(m2, x) <= y
    BY <1>2
  <2>4. \A word \in lo .. (hi - 1) : \E x \in {lo} : x <= word /\ word < EndOf(m2, x)
    BY <1>2, <1>5
  <2> QED
    BY ZenonT(60), <1>2, <1>3, <1>4, <2>1, <2>2, <2>3, <2>4, StillTiled DEF S
<1> HIDE DEF O
<1>9. IsNext(F2, lo, n)
  <2>1. CASE n = NONE /\ \A c \in F : c < hi
    <3>1. \A c \in F2 : c <= lo
      BY <2>1, <1>2, <1>7
    <3> QED
      BY ZenonT(60), <2>1, <3>1 DEF IsNext
  <2>2. CASE n \in F /\ hi <= n /\ \A c \in F : c < hi \/ n <= c
    <3>1. n \in F2 /\ lo < n
      BY <2>2, <1>2, <1>5, <1>6, <1>7
    <3>2. \A c \in F2 : c <= lo \/ n <= c
      BY <2>2, <1>2, <1>7
    <3> QED
      BY ZenonT(60), <3>1, <3>2 DEF IsNext
  <2> QED
    BY ZenonT(60), <2>1, <2>2, <1>4
<1>10. IsNext(F2, p, lo)
  <2>1. p < lo /\ p \in Int /\ \A c \in F : c < lo => c <= p
    BY <1>4, <1>6 DEF IsBefore
  <2>2. \A c \in F2 : c <= p \/ lo <= c
    BY <2>1, <1>2, <1>7
  <2> QED
    BY ZenonT(60), <2>1, <2>2 DEF IsNext
<1>11. Listed(m2, first2, F2)
  <2>1. {lo} \subseteq lo .. (hi - 1)
    BY <1>2, <1>5
  <2>2. \A x \in {lo} : FreeBlock(m2, x) /\ IsNext(F2, x, NextOf(m2, x))
    BY ZenonT(60), <1>5, <1>9
  <2>3. \A x, y \in {lo} : x < y => EndOf(m2, x) < y
    BY <1>2
  <2>4. \A x \in {lo}, c \in F : c < lo => EndOf(m, c) < x
    BY ZenonT(60), <1>2
  <2>5. \A x \in {lo}, c \in F : hi <= c => EndOf(m2, x) < c
    BY ZenonT(60), <1>2, <1>5
  <2>6. NewFree(m, m2, F, F2, lo, hi, {lo})
    BY ZenonT(60), <2>1, <2>2, <2>3, <2>4, <2>5 DEF NewFree
  <2>7. p # -1 => NextOf(m2, p) = lo
    BY ZenonT(60), <1>3 DEF NextOf
  <2>8. LeadsOn(m2, first, first2, p, F2)
    BY ZenonT(60), <1>4, <1>10, <2>7 DEF LeadsOn
  <2>9. F2 = Outer(F, lo, hi) \cup {lo}
    BY ZenonT(60) DEF O
  <2> HIDE DEF F2
  <2> QED
    BY ZenonT(60), <1>2, <1>3, <1>4, <1>5, <2>6, <2>8, <2>9, StillListed DEF S
<1>12. ASSUME NEW b \in A2
       PROVE  b.at - HEADER_SIZE \in Outer(S, lo, hi) /\ AllocatedBlock(m2, b)
  <2>1. PICK c : c = b.at - HEADER_SIZE
    BY ZenonT(60)
  <2>2. c \in S /\ b \in A /\ b # a
    BY ZenonT(60), <2>1 DEF Blocks, Headers
  <2>3. b.at \in Nat /\ a.at \in Nat /\ (a.at = b.at => a = b) /\ AllocatedBlock(m, b)
    BY ZenonT(60), <2>2 DEF HeapHolds
  <2>4. c # h
    BY <2>1, <2>2, <2>3, <1>1
  <2>5. c \notin F
    <3>1. MagicOf(m, c) = MAGIC_ALLOC
      BY ZenonT(60), <2>1, <2>3 DEF AllocatedBlock
    <3>2. \A d \in F : MagicOf(m, d) = MAGIC_FREE
      BY ZenonT(60) DEF HeapHolds, Listed, FreeBlock
    <3> QED
      BY <3>1, <3>2, <1>1
  <2>6. c \in Nat
    BY ZenonT(60), <2>2, BlockFacts
  <2>7. c \in Outer(S, lo, hi)
    <3>1. c < lo \/ hi <= c
      BY <2>2, <2>4, <2>5, <2>6, <1>2
    <3> QED
      BY ZenonT(60), <3>1, <2>2 DEF Outer
  <2>8. MagicOf(m2, c) = MagicOf(m, c) /\ EndOf(m2, c) = EndOf(m, c)
    BY <2>7, <1>2, <1>3, <1>4, OuterBlocks DEF S
  <2> QED
    BY ZenonT(60), <2>1, <2>3, <2>7, <2>8 DEF AllocatedBlock
<1>13. Tiled(m2, F2 \cup Headers(A2))
  <2>1. \A c \in Headers(A2) : c \in Outer(S, lo, hi)
    BY ZenonT(60), <1>12 DEF Headers
  <2>2. \A c \in O : c \in Outer(S, lo, hi)
    BY ZenonT(60) DEF O, Outer, Blocks
  <2>3. ASSUME NEW c \in Outer(S, lo, hi)
        PROVE  c \in O \cup Headers(A2)
    <3>1. c \in S /\ (c < lo \/ hi <= c)
      BY ZenonT(60), <2>3 DEF Outer
    <3>2. CASE c \in F
      BY ZenonT(60), <3>1, <3>2, <1>7
    <3>3. CASE c \notin F
      <4>1. PICK b \in A : c = b.at - HEADER_SIZE
        BY ZenonT(60), <3>1, <3>3 DEF Blocks, Headers
      <4>2. b # a
        <5>1. c # h
          BY <3>1, <1>2
        <5> QED
          BY ZenonT(60), <4>1, <5>1
      <4> QED
        BY ZenonT(60), <4>1, <4>2 DEF Headers
    <3> QED
      BY ZenonT(60), <3>2, <3>3
  <2>4. F2 \cup Headers(A2) = Outer(S, lo, hi) \cup {lo}
    BY ZenonT(60), <2>1, <2>2, <2>3
  <2> QED
    BY ZenonT(60), <1>8, <2>4
<1>14. F2 \subseteq Offset
  <2>1. lo \in Offset
    BY <1>1, <1>2, <1>5
  <2> QED
    BY ZenonT(60), <2>1, <1>6, <1>7
<1>15. A2 \subseteq [at : Nat, size : Nat \ {0}] /\ \A b, c \in A2 : b.at = c.at => b = c
  <2>1. A \subseteq [at : Nat, size : Nat \ {0}] /\ \A b, c \in A : b.at = c.at => b = c
    BY ZenonT(60) DEF HeapHolds
  <2> QED
    BY ZenonT(60), <2>1
<1>16. \A b \in A2 : AllocatedBlock(m2, b)
  BY ZenonT(60), <1>12
<1>17. HeapHolds(m2, first2, F2, A2)
  <2> HIDE DEF F2, A2
  <2> QED
    BY ZenonT(60), <1>3, <1>11, <1>13, <1>14, <1>15, <1>16 DEF HeapHolds
<1> QED
  BY ZenonT(60), <1>17 DEF O

\* dealloc writes the header of the stretch and the link to it.
LEMMA DeallocWrites ==
    ASSUME NEW m, NEW first, NEW F, NEW A, HeapHolds(m, first, F, A), NEW a \in A,
           NEW h, h = a.at - HEADER_SIZE, NEW e, NEW lo, NEW hi, NEW p, NEW n, NEW first2,
           DeallocPlan(m, first, F, h, e, lo, hi, p, n, first2),
           NEW w, w = WriteHeader(m, lo, MAGIC_FREE, hi - lo, n),
           NEW m2, m2 = IF p = -1 THEN w ELSE [w EXCEPT ![p + 2] = lo]
    PROVE  DeallocWritten(m, lo, hi, p, n, m2)
<1>1. /\ HEADER_SIZE = 3 /\ ARENA \in Nat /\ Offset = 0 .. (ARENA - 1)
      /\ MAGIC_FREE = ARENA + 1 /\ MAGIC_ALLOC = ARENA + 2 /\ NONE = ARENA + 3
  BY ZenonT(60), Constants
<1>2. Stretch(m, Blocks(F, A), F, h, e, lo, hi)
  BY ZenonT(60), DeallocStretch
<1>3. /\ lo \in Nat /\ hi \in Nat /\ lo + 3 < hi /\ hi <= ARENA
      /\ \A c \in F : c < lo => EndOf(m, c) < lo
  BY <1>2 DEF Stretch
<1>4. m \in [Offset -> Nat] /\ NoEmptyHeader(m) /\ \A c \in F : c \in Nat /\ c < ARENA
  BY <1>1 DEF HeapHolds
<1>5. n \in Nat /\ n # MAGIC_ALLOC
  <2>1. n = NONE \/ n \in F
    BY ZenonT(60) DEF DeallocPlan
  <2> QED
    BY <2>1, <1>1, <1>4
<1>6. /\ w \in [Offset -> Nat] /\ NoEmptyHeader(w)
      /\ w[lo] = MAGIC_FREE /\ w[lo + 1] = hi - lo /\ w[lo + 2] = n
      /\ \A word \in Offset : word < lo \/ lo + 3 <= word => w[word] = m[word]
  <2>1. hi - lo \in Nat /\ hi - lo > 3 /\ hi - lo <= ARENA /\ lo + 2 < ARENA
    BY <1>1, <1>3
  <2> QED
    BY <2>1, <1>3, <1>4, <1>5, Written
<1>7. \A word \in Offset : word < lo \/ hi <= word => w[word] = m[word]
  BY <1>1, <1>3, <1>6
<1>8. CASE p = -1
  <2>1. m2 = w
    BY ZenonT(60), <1>8
  <2>2. Elsewhere(m, m2, lo, hi, p)
    BY ZenonT(60), <2>1, <1>7 DEF Elsewhere
  <2> QED
    BY ZenonT(60), <2>1, <2>2, <1>6, <1>8 DEF DeallocWritten
<1>9. CASE p # -1
  <2>1. p \in F /\ p < lo
    BY ZenonT(60), <1>9 DEF DeallocPlan, IsBefore
  <2>2. p \in Nat /\ SizeOf(m, p) \in Nat /\ p + 3 < EndOf(m, p) /\ EndOf(m, p) < lo
    <3>1. p \in Blocks(F, A)
      BY ZenonT(60), <2>1 DEF Blocks
    <3> QED
      BY ZenonT(60), <3>1, <2>1, <1>3, BlockFacts
  <2>3. PICK q \in Offset : q = p + 2 /\ q - 1 = p + 1 /\ q - 1 \in Offset /\ q < lo /\ q - 1 < lo
    <3>1. EndOf(m, p) = p + SizeOf(m, p)
      BY ZenonT(60) DEF EndOf
    <3> QED
      BY <3>1, <2>2, <1>1, <1>3
  <2>4. w[q - 1] # MAGIC_ALLOC
    <3>1. m[p + 1] # MAGIC_ALLOC
      BY <2>2, <1>1, <1>3 DEF EndOf, SizeOf
    <3> QED
      BY ZenonT(60), <3>1, <2>3, <1>7
  <2>5. m2 = [w EXCEPT ![q] = lo] /\ lo # MAGIC_ALLOC
    BY <2>3, <1>1, <1>3, <1>9
  <2>6. /\ m2 \in [Offset -> Nat] /\ NoEmptyHeader(m2) /\ m2[q] = lo
        /\ \A word \in Offset : word # q => m2[word] = w[word]
    BY <2>3, <2>4, <2>5, <1>3, <1>6, Linked
  <2>7. Elsewhere(m, m2, lo, hi, p)
    BY ZenonT(60), <2>3, <2>6, <1>7 DEF Elsewhere
  <2>8. {lo, lo + 1, lo + 2} \subseteq Offset /\ lo # q /\ lo + 1 # q /\ lo + 2 # q
    BY <2>3, <1>1, <1>3
  <2> QED
    BY ZenonT(60), <2>3, <2>6, <2>7, <2>8, <1>6 DEF DeallocWritten
<1> QED
  BY ZenonT(60), <1>8, <1>9

\* Where the block is put into the list: k is the index of the first block above
\* it, and k - 1 of the last one below it.
Point(list, k, h, F) ==
    /\ k \in 1 .. (Len(list) + 1) /\ Len(list) \in Nat
    /\ k <= Len(list) => list[k] \in F /\ h <= list[k]
    /\ k > 1 => list[k - 1] \in F /\ list[k - 1] < h
    /\ \A c \in F : \/ c < h /\ k > 1 /\ c <= list[k - 1]
                    \/ h <= c /\ k <= Len(list) /\ list[k] <= c
    /\ k > 1 => IsBefore(F, IF k - 1 = 1 THEN -1 ELSE list[k - 2], list[k - 1])

\* A block that is freed is put into the list, merged with its neighbours.
LEMMA InsertKeeps ==
    ASSUME NEW F \in SUBSET Offset, HeapHolds(mem, head, F, live), NEW a \in live,
           NEW list, ListOf(list, mem, head, F), NEW h, h = a.at - HEADER_SIZE,
           NEW k, Point(list, k, h, F), NoOverlap(list, k, h, EndOf(mem, h)),
           Insert(list, k, h), live' = live \ {a}
    PROVE  HeapInv'
<1>1. /\ HEADER_SIZE = 3 /\ ARENA \in Nat /\ Offset = 0 .. (ARENA - 1)
      /\ MAGIC_FREE = ARENA + 1 /\ MAGIC_ALLOC = ARENA + 2 /\ NONE = ARENA + 3
  BY ZenonT(60), Constants
<1>2. h \in Blocks(F, live) /\ F \subseteq Blocks(F, live)
  BY ZenonT(60) DEF Blocks, Headers
<1>3. PICK e : e = EndOf(mem, h)
  BY ZenonT(60)
<1>4. /\ h \in Nat /\ e \in Nat /\ h + 3 < e
      /\ \A c \in F : c \in Nat /\ EndOf(mem, c) \in Nat /\ c + 3 < EndOf(mem, c)
  BY ZenonT(60), <1>2, <1>3, BlockFacts
<1>5. /\ k \in 1 .. (Len(list) + 1) /\ Len(list) \in Nat
      /\ k <= Len(list) => list[k] \in F /\ h <= list[k]
      /\ k > 1 => list[k - 1] \in F /\ list[k - 1] < h
      /\ \A c \in F : \/ c < h /\ k > 1 /\ c <= list[k - 1]
                      \/ h <= c /\ k <= Len(list) /\ list[k] <= c
      /\ k > 1 => IsBefore(F, IF k - 1 = 1 THEN -1 ELSE list[k - 2], list[k - 1])
  BY ZenonT(60) DEF Point
<1>6. /\ k > 1 => EndOf(mem, list[k - 1]) <= h
      /\ k <= Len(list) => list[k] >= e
  BY <1>3, <1>5 DEF NoOverlap
<1>7. /\ \A b, c \in F : b < c => EndOf(mem, b) < c
      /\ \A b \in F : IsNext(F, b, NextOf(mem, b))
  BY ZenonT(60) DEF HeapHolds, Listed
<1>8. PICK joinsNext \in BOOLEAN : joinsNext = (k <= Len(list) /\ list[k] = e)
  BY ZenonT(60)
<1>9. PICK joinsPrevious \in BOOLEAN : joinsPrevious = JoinsPrevious(list, k, h)
  BY ZenonT(60) DEF JoinsPrevious
<1>10. joinsPrevious <=> k > 1 /\ EndOf(mem, list[k - 1]) = h
  BY ZenonT(60), <1>9 DEF JoinsPrevious
<1>11. PICK lo, hi, n, before :
         /\ lo = IF joinsPrevious THEN list[k - 1] ELSE h
         /\ hi = IF joinsNext THEN EndOf(mem, list[k]) ELSE e
         /\ n = IF joinsNext THEN NextOf(mem, list[k])
                ELSE IF k <= Len(list) THEN list[k] ELSE NONE
         /\ before = IF joinsPrevious THEN k - 2 ELSE k - 1
  BY ZenonT(60)
<1>12. PICK p, first2 : /\ p = IF before = 0 THEN -1 ELSE list[before]
                        /\ first2 = IF p = -1 THEN lo ELSE head
  BY ZenonT(60)
<1>13. \/ lo = h /\ \A c \in F : EndOf(mem, c) # h
       \/ lo \in F /\ EndOf(mem, lo) = h
  <2>1. CASE joinsPrevious
    BY ZenonT(60), <2>1, <1>5, <1>10, <1>11
  <2>2. CASE ~ joinsPrevious
    <3>1. lo = h
      BY ZenonT(60), <2>2, <1>11
    <3>2. ASSUME NEW c \in F
          PROVE  EndOf(mem, c) # h
      <4>1. CASE c < h /\ k > 1 /\ c <= list[k - 1]
        <5>1. c = list[k - 1] => EndOf(mem, c) # h
          BY ZenonT(60), <2>2, <4>1, <1>10
        <5>2. c < list[k - 1] => EndOf(mem, c) < list[k - 1]
          BY ZenonT(60), <4>1, <1>5, <1>7
        <5>3. list[k - 1] \in Nat /\ list[k - 1] < h
          BY ZenonT(60), <4>1, <1>4, <1>5
        <5> QED
          BY <5>1, <5>2, <5>3, <4>1, <1>4
      <4>2. CASE h <= c
        BY <4>2, <1>4
      <4> QED
        BY ZenonT(60), <4>1, <4>2, <1>5
    <3> QED
      BY ZenonT(60), <3>1, <3>2
  <2> QED
    BY ZenonT(60), <2>1, <2>2
<1>14. \/ hi = e /\ e \notin F
       \/ e \in F /\ hi = EndOf(mem, e)
  <2>1. CASE joinsNext
    BY ZenonT(60), <2>1, <1>5, <1>8, <1>11
  <2>2. CASE ~ joinsNext
    <3>1. e \notin F
      <4> SUFFICES ASSUME e \in F
                   PROVE  FALSE
        BY ZenonT(60)
      <4>1. ~ (e < h)
        BY <1>4
      <4>2. k <= Len(list) /\ list[k] <= e
        BY ZenonT(60), <4>1, <1>5
      <4>3. list[k] \in Nat /\ list[k] >= e
        BY ZenonT(60), <4>2, <1>4, <1>5, <1>6
      <4>4. list[k] = e
        BY <4>2, <4>3, <1>4
      <4> QED
        BY ZenonT(60), <4>2, <4>4, <2>2, <1>8
    <3> QED
      BY ZenonT(60), <3>1, <2>2, <1>11
  <2> QED
    BY ZenonT(60), <2>1, <2>2
<1>15. IsBefore(F, p, lo)
  <2>1. CASE joinsPrevious
    <3>1. k > 1 /\ lo = list[k - 1] /\ before = k - 2
      BY ZenonT(60), <2>1, <1>10, <1>11
    <3>2. before = 0 <=> k - 1 = 1
      BY <3>1, <1>5
    <3>3. p = IF k - 1 = 1 THEN -1 ELSE list[k - 2]
      BY ZenonT(60), <3>1, <3>2, <1>12
    <3> QED
      BY ZenonT(60), <3>1, <3>3, <1>5
  <2>2. CASE ~ joinsPrevious
    <3>1. lo = h /\ before = k - 1 /\ p = IF k = 1 THEN -1 ELSE list[k - 1]
      BY <2>2, <1>5, <1>11, <1>12
    <3>2. CASE k = 1
      <4>1. p = -1 /\ \A c \in F : ~ (c < h)
        BY <3>1, <3>2, <1>4, <1>5
      <4> QED
        BY <4>1, <3>1, <1>4 DEF IsBefore
    <3>3. CASE k > 1
      <4>1. p = list[k - 1] /\ p \in F /\ p < h
        BY <3>1, <3>3, <1>5
      <4>2. \A c \in F : c < h => c <= p
        BY <4>1, <1>4, <1>5
      <4> QED
        BY ZenonT(60), <4>1, <4>2, <3>1 DEF IsBefore
    <3> QED
      BY <3>2, <3>3, <1>5
  <2> QED
    BY ZenonT(60), <2>1, <2>2
<1>16. \/ n = NONE /\ \A c \in F : c < hi
       \/ n \in F /\ hi <= n /\ \A c \in F : c < hi \/ n <= c
  <2>1. CASE joinsNext
    <3>1. e \in F /\ hi = EndOf(mem, e) /\ n = NextOf(mem, e)
      BY ZenonT(60), <2>1, <1>5, <1>8, <1>11
    <3>2. IsNext(F, e, n)
      BY ZenonT(60), <3>1, <1>7
    <3>3. hi \in Nat /\ e < hi
      BY <3>1, <1>4
    <3>4. CASE n = NONE /\ \A c \in F : c <= e
      BY <3>3, <3>4, <1>4
    <3>5. CASE n \in F /\ e < n /\ \A c \in F : c <= e \/ n <= c
      <4>1. hi < n
        BY ZenonT(60), <3>1, <3>5, <1>7
      <4> QED
        BY <4>1, <3>3, <3>5, <1>4
    <3> QED
      BY ZenonT(60), <3>2, <3>4, <3>5 DEF IsNext
  <2>2. CASE ~ joinsNext /\ k <= Len(list)
    <3>1. hi = e /\ n = list[k] /\ n \in F /\ e <= n
      BY ZenonT(60), <2>2, <1>5, <1>6, <1>11
    <3>2. \A c \in F : c < h \/ n <= c
      BY ZenonT(60), <3>1, <1>5
    <3> QED
      BY <3>1, <3>2, <1>4
  <2>3. CASE ~ joinsNext /\ ~ (k <= Len(list))
    <3>1. hi = e /\ n = NONE
      BY ZenonT(60), <2>3, <1>11
    <3>2. \A c \in F : c < h
      BY ZenonT(60), <2>3, <1>5
    <3> QED
      BY <3>1, <3>2, <1>4
  <2> QED
    BY ZenonT(60), <2>1, <2>2, <2>3
<1>17. DeallocPlan(mem, head, F, h, e, lo, hi, p, n, first2)
  BY ZenonT(60), <1>3, <1>12, <1>13, <1>14, <1>15, <1>16 DEF DeallocPlan
<1>18. before = 0 <=> p = -1
  <2>1. before # 0 => list[before] \in Nat
    <3>1. before # 0 => before \in 1 .. Len(list)
      BY <1>5, <1>10, <1>11
    <3>2. list \in Seq(F)
      BY ZenonT(60) DEF ListOf, Met
    <3>3. before # 0 => list[before] \in F
      BY <3>1, <3>2
    <3> QED
      BY ZenonT(60), <3>3, <1>4
  <2> QED
    BY <2>1, <1>12
<1>19. PICK w : w = WriteHeader(mem, lo, MAGIC_FREE, hi - lo, n)
  BY ZenonT(60)
<1>20. head' = first2 /\ mem' = IF p = -1 THEN w ELSE [w EXCEPT ![p + 2] = lo]
  <2> DEFINE end == EndOf(mem, h)
             jn == k <= Len(list) /\ list[k] = end
             jp == JoinsPrevious(list, k, h)
             start == IF jp THEN list[k - 1] ELSE h
             newEnd == IF jn THEN EndOf(mem, list[k]) ELSE end
             next == IF jn THEN NextOf(mem, list[k])
                     ELSE IF k <= Len(list) THEN list[k] ELSE NONE
             bef == IF jp THEN k - 2 ELSE k - 1
             freed == WriteHeader(mem, start, MAGIC_FREE, newEnd - start, next)
  <2>1. /\ head' = IF bef = 0 THEN start ELSE head
        /\ mem' = IF bef = 0 THEN freed ELSE [freed EXCEPT ![list[bef] + 2] = start]
    BY ZenonT(60) DEF Insert
  <2>2. end = e /\ (jp <=> joinsPrevious)
    BY ZenonT(60), <1>3, <1>9
  <2> HIDE DEF end, jp
  <2>3. jn <=> joinsNext
    BY ZenonT(60), <2>2, <1>8
  <2> HIDE DEF jn
  <2>4. start = lo /\ newEnd = hi /\ next = n /\ bef = before
    BY ZenonT(60), <2>2, <2>3, <1>11
  <2> HIDE DEF start, newEnd, next, bef
  <2>5. freed = w
    BY ZenonT(60), <2>4, <1>19
  <2> HIDE DEF freed
  <2> QED
    BY ZenonT(60), <2>1, <2>4, <2>5, <1>12, <1>18
<1>21. DeallocWritten(mem, lo, hi, p, n, mem')
  BY ZenonT(60), <1>17, <1>19, <1>20, DeallocWrites
<1>22. HeapHolds(mem', first2, Outer(F, lo, hi) \cup {lo}, live \ {a})
  BY ZenonT(60), <1>17, <1>21, DeallocHolds
<1>23. Outer(F, lo, hi) \cup {lo} \in SUBSET Offset
  BY ZenonT(60), <1>22 DEF HeapHolds
<1> QED
  BY ZenonT(60), <1>20, <1>22, <1>23 DEF HeapInv

\* What is freed and lies in no allocation has no header that looks like one, or
\* one that overlaps a free block: the call is refused.
LEMMA StaleIsRefused ==
    ASSUME NEW F \in SUBSET Offset, HeapHolds(mem, head, F, live),
           NEW list, ListOf(list, mem, head, F), NEW offset \in Offset,
           \A a \in live : offset \notin BlockOf(a),
           NEW k, \A h \in Nat : h = offset - HEADER_SIZE => Point(list, k, h, F)
    PROVE  ~ DeallocOk(list, k, offset)
<1> SUFFICES ASSUME DeallocOk(list, k, offset)
             PROVE  FALSE
  BY ZenonT(60)
<1>1. /\ HEADER_SIZE = 3 /\ ARENA \in Nat /\ Offset = 0 .. (ARENA - 1)
  BY ZenonT(60), Constants
<1>2. PICK h \in Nat : h = offset - HEADER_SIZE /\ offset = h + 3
  BY <1>1 DEF DeallocOk, LooksAllocated
<1>3. PICK e : e = EndOf(mem, h)
  BY ZenonT(60)
<1>4. /\ MagicOf(mem, h) = MAGIC_ALLOC /\ SizeOf(mem, h) >= HEADER_SIZE
      /\ NoOverlap(list, k, h, e)
  BY ZenonT(60), <1>2, <1>3 DEF DeallocOk, LooksAllocated
<1>5. e \in Nat /\ offset < e
  <2>1. h \in Offset /\ h + 1 \in Offset
    BY <1>1, <1>2
  <2>2. mem[h] = MAGIC_ALLOC /\ mem[h + 1] >= 3
    BY ZenonT(60), <1>1, <1>4 DEF MagicOf, SizeOf
  <2>3. mem \in [Offset -> Nat] /\ NoEmptyHeader(mem)
    BY ZenonT(60) DEF HeapHolds
  <2>4. mem[h + 1] \in Nat /\ (mem[h + 1] = 0 \/ mem[h + 1] > 3)
    BY ZenonT(60), <2>1, <2>2, <2>3, <1>1 DEF NoEmptyHeader
  <2>5. PICK size \in Nat : size = mem[h + 1] /\ size > 3
    BY <2>2, <2>4
  <2>6. e = h + size
    BY ZenonT(60), <2>5, <1>3 DEF EndOf, SizeOf
  <2> QED
    BY <2>5, <2>6, <1>2
<1>6. PICK s \in F : s <= offset /\ offset < EndOf(mem, s)
  <2>1. PICK s \in Blocks(F, live) : s <= offset /\ offset < EndOf(mem, s)
    BY ZenonT(60) DEF HeapHolds, Tiled, Blocks
  <2>2. s \notin Headers(live)
    BY ZenonT(60), <2>1 DEF Headers, BlockOf
  <2> QED
    BY ZenonT(60), <2>1, <2>2 DEF Blocks
<1>7. \A c \in F : c \in Nat /\ EndOf(mem, c) \in Nat
  <2>1. F \subseteq Blocks(F, live)
    BY ZenonT(60) DEF Blocks
  <2> QED
    BY ZenonT(60), <2>1, BlockFacts
<1>8. Point(list, k, h, F)
  BY ZenonT(60), <1>2
<1>9. CASE s < h /\ k > 1 /\ s <= list[k - 1]
  <2>1. /\ list[k - 1] \in F /\ list[k - 1] < h /\ k - 1 \in 1 .. (k - 1)
    BY <1>8, <1>9 DEF Point
  <2>2. EndOf(mem, list[k - 1]) <= h
    BY ZenonT(60), <2>1, <1>4 DEF NoOverlap
  <2>3. s < list[k - 1] => EndOf(mem, s) < list[k - 1]
    BY ZenonT(60), <2>1 DEF HeapHolds, Listed
  <2>4. list[k - 1] \in Nat
    BY ZenonT(60), <2>1, <1>7
  <2>5. EndOf(mem, s) <= h
    <3>1. CASE s = list[k - 1]
      BY ZenonT(60), <3>1, <2>2
    <3>2. CASE s < list[k - 1]
      BY <3>2, <2>1, <2>3, <2>4, <1>7
    <3> QED
      BY <3>1, <3>2, <2>4, <1>7, <1>9
  <2> QED
    BY <2>5, <1>2, <1>6, <1>7
<1>10. CASE h <= s /\ k <= Len(list) /\ list[k] <= s
  <2>1. list[k] \in F /\ list[k] >= e
    BY ZenonT(60), <1>4, <1>8, <1>10 DEF Point, NoOverlap
  <2>2. list[k] \in Nat /\ s \in Nat
    BY ZenonT(60), <2>1, <1>7
  <2>3. offset \in Nat
    BY <1>2
  <2> QED
    BY <2>1, <2>2, <2>3, <1>5, <1>6, <1>10
<1> QED
  BY ZenonT(60), <1>8, <1>9, <1>10 DEF Point

-----------------------------------------------------------------------------
(* The walk *)

\* One step of a walk, and n steps of it: g[i] is what was met in i steps.
Walked(m, first, seen) ==
    LET block == Following(m, first, seen)
    IN  IF block # NONE /\ Sound(m, block) THEN Append(seen, block) ELSE seen

IsWalk(g, m, first, n) ==
    g = [i \in 0 .. n |-> IF i = 0 THEN <<>> ELSE Walked(m, first, g[i - 1])]

\* A step of the walk goes on to the block after the last one met, if there is one.
LEMMA WalkStep ==
    ASSUME NEW m \in [Offset -> Nat], NEW first, NEW F \in SUBSET Offset, Listed(m, first, F),
           NEW w, Met(w, m, first, F)
    PROVE  \/ /\ Following(m, first, w) = NONE
              /\ Walked(m, first, w) = w
           \/ /\ Met(Walked(m, first, w), m, first, F)
              /\ Len(Walked(m, first, w)) = Len(w) + 1
<1> DEFINE b == Following(m, first, w)
           last == IF Len(w) = 0 THEN -1 ELSE w[Len(w)]
<1>1. /\ w \in Seq(F) /\ Len(w) \in Nat
      /\ DOMAIN w = 1 .. Len(w) /\ \A i \in 1 .. Len(w) : w[i] \in F
      /\ w = <<>> <=> Len(w) = 0
      /\ Len(w) # 0 => Len(w) \in 1 .. Len(w)
  BY DEF Met
<1>0. Len(w) \in Nat
  BY ZenonT(60), <1>1
<1>2. \A c \in F : c \in Nat /\ c <= ARENA - 1 /\ c # NONE
  BY Constants
<1>3. b = IF Len(w) = 0 THEN first ELSE NextOf(m, w[Len(w)])
  BY ZenonT(60), <1>1 DEF Following
<1>4. IsNext(F, last, b)
  BY ZenonT(60), <1>1, <1>3 DEF Listed
<1>5. CASE b = NONE
  BY ZenonT(60), <1>5 DEF Walked
<1>6. CASE b # NONE
  <2>1. b \in F /\ last < b /\ \A c \in F : c <= last \/ b <= c
    BY ZenonT(60), <1>4, <1>6 DEF IsNext
  <2>2. Sound(m, b)
    <3>1. FreeBlock(m, b)
      BY ZenonT(60), <2>1 DEF Listed
    <3>2. b \in Nat /\ b + 3 < ARENA /\ ARENA \in Nat
      BY ZenonT(60), <1>2, <2>1, <3>1, Constants DEF FreeBlock
    <3>3. b + 1 \in Offset
      BY <3>2, Constants
    <3>4. SizeOf(m, b) \in Nat
      BY ZenonT(60), <3>3 DEF SizeOf
    <3> QED
      BY <3>1, <3>2, <3>4, Constants DEF FreeBlock, Sound
  <2>3. Walked(m, first, w) = Append(w, b)
    BY ZenonT(60), <1>6, <2>2 DEF Walked
  <2> DEFINE v == Append(w, b)
  <2>4. /\ v \in Seq(F) /\ Len(v) = Len(w) + 1 /\ v[Len(w) + 1] = b
        /\ \A i \in 1 .. Len(w) : v[i] = w[i]
    BY <1>1, <2>1
  <2> HIDE DEF b, v
  <2>5. \A i \in 1 .. Len(w) : w[i] <= last /\ w[i] \in Nat
    <3> SUFFICES ASSUME NEW i \in 1 .. Len(w) PROVE w[i] <= last /\ w[i] \in Nat
      BY ZenonT(60)
    <3>1. Len(w) \in 1 .. Len(w) /\ last = w[Len(w)] /\ w[i] \in Nat /\ w[Len(w)] \in Nat
      BY <1>1, <1>2
    <3>2. i < Len(w) => w[i] < w[Len(w)]
      BY ZenonT(60), <3>1 DEF Met
    <3>3. i < Len(w) \/ i = Len(w)
      BY <1>0
    <3> QED
      BY <3>1, <3>2, <3>3
  <2>6. Len(w) - 1 <= last /\ last \in Int /\ b \in Nat
    BY <1>1, <1>2, <2>1 DEF Met
  <2>7. Met(v, m, first, F)
    <3>1. \A i \in 1 .. Len(v) : i - 1 <= v[i]
      BY <1>1, <2>1, <2>4, <2>6 DEF Met
    <3>2. \A i, j \in 1 .. Len(v) : i < j => v[i] < v[j]
      <4> SUFFICES ASSUME NEW i \in 1 .. Len(v), NEW j \in 1 .. Len(v), i < j PROVE v[i] < v[j]
        BY ZenonT(60)
      <4>1. i \in 1 .. Len(w) /\ v[i] = w[i]
        BY <1>1, <2>4
      <4>2. CASE j = Len(w) + 1
        BY <2>1, <2>4, <2>5, <2>6, <4>1, <4>2
      <4>3. CASE j # Len(w) + 1
        <5>1. j \in 1 .. Len(w) /\ v[j] = w[j]
          BY <1>1, <2>4, <4>3
        <5> QED
          BY ZenonT(60), <4>1, <5>1 DEF Met
      <4> QED
        BY ZenonT(60), <4>2, <4>3
    <3>3. \A i \in 1 .. Len(v) : i < Len(v) => NextOf(m, v[i]) = v[i + 1]
      <4> SUFFICES ASSUME NEW i \in 1 .. Len(w) PROVE NextOf(m, w[i]) = v[i + 1]
        BY <1>1, <2>4
      <4>1. CASE i = Len(w)
        BY <1>1, <1>3, <2>4, <4>1
      <4>2. CASE i # Len(w)
        <5>1. i + 1 \in 1 .. Len(w) /\ i < Len(w)
          BY <1>0, <4>2
        <5> QED
          BY ZenonT(60), <2>4, <5>1 DEF Met
      <4> QED
        BY ZenonT(60), <4>1, <4>2
    <3>4. first = v[1]
      <4>1. CASE Len(w) = 0
        BY <1>3, <2>4, <4>1
      <4>2. CASE Len(w) # 0
        BY <1>1, <2>4, <4>2 DEF Met
      <4> QED
        BY ZenonT(60), <4>1, <4>2
    <3>5. \A c \in F : c <= v[Len(v)] => \E i \in 1 .. Len(v) : c = v[i]
      <4> SUFFICES ASSUME NEW c \in F, c <= b PROVE \E i \in 1 .. Len(v) : c = v[i]
        BY ZenonT(60), <2>4
      <4>1. CASE c = b
        BY <1>1, <2>4, <4>1
      <4>2. CASE c # b
        <5>1. c <= last /\ c \in Nat
          BY <1>2, <2>1, <2>6, <4>2
        <5>2. Len(w) # 0 /\ c <= w[Len(w)]
          BY <5>1
        <5>3. PICK i \in 1 .. Len(w) : c = w[i]
          BY ZenonT(60), <5>2 DEF Met
        <5> QED
          BY <1>1, <2>4, <5>3
      <4> QED
        BY ZenonT(60), <4>1, <4>2
    <3> QED
      BY ZenonT(60), <2>4, <3>1, <3>2, <3>3, <3>4, <3>5 DEF Met
  <2> QED
    BY ZenonT(60), <2>3, <2>4, <2>7 DEF v
<1> QED
  BY ZenonT(60), <1>5, <1>6

\* The lemmas above need no theorem of the library; the ones below rest on it.
INSTANCE FiniteSetTheorems

\* A set of naturals has a least element.
LEMMA NatMin ==
    ASSUME NEW T, T \subseteq Nat, T # {}
    PROVE  \E x \in T : \A y \in T : x <= y
<1>. DEFINE R == OpToRel(<, Nat)
<1>1. PICK x \in T : \A y \in T : ~ (<<y, x>> \in R)
  <2>1. IsWellFoundedOn(R, Nat)
    BY ZenonT(60), NatLessThanWellFounded
  <2>. HIDE DEF R
  <2>. QED
    BY ZenonT(60), <2>1, WFMin
<1>2. ASSUME NEW y \in T PROVE x <= y
  <2>1. ASSUME y < x PROVE <<y, x>> \in R
    BY ZenonT(60), <2>1 DEF OpToRel
  <2>2. ~ (y < x)
    <3>. HIDE DEF R
    <3>. QED
      BY ZenonT(60), <2>1, <1>1
  <2>. QED
    BY <2>2
<1>. QED
  BY ZenonT(60), <1>2

\* There is a walk of every length: were there a least n without, one more step
\* after the walk of n - 1 steps would be one.
LEMMA WalkExists ==
    ASSUME NEW m, NEW first, NEW n \in Nat
    PROVE  \E g : IsWalk(g, m, first, n)
<1> DEFINE T == {k \in Nat : ~ \E g : IsWalk(g, m, first, k)}
<1>1. ASSUME T # {} PROVE FALSE
  <2>1. PICK k \in T : \A l \in T : k <= l
    <3> HIDE DEF T
    <3>1. T \subseteq Nat
      BY ZenonT(60) DEF T
    <3> QED
      BY ZenonT(60), <1>1, <3>1, NatMin
  <2>2. k \in Nat /\ ~ \E g : IsWalk(g, m, first, k)
    BY ZenonT(60), <2>1
  <2>3. CASE k = 0
    <3> DEFINE g == [i \in 0 .. k |-> <<>>]
    <3>1. \A i \in 0 .. k : i = 0
      BY <2>3
    <3>2. IsWalk(g, m, first, k)
      BY ZenonT(60), <3>1 DEF IsWalk
    <3> QED
      BY ZenonT(60), <2>2, <3>2
  <2>4. CASE k # 0
    <3>1. k - 1 \in Nat /\ k - 1 \notin T
      BY <2>1, <2>2, <2>4
    <3>2. PICK h : IsWalk(h, m, first, k - 1)
      BY ZenonT(60), <3>1
    <3> DEFINE g == [i \in 0 .. k |-> IF i = k THEN Walked(m, first, h[i - 1]) ELSE h[i]]
    <3>3. /\ 0 # k
          /\ \A i \in 0 .. k : i # k => i \in 0 .. (k - 1)
          /\ \A i \in 0 .. k : i # 0 => i - 1 \in 0 .. k /\ i - 1 # k
      BY <2>2, <2>4
    <3>4. ASSUME NEW i \in 0 .. k
          PROVE  g[i] = IF i = 0 THEN <<>> ELSE Walked(m, first, g[i - 1])
      <4>1. h = [e \in 0 .. (k - 1) |-> IF e = 0 THEN <<>> ELSE Walked(m, first, h[e - 1])]
        BY ZenonT(60), <3>2 DEF IsWalk
      <4>2. i # 0 => g[i - 1] = h[i - 1]
        BY ZenonT(60), <3>3
      <4>3. CASE i = k
        BY ZenonT(60), <3>3, <4>2, <4>3
      <4>4. CASE i # k
        <5>1. g[i] = h[i] /\ i \in 0 .. (k - 1)
          BY ZenonT(60), <3>3, <4>4
        <5>2. h[i] = IF i = 0 THEN <<>> ELSE Walked(m, first, h[i - 1])
          BY ZenonT(60), <4>1, <5>1
        <5> QED
          BY ZenonT(60), <4>2, <5>1, <5>2
      <4> QED
        BY ZenonT(60), <4>3, <4>4
    <3>5. g = [i \in 0 .. k |-> g[i]]
      BY ZenonT(60)
    <3> HIDE DEF g
    <3>6. IsWalk(g, m, first, k)
      <4>1. [i \in 0 .. k |-> g[i]] =
            [i \in 0 .. k |-> IF i = 0 THEN <<>> ELSE Walked(m, first, g[i - 1])]
        BY ZenonT(60), <3>4
      <4> QED
        BY ZenonT(60), <3>5, <4>1 DEF IsWalk
    <3> QED
      BY ZenonT(60), <2>2, <3>6
  <2> QED
    BY ZenonT(60), <2>3, <2>4
<1> QED
  BY ZenonT(60), <1>1

\* The walk meets the blocks of F, in order and all of them: it has more steps
\* than an increasing list of offsets can be long.
LEMMA WalkMeetsAll ==
    ASSUME NEW m \in [Offset -> Nat], NEW first, NEW F \in SUBSET Offset, Listed(m, first, F)
    PROVE  /\ ListOf(FreeList(m, first), m, first, F)
           /\ WalkEnds(m, first, FreeList(m, first))
<1> DEFINE N == MAX_BLOCKS
           walk == CHOOSE g : IsWalk(g, m, first, N)
           Done(n) == /\ Met(walk[n], m, first, F)
                      /\ Len(walk[n]) = n \/ Following(m, first, walk[n]) = NONE
           T == {n \in 0 .. N : ~ Done(n)}
<1>1. N \in Nat /\ N = ARENA + 2 /\ ARENA \in Nat
  BY Constants
<1>2. IsWalk(walk, m, first, N)
  BY ZenonT(60), <1>1, WalkExists
<1>3. FreeList(m, first) = walk[N]
  BY ZenonT(60) DEF FreeList, IsWalk, Walked
<1> HIDE DEF walk, N
<1>4. \A n \in 0 .. N : walk[n] = IF n = 0 THEN <<>> ELSE Walked(m, first, walk[n - 1])
  BY ZenonT(60), <1>2 DEF IsWalk
<1>5. ASSUME T # {} PROVE FALSE
  <2>1. PICK n \in T : \A l \in T : n <= l
    <3> HIDE DEF T
    <3>1. T \subseteq Nat
      BY <1>1 DEF T
    <3> QED
      BY ZenonT(60), <1>5, <3>1, NatMin
  <2>2. n \in 0 .. N /\ ~ Done(n)
    BY ZenonT(60), <2>1
  <2>3. CASE n = 0
    <3>1. walk[n] = <<>>
      BY ZenonT(60), <1>4, <2>2, <2>3
    <3>2. Met(<<>>, m, first, F)
      BY DEF Met
    <3>3. Done(n)
      BY ZenonT(60), <2>3, <3>1, <3>2
    <3> QED
      BY ZenonT(60), <2>2, <3>3
  <2>4. CASE n # 0
    <3>1. n - 1 \in 0 .. N /\ n - 1 \notin T /\ n - 1 + 1 = n
      BY <1>1, <2>1, <2>2, <2>4
    <3>2. Done(n - 1)
      BY ZenonT(60), <3>1
    <3>3. walk[n] = Walked(m, first, walk[n - 1])
      BY ZenonT(60), <1>4, <2>2, <2>4
    <3> DEFINE w == walk[n - 1]
               v == walk[n]
    <3>4. /\ Met(w, m, first, F)
          /\ Len(w) = n - 1 \/ Following(m, first, w) = NONE
          /\ v = Walked(m, first, w)
      BY ZenonT(60), <3>2, <3>3
    <3>5. ~ (Met(v, m, first, F) /\ (Len(v) = n \/ Following(m, first, v) = NONE))
      BY ZenonT(60), <2>2
    <3> HIDE DEF w, v, T, Done
    <3>6. CASE Following(m, first, w) = NONE
      <4>1. v = w
        BY ZenonT(60), <3>4, <3>6 DEF Walked
      <4> QED
        BY ZenonT(60), <3>4, <3>5, <3>6, <4>1
    <3>7. CASE Following(m, first, w) # NONE
      <4>1. Met(v, m, first, F) /\ Len(v) = Len(w) + 1
        BY ZenonT(60), <3>4, <3>7, WalkStep
      <4>2. Len(w) = n - 1
        BY ZenonT(60), <3>4, <3>7
      <4> QED
        BY ZenonT(60), <3>1, <3>5, <4>1, <4>2
    <3> QED
      BY ZenonT(60), <3>6, <3>7
  <2> QED
    BY ZenonT(60), <2>3, <2>4
<1> DEFINE L == walk[N]
<1>6. Met(L, m, first, F) /\ (Len(L) = N \/ Following(m, first, L) = NONE)
  <2>1. N \in 0 .. N /\ N \notin T
    BY <1>1, <1>5
  <2>2. Done(N)
    BY ZenonT(60), <2>1
  <2> QED
    BY ZenonT(60), <2>2
<1> HIDE DEF L, T, Done
<1>7. /\ Len(L) \in Nat /\ \A i \in 1 .. Len(L) : L[i] \in Nat /\ L[i] <= ARENA - 1
      /\ L = <<>> <=> Len(L) = 0
  <2>1. L \in Seq(F)
    BY ZenonT(60), <1>6 DEF Met
  <2>2. /\ Len(L) \in Nat /\ \A i \in 1 .. Len(L) : L[i] \in F
        /\ L = <<>> <=> Len(L) = 0
    BY <2>1
  <2>3. \A c \in F : c \in Nat /\ c <= ARENA - 1
    BY Constants
  <2> QED
    BY ZenonT(60), <2>2, <2>3
<1>8. Len(L) # N
  <2> SUFFICES ASSUME Len(L) = N PROVE FALSE
    BY ZenonT(60)
  <2>1. N \in 1 .. Len(L)
    BY <1>1
  <2>2. N - 1 <= L[N]
    BY ZenonT(60), <1>6, <2>1 DEF Met
  <2> QED
    BY <1>1, <1>7, <2>1, <2>2
<1>9. Following(m, first, L) = NONE
  BY ZenonT(60), <1>6, <1>8
<1>10. CASE Len(L) = 0
  <2>1. first = NONE
    BY ZenonT(60), <1>7, <1>9, <1>10 DEF Following
  <2>2. \A c \in F : FALSE
    BY <2>1, Constants DEF Listed, IsNext
  <2>3. ListOf(L, m, first, F)
    BY ZenonT(60), <1>6, <1>10, <2>1, <2>2 DEF ListOf
  <2> QED
    BY ZenonT(60), <1>3, <1>9, <2>3 DEF WalkEnds, L
<1>11. CASE Len(L) # 0
  <2> DEFINE last == L[Len(L)]
  <2>1. NextOf(m, last) = NONE /\ Len(L) \in 1 .. Len(L)
    BY <1>7, <1>9, <1>11 DEF Following
  <2>2. last \in F
    BY <1>6, <2>1 DEF Met
  <2>3. IsNext(F, last, NONE)
    BY ZenonT(60), <2>1, <2>2 DEF Listed
  <2>4. \A c \in F : c <= last
    BY <2>3, Constants DEF IsNext
  <2>5. \A c \in F : \E i \in 1 .. Len(L) : c = L[i]
    BY ZenonT(60), <1>6, <1>11, <2>4 DEF Met
  <2>6. ListOf(L, m, first, F)
    BY ZenonT(60), <1>6, <1>11, <2>1, <2>5 DEF ListOf
  <2> QED
    BY ZenonT(60), <1>3, <1>9, <2>6 DEF WalkEnds, L
<1> QED
  BY ZenonT(60), <1>10, <1>11

-----------------------------------------------------------------------------
(* What the searches find *)

\* Min picks the least.
LEMMA MinIsLeast ==
    ASSUME NEW T, T \subseteq Nat, T # {}
    PROVE  Min(T) \in T /\ \A y \in T : Min(T) <= y
<1>1. \E x \in T : \A y \in T : x <= y
  BY ZenonT(60), NatMin
<1> QED
  BY ZenonT(60), <1>1 DEF Min

\* The index the search for a place ends at.
LEMMA FitIndex ==
    ASSUME NEW m, NEW list, Len(list) \in Nat, NEW size, NEW align, NEW k, k = FirstFit(m, list, size, align)
    PROVE  \/ k \in 1 .. Len(list) /\ Fits(m, list[k], size, align)
           \/ k = 0 /\ \A i \in 1 .. Len(list) : ~ Fits(m, list[i], size, align)
<1> DEFINE I == {i \in 1 .. Len(list) : Fits(m, list[i], size, align)}
<1>1. k = IF I # {} THEN Min(I) ELSE 0
  BY ZenonT(60) DEF FirstFit, FirstIndex
<1>2. I # {} => Min(I) \in I
  <2>1. I \subseteq Nat
    OBVIOUS
  <2> QED
    BY ZenonT(60), <2>1, MinIsLeast
<1> QED
  BY ZenonT(60), <1>1, <1>2

\* The index at which a block is put into the list.
LEMMA PointIndex ==
    ASSUME NEW list, Len(list) \in Nat, \A i \in 1 .. Len(list) : list[i] \in Nat,
           NEW h \in Nat, NEW k, k = InsertionPoint(list, h)
    PROVE  /\ k \in 1 .. (Len(list) + 1)
           /\ \A i \in 1 .. (k - 1) : list[i] < h
           /\ k <= Len(list) => list[k] >= h
<1> DEFINE I == {i \in 1 .. Len(list) : list[i] >= h}
           s == FirstIndex(I)
<1>1. s = IF I # {} THEN Min(I) ELSE 0
  BY ZenonT(60) DEF FirstIndex
<1>2. I # {} => Min(I) \in I /\ \A i \in I : Min(I) <= i
  <2>1. I \subseteq Nat
    OBVIOUS
  <2> QED
    BY ZenonT(60), <2>1, MinIsLeast
<1>3. k = IF s = 0 THEN Len(list) + 1 ELSE s
  BY ZenonT(60) DEF InsertionPoint
<1> HIDE DEF s
<1>4. CASE I # {}
  <2>1. k \in I /\ \A i \in I : k <= i
    <3>1. s = Min(I)
      BY ZenonT(60), <1>1, <1>4
    <3>2. s \in I /\ \A i \in I : s <= i
      BY ZenonT(60), <3>1, <1>2, <1>4
    <3>3. s # 0
      BY <3>2
    <3> QED
      BY ZenonT(60), <3>2, <3>3, <1>3
  <2> QED
    BY <2>1
<1>5. CASE I = {}
  BY <1>1, <1>3, <1>5
<1> QED
  BY ZenonT(60), <1>4, <1>5

\* The search finds it.
LEMMA PointFacts ==
    ASSUME NEW m, NEW first, NEW F \in SUBSET Offset, NEW list, ListOf(list, m, first, F), NEW h \in Nat,
           NEW k, k = InsertionPoint(list, h)
    PROVE  Point(list, k, h, F)
<1>0. F \subseteq Nat
  BY Constants
<1>1. /\ list \in Seq(F) /\ Len(list) \in Nat
      /\ \A i, j \in 1 .. Len(list) : i < j => list[i] < list[j]
      /\ \A c \in F : \E i \in 1 .. Len(list) : c = list[i]
  BY DEF ListOf, Met
<1>2. \A i \in 1 .. Len(list) : list[i] \in F
  BY <1>1
<1>3. \A i \in 1 .. Len(list) : list[i] \in Nat
  BY ZenonT(60), <1>0, <1>2
<1>4. /\ k \in 1 .. (Len(list) + 1)
      /\ \A i \in 1 .. (k - 1) : list[i] < h
      /\ k <= Len(list) => list[k] >= h
  BY ZenonT(60), <1>1, <1>3, PointIndex
<1>5. k <= Len(list) => k \in 1 .. Len(list)
  BY <1>1, <1>4
<1>6. k > 1 => k - 1 \in 1 .. Len(list) /\ k - 1 \in 1 .. (k - 1)
  BY <1>1, <1>4
<1>7. k <= Len(list) => list[k] \in F /\ list[k] \in Nat /\ h <= list[k]
  BY ZenonT(60), <1>2, <1>3, <1>4, <1>5
<1>8. k > 1 => list[k - 1] \in F /\ list[k - 1] \in Nat /\ list[k - 1] < h
  BY ZenonT(60), <1>2, <1>3, <1>4, <1>6
<1>9. ASSUME NEW c \in F
      PROVE  \/ c < h /\ k > 1 /\ c <= list[k - 1]
             \/ h <= c /\ k <= Len(list) /\ list[k] <= c
  <2>1. PICK i \in 1 .. Len(list) : c = list[i]
    BY ZenonT(60), <1>1
  <2>2. c \in Nat
    BY ZenonT(60), <1>0
  <2>3. CASE i < k
    <3>1. k > 1 /\ i \in 1 .. (k - 1) /\ (i = k - 1 \/ i < k - 1)
      <4>1. i \in Nat /\ i >= 1 /\ k \in Nat
        BY <1>1, <1>4
      <4> QED
        BY <4>1, <2>3
    <3>2. c < h
      BY ZenonT(60), <2>1, <3>1, <1>4
    <3>3. i < k - 1 => c < list[k - 1]
      BY ZenonT(60), <2>1, <3>1, <1>1, <1>6
    <3> QED
      BY <2>1, <2>2, <3>1, <3>2, <3>3, <1>8
  <2>4. CASE k <= i
    <3>1. k <= Len(list) /\ (i = k \/ k < i)
      <4>1. i \in Nat /\ i <= Len(list) /\ Len(list) \in Nat /\ k \in Nat
        BY <1>1, <1>4
      <4> QED
        BY <4>1, <2>4
    <3>2. k < i => list[k] < c
      BY ZenonT(60), <2>1, <3>1, <1>1, <1>5
    <3> QED
      BY <2>1, <2>2, <3>1, <3>2, <1>7
  <2> QED
    BY <2>3, <2>4, <1>1, <1>4
<1>10. k > 1 => IsBefore(F, IF k - 1 = 1 THEN -1 ELSE list[k - 2], list[k - 1])
  <2> SUFFICES ASSUME k > 1
               PROVE  IsBefore(F, IF k - 1 = 1 THEN -1 ELSE list[k - 2], list[k - 1])
    BY ZenonT(60)
  <2>1. PICK j \in 1 .. Len(list) : j = k - 1 /\ j - 1 = k - 2
    BY <1>4, <1>6
  <2>2. PICK p : p = IF j = 1 THEN -1 ELSE list[j - 1]
    BY ZenonT(60)
  <2>3. IsBefore(F, p, list[j])
    BY ZenonT(60), <2>2, BeforeIndex
  <2> QED
    BY ZenonT(60), <2>1, <2>2, <2>3
<1> QED
  BY ZenonT(60), <1>1, <1>4, <1>7, <1>8, <1>9, <1>10 DEF Point

-----------------------------------------------------------------------------
(* The calls *)

\* A request that passes alloc's first test asks for something.
LEMMA AdmissibleNat ==
    ASSUME NEW size \in Sizes, NEW align \in Aligns, Admissible(size, align)
    PROVE  size \in Nat \ {0} /\ align \in Nat \ {0}
<1>1. size \in Nat /\ align \in Nat
  BY ZenonT(60), HeapAssumption
<1> QED
  BY ZenonT(60), <1>1 DEF Admissible, IsPowerOfTwo

\* A call of alloc keeps the invariant, and changes nothing when it hands out nothing.
LEMMA AllocKeeps ==
    ASSUME HeapInv, NEW size \in Sizes, NEW align \in Aligns, NEW clear \in Clears,
           Alloc(size, align, clear)
    PROVE  HeapInv' /\ (live' = live => UNCHANGED <<mem, head, stats>>)
<1>0. SUFFICES ASSUME Admissible(size, align)
               PROVE  HeapInv' /\ (live' = live => UNCHANGED <<mem, head, stats>>)
  BY ZenonT(60) DEF Alloc, HeapInv, vars
<1>1. PICK F \in SUBSET Offset : HeapHolds(mem, head, F, live)
  BY ZenonT(60) DEF HeapInv
<1>2. PICK list, k : /\ list = FreeList(mem, head) /\ k = FirstFit(mem, list, size, align)
                     /\ (k # 0 /\ AllocFrom(list, k, size, align, clear)) \/ (k = 0 /\ UNCHANGED vars)
  BY ZenonT(60), <1>0 DEF Alloc
<1>3. ListOf(list, mem, head, F)
  BY ZenonT(60), <1>1, <1>2, WalkMeetsAll DEF HeapHolds
<1>4. CASE k = 0
  BY ZenonT(60), <1>2, <1>4 DEF HeapInv, vars
<1>5. CASE k # 0
  <2>1. Len(list) \in Nat
    BY <1>3 DEF ListOf, Met
  <2>2. k \in 1 .. Len(list) /\ Fits(mem, list[k], size, align)
    BY ZenonT(60), <1>2, <1>5, <2>1, FitIndex
  <2>3. size \in Nat \ {0} /\ align \in Nat \ {0} /\ clear \in BOOLEAN
    BY ZenonT(60), <1>0, AdmissibleNat, HeapAssumption
  <2>4. HeapInv' /\ live' # live
    BY ZenonT(60), <1>1, <1>2, <1>3, <1>5, <2>2, <2>3, AllocFromKeeps
  <2> QED
    BY ZenonT(60), <2>4
<1> QED
  BY ZenonT(60), <1>4, <1>5

\* A call of dealloc keeps the invariant, and changes nothing when it ends no
\* allocation.
LEMMA DeallocKeeps ==
    ASSUME NoFreeInside, HeapInv, NEW offset \in Offset, MayFree(offset), Dealloc(offset)
    PROVE  HeapInv' /\ (live' = live => UNCHANGED <<mem, head, stats>>)
<1>1. PICK F \in SUBSET Offset : HeapHolds(mem, head, F, live)
  BY ZenonT(60) DEF HeapInv
<1>2. PICK list, k : /\ list = FreeList(mem, head) /\ k = InsertionPoint(list, offset - HEADER_SIZE)
                     /\ \/ /\ DeallocOk(list, k, offset) /\ Insert(list, k, offset - HEADER_SIZE)
                           /\ live' = {a \in live : a.at # offset}
                        \/ ~ DeallocOk(list, k, offset) /\ UNCHANGED vars
  BY ZenonT(60) DEF Dealloc
<1>3. ListOf(list, mem, head, F)
  BY ZenonT(60), <1>1, <1>2, WalkMeetsAll DEF HeapHolds
<1>4. CASE ~ DeallocOk(list, k, offset)
  BY ZenonT(60), <1>2, <1>4 DEF HeapInv, vars
<1>5. CASE DeallocOk(list, k, offset)
  <2>1. PICK a \in live : a.at = offset
    <3>1. ~ \A a \in live : offset \notin BlockOf(a)
      <4>1. \A h \in Nat : h = offset - HEADER_SIZE => Point(list, k, h, F)
        BY ZenonT(60), <1>2, <1>3, PointFacts
      <4> QED
        BY ZenonT(60), <4>1, <1>1, <1>3, <1>5, StaleIsRefused
    <3> QED
      BY ZenonT(60), <3>1 DEF MayFree, NoFreeInside
  <2>2. live' = live \ {a}
    <3>1. \A b \in live : b.at = a.at => b = a
      BY ZenonT(60), <1>1 DEF HeapHolds
    <3>2. live' = {b \in live : b.at # offset}
      BY ZenonT(60), <1>2, <1>5
    <3> QED
      BY ZenonT(60), <2>1, <3>1, <3>2
  <2>3. PICK h : h = a.at - HEADER_SIZE /\ h = offset - HEADER_SIZE
    BY ZenonT(60), <2>1
  <2>4. NoOverlap(list, k, h, EndOf(mem, h)) /\ Insert(list, k, h)
    BY ZenonT(60), <2>3, <1>2, <1>5 DEF DeallocOk
  <2>5. Point(list, k, h, F)
    <3>1. h \in Nat
      BY <1>1, <2>3, Constants DEF HeapHolds, AllocatedBlock
    <3> QED
      BY ZenonT(60), <3>1, <2>3, <1>2, <1>3, PointFacts
  <2>6. HeapInv'
    BY ZenonT(60), <2>2, <2>3, <2>4, <2>5, <1>1, <1>3, InsertKeeps
  <2>7. live' # live
    BY ZenonT(60), <2>2
  <2> QED
    BY ZenonT(60), <2>6, <2>7
<1> QED
  BY ZenonT(60), <1>4, <1>5

-----------------------------------------------------------------------------
(* The theorems *)

\* What a step keeps: PTL takes the hypothesis as part of the invariant.
HeapAlways == NoFreeInside /\ HeapInv

\* Every step keeps the invariant, and one that begins or ends no allocation
\* changes nothing.
LEMMA HeapNext ==
    HeapAlways /\ [Next]_vars => HeapAlways' /\ (live' = live => UNCHANGED <<mem, head, stats>>)
<1> SUFFICES ASSUME HeapAlways, [Next]_vars
             PROVE  HeapInv' /\ (live' = live => UNCHANGED <<mem, head, stats>>)
  BY ZenonT(60) DEF HeapAlways, NoFreeInside
<1>1. CASE UNCHANGED vars
  BY ZenonT(60), <1>1 DEF HeapAlways, HeapInv, vars
<1>2. ASSUME NEW size \in Sizes, NEW align \in Aligns, NEW clear \in Clears, Alloc(size, align, clear)
      PROVE  HeapInv' /\ (live' = live => UNCHANGED <<mem, head, stats>>)
  BY ZenonT(60), <1>2, AllocKeeps DEF HeapAlways
<1>3. ASSUME NEW offset \in Offset, MayFree(offset), Dealloc(offset)
      PROVE  HeapInv' /\ (live' = live => UNCHANGED <<mem, head, stats>>)
  BY ZenonT(60), <1>3, DeallocKeeps DEF HeapAlways
<1> QED
  BY ZenonT(60), <1>1, <1>2, <1>3 DEF Next

\* In every behaviour the free blocks and the allocations tile the arena and the
\* list leads through the free ones.
THEOREM HeapInvariance ==
    NoFreeInside /\ Spec => []HeapAlways
<1>1. NoFreeInside /\ Init => HeapAlways
  BY ZenonT(60), HeapInvInit DEF HeapAlways
<1>2. HeapAlways /\ [Next]_vars => HeapAlways'
  BY ZenonT(60), HeapNext
<1> QED
  BY <1>1, <1>2, PTL DEF Spec

\* A free that ends no allocation is refused (dealloc's guards, heap.rs), and an
\* allocation that is refused changes nothing either.
THEOREM RefusalsChangeNothing ==
    NoFreeInside /\ Spec => BadFreesAreRefused
<1>1. HeapAlways /\ [Next]_vars => [live' = live => UNCHANGED <<mem, head, stats>>]_vars
  BY ZenonT(60), HeapNext
<1> QED
  BY <1>1, HeapInvariance, PTL DEF Spec, BadFreesAreRefused

\* One-to-one means as many.
LEMMA AsMany ==
    ASSUME NEW S, IsFiniteSet(S), NEW T, NEW f \in [S -> T],
           \A x, y \in S : f[x] = f[y] => x = y,
           \A t \in T : \E x \in S : f[x] = t
    PROVE  IsFiniteSet(T) /\ Cardinality(T) = Cardinality(S)
<1>1. f \in Bijection(S, T)
  BY ZenonT(60) DEF Bijection, Injection, Surjection, IsInjective
<1>2. ExistsBijection(S, T)
  BY ZenonT(60), <1>1 DEF ExistsBijection
<1> QED
  BY ZenonT(60), <1>2, FS_Bijection

\* The list has as many members as there are free blocks, and there are as many
\* headers as allocations.
LEMMA BlockCount ==
    ASSUME NEW m, NEW first, NEW F, NEW A, HeapHolds(m, first, F, A),
           NEW list, ListOf(list, m, first, F)
    PROVE  Cardinality(Extents(m, F \cup Headers(A))) = Len(list) + Cardinality(A)
<1>1. /\ list \in Seq(F) /\ Len(list) \in Nat
      /\ \A i, j \in 1 .. Len(list) : i < j => list[i] < list[j]
      /\ \A c \in F : \E i \in 1 .. Len(list) : c = list[i]
  <2>1. list \in Seq(F)
    BY ZenonT(60) DEF ListOf, Met
  <2>2. Len(list) \in Nat
    BY <2>1
  <2> QED
    BY ZenonT(60), <2>1, <2>2 DEF ListOf, Met
<1>2. IsFiniteSet(F) /\ Cardinality(F) = Len(list)
  <2>1. IsFiniteSet(1 .. Len(list)) /\ Cardinality(1 .. Len(list)) = Len(list)
    <3>1. PICK n \in Nat : n = Len(list)
      BY ZenonT(60), <1>1
    <3>2. IsFiniteSet(1 .. n) /\ Cardinality(1 .. n) = IF 1 > n THEN 0 ELSE n - 1 + 1
      BY FS_Interval
    <3>3. (IF 1 > n THEN 0 ELSE n - 1 + 1) = n
      OBVIOUS
    <3> QED
      BY ZenonT(60), <3>1, <3>2, <3>3
  <2>2. list \in [1 .. Len(list) -> F]
    BY <1>1
  <2>3. ASSUME NEW i \in 1 .. Len(list), NEW j \in 1 .. Len(list), list[i] = list[j]
        PROVE  i = j
    <3>1. \A l \in 1 .. Len(list) : list[l] \in Nat
      <4>1. F \subseteq Nat
        BY Constants DEF HeapHolds
      <4> QED
        BY ZenonT(60), <4>1, <2>2
    <3>2. ~ (list[i] < list[j]) /\ ~ (list[j] < list[i])
      BY <3>1, <2>3
    <3>3. ~ (i < j) /\ ~ (j < i)
      BY ZenonT(60), <3>2, <1>1
    <3> QED
      BY <3>3, <1>1
  <2> QED
    BY <2>1, <2>2, <2>3, <1>1, AsMany
<1>3. IsFiniteSet(Headers(A)) /\ Cardinality(Headers(A)) = Cardinality(A)
  <2>1. A \subseteq [at : Nat, size : Nat \ {0}] /\ \A a, b \in A : a.at = b.at => a = b
    BY ZenonT(60) DEF HeapHolds
  <2>f. IsFiniteSet(A)
    <3> DEFINE g == [a \in A |-> a.at]
    <3>1. IsFiniteSet(0 .. ARENA)
      BY Constants, FS_Interval
    <3>2. g \in [A -> 0 .. ARENA]
      BY <2>1, Constants DEF HeapHolds, AllocatedBlock
    <3>3. \A a, b \in A : g[a] = g[b] => a = b
      BY ZenonT(60), <2>1
    <3>4. g \in Injection(A, 0 .. ARENA)
      BY ZenonT(60), <3>2, <3>3 DEF Injection, IsInjective
    <3> HIDE DEF g
    <3> QED
      BY ZenonT(60), <3>1, <3>4, FS_Injection
  <2> DEFINE f == [a \in A |-> a.at - HEADER_SIZE]
  <2>2. f \in [A -> Headers(A)] /\ \A t \in Headers(A) : \E a \in A : f[a] = t
    BY ZenonT(60) DEF Headers
  <2>3. ASSUME NEW a \in A, NEW b \in A, f[a] = f[b]
        PROVE  a = b
    <3>1. a.at \in Nat /\ b.at \in Nat /\ a.at - HEADER_SIZE = b.at - HEADER_SIZE
      BY ZenonT(60), <2>1, <2>3
    <3>2. a.at = b.at
      BY <3>1, Constants
    <3> QED
      BY ZenonT(60), <3>2, <2>1
  <2> HIDE DEF f
  <2> QED
    BY ZenonT(60), <2>f, <2>2, <2>3, AsMany
<1>4. F \cap Headers(A) = {}
  <2>1. \A c \in F : MagicOf(m, c) = MAGIC_FREE
    BY ZenonT(60) DEF HeapHolds, Listed, FreeBlock
  <2>2. \A c \in Headers(A) : MagicOf(m, c) = MAGIC_ALLOC
    BY ZenonT(60) DEF HeapHolds, AllocatedBlock, Headers
  <2> QED
    BY <2>1, <2>2, Constants
<1>5. /\ IsFiniteSet(F \cup Headers(A))
      /\ Cardinality(F \cup Headers(A)) = Len(list) + Cardinality(A)
  <2>1. Cardinality(F \cap Headers(A)) = 0
    BY ZenonT(60), <1>4, FS_EmptySet
  <2>2. Cardinality(A) \in Nat
    BY ZenonT(60), <1>3, FS_CardinalityType
  <2> QED
    <3>1. /\ IsFiniteSet(F \cup Headers(A))
          /\ Cardinality(F \cup Headers(A)) =
                Cardinality(F) + Cardinality(Headers(A)) - Cardinality(F \cap Headers(A))
      BY ZenonT(60), <1>2, <1>3, FS_Union
    <3>2. Len(list) + (Cardinality(A) - 0) = Len(list) + Cardinality(A)
      BY <1>1, <2>2
    <3> QED
      <4>1. /\ Cardinality(F) = Len(list) /\ Cardinality(Headers(A)) = Cardinality(A)
            /\ Cardinality(F \cap Headers(A)) = 0
        BY ZenonT(60), <1>2, <1>3, <2>1
      <4>2. Cardinality(F \cup Headers(A)) = Len(list) + (Cardinality(A) - 0)
        BY ZenonT(60), <3>1, <4>1
      <4> QED
        BY ZenonT(60), <3>1, <3>2, <4>2
<1>6. Cardinality(Extents(m, F \cup Headers(A))) = Cardinality(F \cup Headers(A))
  <2> DEFINE f == [b \in F \cup Headers(A) |-> <<b, EndOf(m, b)>>]
  <2>1. /\ f \in [F \cup Headers(A) -> Extents(m, F \cup Headers(A))]
        /\ \A t \in Extents(m, F \cup Headers(A)) : \E b \in F \cup Headers(A) : f[b] = t
    BY ZenonT(60) DEF Extents
  <2>2. \A b, c \in F \cup Headers(A) : f[b] = f[c] => b = c
    BY ZenonT(60)
  <2> HIDE DEF f
  <2> QED
    BY ZenonT(60), <2>1, <2>2, <1>5, AsMany
<1> QED
  BY ZenonT(60), <1>5, <1>6

\* The list is the walk, and the free blocks are its members.
LEMMA ListFacts ==
    ASSUME NEW F \in SUBSET Offset, HeapHolds(mem, head, F, live), NEW list, list = FreeList(mem, head)
    PROVE  /\ ListOf(list, mem, head, F) /\ WalkEnds(mem, head, list)
           /\ list \in Seq(F) /\ Len(list) \in Nat /\ Range(list) = F
<1>1. ListOf(list, mem, head, F) /\ WalkEnds(mem, head, list)
  BY ZenonT(60), WalkMeetsAll DEF HeapHolds
<1>2. list \in Seq(F) /\ Len(list) \in Nat /\ \A c \in F : \E i \in 1 .. Len(list) : c = list[i]
  BY <1>1 DEF ListOf, Met
<1>3. Range(list) = F
  BY <1>2 DEF Range
<1> QED
  BY ZenonT(60), <1>1, <1>2, <1>3

\* Every word of the arena is in exactly one free block or one allocation, the walk
\* of the list reaches its end, and an allocation has room for what was asked,
\* whatever callers ask for and free (alloc and dealloc, heap.rs).
THEOREM ArenaIsTiled ==
    NoFreeInside /\ Spec => []BlocksTileTheArena
<1>1. HeapAlways => BlocksTileTheArena
  <2> SUFFICES ASSUME HeapInv
               PROVE  BlocksTileTheArena
    BY ZenonT(60) DEF HeapAlways
  <2>1. PICK F \in SUBSET Offset : HeapHolds(mem, head, F, live)
    BY ZenonT(60) DEF HeapInv
  <2>2. PICK list : list = FreeList(mem, head)
    BY ZenonT(60)
  <2>3. ListOf(list, mem, head, F) /\ WalkEnds(mem, head, list) /\ Range(list) = F
    BY ZenonT(60), <2>1, <2>2, ListFacts
  <2>4. PICK T : T = Extents(mem, F \cup Headers(live))
    BY ZenonT(60)
  <2>5. Cardinality(T) = Len(list) + Cardinality(live)
    <3>1. Cardinality(Extents(mem, F \cup Headers(live))) = Len(list) + Cardinality(live)
      BY <2>1, <2>3, BlockCount
    <3> QED
      BY ZenonT(60), <2>4, <3>1
  <2>6. ASSUME NEW word \in Offset
        PROVE  Cardinality({b \in T : b[1] <= word /\ word < b[2]}) = 1
    <3>1. PICK b \in F \cup Headers(live) : b <= word /\ word < EndOf(mem, b)
      BY ZenonT(60), <2>1 DEF HeapHolds, Tiled
    <3>2. \A c \in F \cup Headers(live) : c \in Nat /\ EndOf(mem, c) \in Nat
      BY ZenonT(60), <2>1, BlockFacts DEF Blocks
    <3>3. \A c \in F \cup Headers(live) : c <= word /\ word < EndOf(mem, c) => c = b
      <4>1. \A c, d \in F \cup Headers(live) : c < d => EndOf(mem, c) <= d
        BY ZenonT(60), <2>1 DEF HeapHolds, Tiled
      <4>2. word \in Nat
        BY Constants
      <4> QED
        BY <3>1, <3>2, <4>1, <4>2
    <3>4. {c \in T : c[1] <= word /\ word < c[2]} = {<<b, EndOf(mem, b)>>}
      BY <3>1, <3>3, <2>4 DEF Extents
    <3> QED
      BY ZenonT(60), <3>4, FS_Singleton
  <2>7. \A a \in live : /\ MagicOf(mem, a.at - HEADER_SIZE) = MAGIC_ALLOC
                        /\ a.at + a.size <= EndOf(mem, a.at - HEADER_SIZE)
    BY ZenonT(60), <2>1 DEF HeapHolds, AllocatedBlock
  <2>8. T = {<<block, EndOf(mem, block)>> : block \in Range(list) \cup {a.at - HEADER_SIZE : a \in live}}
    BY ZenonT(60), <2>3, <2>4 DEF Extents, Headers
  <2> QED
    BY <2>2, <2>3, <2>5, <2>6, <2>7, <2>8 DEF BlocksTileTheArena
<1> QED
  BY <1>1, HeapInvariance, PTL

\* The list is in address order and no two free blocks touch: every merge that can
\* be made has been (dealloc, heap.rs).
THEOREM ListStaysMerged ==
    NoFreeInside /\ Spec => []ListIsSortedAndMerged
<1>1. HeapAlways => ListIsSortedAndMerged
  <2> SUFFICES ASSUME HeapInv
               PROVE  ListIsSortedAndMerged
    BY ZenonT(60) DEF HeapAlways
  <2>1. PICK F \in SUBSET Offset : HeapHolds(mem, head, F, live)
    BY ZenonT(60) DEF HeapInv
  <2>2. PICK list : list = FreeList(mem, head)
    BY ZenonT(60)
  <2>3. /\ list \in Seq(F) /\ Len(list) \in Nat
        /\ \A i, j \in 1 .. Len(list) : i < j => list[i] < list[j]
    BY ZenonT(60), <2>1, <2>2, ListFacts DEF ListOf, Met
  <2>4. ASSUME NEW i \in 1 .. (Len(list) - 1)
        PROVE  EndOf(mem, list[i]) < list[i + 1]
    <3>1. i \in 1 .. Len(list) /\ i + 1 \in 1 .. Len(list) /\ i < i + 1
      BY <2>3
    <3>2. list[i] \in F /\ list[i + 1] \in F /\ list[i] < list[i + 1]
      BY <3>1, <2>3
    <3> QED
      BY ZenonT(60), <3>2, <2>1 DEF HeapHolds, Listed
  <2> QED
    BY ZenonT(60), <2>2, <2>4 DEF ListIsSortedAndMerged
<1> QED
  BY <1>1, HeapInvariance, PTL

\* alloc refuses an admissible request only when no free block has a place for it: the place it
\* tries in each, the payload rounded up and once more when the gap is too small,
\* is the first there is (alloc, heap.rs).
THEOREM RefusedForLackOfRoom ==
    NoFreeInside /\ Spec => []RefusedMeansNoRoom
<1>1. HeapAlways => RefusedMeansNoRoom
  <2> SUFFICES ASSUME HeapInv
               PROVE  RefusedMeansNoRoom
    BY ZenonT(60) DEF HeapAlways
  <2>1. PICK F \in SUBSET Offset : HeapHolds(mem, head, F, live)
    BY ZenonT(60) DEF HeapInv
  <2>2. PICK list : list = FreeList(mem, head)
    BY ZenonT(60)
  <2>3. list \in Seq(F) /\ Len(list) \in Nat
    BY ZenonT(60), <2>1, <2>2, ListFacts
  <2>4. ASSUME NEW size \in Sizes, NEW align \in Aligns, Admissible(size, align),
               FirstFit(mem, list, size, align) = 0,
               NEW i \in DOMAIN list, NEW payload \in Offset,
               payload % align = 0, payload + size <= EndOf(mem, list[i]),
               ~ (payload - HEADER_SIZE # list[i] /\ payload - HEADER_SIZE < list[i] + MIN_BLOCK)
        PROVE  FALSE
    <3>1. size \in Nat /\ align \in Nat \ {0} /\ payload \in Nat /\ Multiple(payload, align)
      <4>1. size \in Nat /\ align \in Nat \ {0}
        BY ZenonT(60), <2>4, AdmissibleNat
      <4> QED
        BY <2>4, <4>1, Constants DEF Multiple
    <3>2. PICK b \in F : b = list[i]
      BY <2>3
    <3>3. b \in Nat /\ EndOf(mem, b) \in Nat
      BY ZenonT(60), <2>1, BlockFacts DEF Blocks
    <3>4. payload = b + 3 \/ payload >= b + 8
      <4>1. HEADER_SIZE = 3 /\ MIN_BLOCK = 5
        BY ZenonT(60), Constants
      <4>2. ~ (payload - 3 # b /\ payload - 3 < b + 5)
        BY ZenonT(60), <2>4, <3>2, <4>1
      <4> QED
        BY <3>1, <3>3, <4>2
    <3>5. PICK y \in Nat : y = Payload(b, align) /\ y <= payload
      BY ZenonT(60), <3>1, <3>3, <3>4, PayloadPlace
    <3>6. y + size <= EndOf(mem, b)
      BY <2>4, <3>1, <3>2, <3>3, <3>5
    <3>7. Fits(mem, list[i], size, align)
      BY ZenonT(60), <3>2, <3>5, <3>6 DEF Fits
    <3>8. i \in 1 .. Len(list)
      BY <2>3
    <3> QED
      BY <2>3, <2>4, <3>7, <3>8, FitIndex
  <2>5. \A size \in Sizes, align \in Aligns :
            Admissible(size, align) /\ FirstFit(mem, list, size, align) = 0 =>
                \A i \in DOMAIN list, payload \in Offset :
                    \/ payload % align # 0
                    \/ payload + size > EndOf(mem, list[i])
                    \/ payload - HEADER_SIZE # list[i]
                       /\ payload - HEADER_SIZE < list[i] + MIN_BLOCK
    <3> SUFFICES ASSUME NEW size \in Sizes, NEW align \in Aligns, Admissible(size, align),
                        FirstFit(mem, list, size, align) = 0,
                        NEW i \in DOMAIN list, NEW payload \in Offset,
                        payload % align = 0, ~ (payload + size > EndOf(mem, list[i])),
                        ~ (payload - HEADER_SIZE # list[i] /\ payload - HEADER_SIZE < list[i] + MIN_BLOCK)
                 PROVE  FALSE
      BY ZenonT(60)
    <3>1. size \in Nat /\ payload \in Nat
      BY HeapAssumption, Constants
    <3>2. list[i] \in F
      BY <2>3
    <3>3. EndOf(mem, list[i]) \in Nat
      BY ZenonT(60), <3>2, <2>1, BlockFacts DEF Blocks
    <3>4. payload + size <= EndOf(mem, list[i])
      BY <3>1, <3>3
    <3> QED
      BY ZenonT(60), <3>4, <2>4
  <2> QED
    BY ZenonT(60), <2>2, <2>5 DEF RefusedMeansNoRoom
<1> QED
  BY <1>1, HeapInvariance, PTL

=============================================================================
