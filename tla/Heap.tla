-------------------------------- MODULE Heap --------------------------------
(***************************************************************************)
(* The kernel heap (crates/kernel-memory/heap.rs, behind the global        *)
(* allocator's lock in crates/kernel/heap.rs): a first-fit free list in    *)
(* address order whose headers live in the arena itself.  Addresses and    *)
(* sizes are counted in words of 8 bytes, HEADER_ALIGN: block boundaries   *)
(* are multiples of it, so a request matters only rounded up to it.        *)
(***************************************************************************)
EXTENDS Integers, Sequences, FiniteSetsExt

CONSTANTS
    ARENA,      \* words in the arena
    Sizes,      \* requested sizes
    Aligns,     \* requested alignments
    MAX_ALIGN,  \* the largest alignment alloc supports
    Clears,     \* TRUE \in Clears: a caller may write all of its payload;
                \* FALSE \in Clears: it may leave it as it is
    FREE_INSIDE \* a stale pointer may be freed after its memory was handed out again

HEADER_SIZE == 3
MIN_PAYLOAD == 2
MIN_BLOCK == HEADER_SIZE + MIN_PAYLOAD

ASSUME HeapAssumption ==
    /\ ARENA \in Nat /\ ARENA >= MIN_BLOCK
    /\ Sizes \subseteq Nat
    /\ Aligns \subseteq Nat
    /\ MAX_ALIGN \in Nat
    /\ Clears \subseteq BOOLEAN
    /\ FREE_INSIDE \in BOOLEAN

\* Words no size or offset is equal to.
MAGIC_FREE == ARENA + 1
MAGIC_ALLOC == ARENA + 2
NONE == ARENA + 3

VARIABLES
    mem,   \* the words of the arena
    head,  \* first free block, or NONE
    stats, \* free_blocks, free_bytes and largest_free
    live   \* what callers hold: payload offset and requested size

vars == <<mem, head, stats, live>>

Offset == 0 .. (ARENA - 1)

MagicOf(m, block) == m[block]
SizeOf(m, block) == m[block + 1]
NextOf(m, block) == m[block + 2]
EndOf(m, block) == block + SizeOf(m, block)

WriteHeader(m, block, magic, size, next) ==
    [m EXCEPT ![block] = magic, ![block + 1] = size, ![block + 2] = next]

AlignUp(value, align) == ((value + align - 1) \div align) * align

-----------------------------------------------------------------------------
(* Walking the list *)

\* max_blocks: no walk goes further, whatever the links say.
MAX_BLOCKS == ARENA + 2

\* What every walk tests before it goes on past a block.
Sound(m, block) ==
    /\ block + HEADER_SIZE <= ARENA
    /\ MagicOf(m, block) = MAGIC_FREE
    /\ SizeOf(m, block) >= HEADER_SIZE
    /\ EndOf(m, block) <= ARENA

\* The free blocks a walk meets, up to the end or the first unsound one.
Following(m, first, seen) == IF seen = <<>> THEN first ELSE NextOf(m, seen[Len(seen)])

FreeList(m, first) ==
    LET walk[n \in 0 .. MAX_BLOCKS] ==
            IF n = 0
            THEN <<>>
            ELSE LET seen == walk[n - 1]
                     block == Following(m, first, seen)
                 IN  IF block # NONE /\ Sound(m, block) THEN Append(seen, block) ELSE seen
    IN  walk[MAX_BLOCKS]

\* The walk reached the end of the list.
WalkEnds(m, first, list) == Following(m, first, list) = NONE

\* Mutated form: the payload of a free block counted with its header.
PayloadWithHeader(m, block) == SizeOf(m, block)

PayloadOf(m, block) == SizeOf(m, block) - HEADER_SIZE

\* recompute.
Recompute(m, first) ==
    LET list == FreeList(m, first)
        payload == [i \in DOMAIN list |-> PayloadOf(m, list[i])]
    IN  [blocks |-> Len(list),
         bytes |-> FoldFunction(LAMBDA a, b : a + b, 0, payload),
         largest |-> FoldFunction(LAMBDA a, b : IF a > b THEN a ELSE b, 0, payload)]

-----------------------------------------------------------------------------
(* init *)

Init ==
    /\ mem = WriteHeader([word \in Offset |-> 0], 0, MAGIC_FREE, ARENA, NONE)
    /\ head = 0
    /\ stats = [blocks |-> 1, bytes |-> ARENA - HEADER_SIZE, largest |-> ARENA - HEADER_SIZE]
    /\ live = {}

-----------------------------------------------------------------------------
(* alloc *)

\* Where the payload goes in a free block: the gap before its header is empty
\* or a block of its own.
Payload(block, align) ==
    LET payloadMin == block + HEADER_SIZE
        payload == AlignUp(payloadMin, align)
    IN  IF payload = payloadMin \/ payload - payloadMin >= MIN_BLOCK
        THEN payload
        ELSE AlignUp(payloadMin + MIN_BLOCK, align)

\* Mutated form: an exact fit is refused.
FitsStrictly(m, block, size, align) == Payload(block, align) + size < EndOf(m, block)

Fits(m, block, size, align) == Payload(block, align) + size <= EndOf(m, block)

\* Where a walk of the list stops that looks for one of these indices, 0 when there
\* is none.
FirstIndex(passing) == IF passing # {} THEN Min(passing) ELSE 0

\* Index of the first block that fits.
FirstFit(m, list, size, align) ==
    FirstIndex({i \in 1 .. Len(list) : Fits(m, list[i], size, align)})

\* Mutated form: a tail too small to stand alone goes to nobody.
AllocEndExact(tailStart, end) == tailStart

\* A tail too small to stand alone goes to the allocation.
AllocEnd(tailStart, end) == IF end - tailStart >= MIN_BLOCK THEN tailStart ELSE end

\* The block is split into a front gap, the allocation and a tail.
AllocFrom(list, k, size, align, clear) ==
    LET block == list[k]
        next == NextOf(mem, block)
        end == EndOf(mem, block)
        payload == Payload(block, align)
        header == payload - HEADER_SIZE
        gap == header - block
        tailStart == payload + size
        hasTail == end - tailStart >= MIN_BLOCK
        allocEnd == AllocEnd(tailStart, end)
        afterGap == IF hasTail THEN tailStart ELSE next
        first == IF gap > 0 THEN block ELSE afterGap
        written == WriteHeader(mem, header, MAGIC_ALLOC, allocEnd - header, NONE)
        withTail == IF hasTail
                    THEN WriteHeader(written, tailStart, MAGIC_FREE, end - tailStart, next)
                    ELSE written
        withGap == IF gap > 0
                   THEN WriteHeader(withTail, block, MAGIC_FREE, gap, afterGap)
                   ELSE withTail
        linked == IF k = 1 THEN withGap ELSE [withGap EXCEPT ![list[k - 1] + 2] = first]
    IN  /\ head' = IF k = 1 THEN first ELSE head
        /\ stats' = Recompute(linked, head')
        /\ mem' = [word \in Offset |->
                      IF clear /\ word \in payload .. (payload + size - 1)
                      THEN 0
                      ELSE linked[word]]
        /\ live' = live \cup {[at |-> payload, size |-> size]}

\* is_power_of_two: every divisor but 1 is even.
IsPowerOfTwo(n) == n # 0 /\ \A d \in 1 .. n : n % d = 0 => d = 1 \/ d % 2 = 0

\* Requests that alloc looks for a place for.
Admissible(size, align) == size # 0 /\ IsPowerOfTwo(align) /\ align <= MAX_ALIGN

Alloc(size, align, clear) ==
    \/ ~ Admissible(size, align) /\ UNCHANGED vars
    \/ /\ Admissible(size, align)
       /\ \E list \in {FreeList(mem, head)} :
             \E k \in {FirstFit(mem, list, size, align)} :
                \/ k # 0 /\ AllocFrom(list, k, size, align, clear)
                \/ k = 0 /\ UNCHANGED vars

-----------------------------------------------------------------------------
(* dealloc *)

\* The header before the pointer looks like that of an allocation.
LooksAllocated(offset) ==
    /\ offset >= HEADER_SIZE /\ offset < ARENA
    /\ MagicOf(mem, offset - HEADER_SIZE) = MAGIC_ALLOC
    /\ SizeOf(mem, offset - HEADER_SIZE) >= HEADER_SIZE
    /\ EndOf(mem, offset - HEADER_SIZE) <= ARENA

\* Index of the first free block at or above the header.
InsertionPoint(list, header) ==
    LET above == FirstIndex({i \in 1 .. Len(list) : list[i] >= header})
    IN  IF above = 0 THEN Len(list) + 1 ELSE above

\* Mutated form: the header's magic is the only guard.
OverlapUnchecked(list, k, header, end) == TRUE

\* No free block up to the insertion point overlaps the one being freed.
NoOverlap(list, k, header, end) ==
    /\ \A i \in 1 .. (k - 1) : EndOf(mem, list[i]) <= header
    /\ k <= Len(list) => list[k] >= end

DeallocOk(list, k, offset) ==
    /\ LooksAllocated(offset)
    /\ k <= Len(list) \/ WalkEnds(mem, head, list)
    /\ NoOverlap(list, k, offset - HEADER_SIZE, EndOf(mem, offset - HEADER_SIZE))

\* Mutated form: a block is merged only with the one after it.
NeverJoinsPrevious(list, k, header) == FALSE

JoinsPrevious(list, k, header) == k > 1 /\ EndOf(mem, list[k - 1]) = header

\* The block is merged with its free neighbours and linked in address order.
Insert(list, k, header) ==
    LET end == EndOf(mem, header)
        joinsNext == k <= Len(list) /\ list[k] = end
        joinsPrevious == JoinsPrevious(list, k, header)
        start == IF joinsPrevious THEN list[k - 1] ELSE header
        newEnd == IF joinsNext THEN EndOf(mem, list[k]) ELSE end
        next == IF joinsNext THEN NextOf(mem, list[k])
                ELSE IF k <= Len(list) THEN list[k] ELSE NONE
        before == IF joinsPrevious THEN k - 2 ELSE k - 1
        freed == WriteHeader(mem, start, MAGIC_FREE, newEnd - start, next)
    IN  /\ head' = IF before = 0 THEN start ELSE head
        /\ mem' = IF before = 0 THEN freed ELSE [freed EXCEPT ![list[before] + 2] = start]
        /\ stats' = Recompute(mem', head')

\* A refused call changes nothing; the caller is not told.
Dealloc(offset) ==
    \E list \in {FreeList(mem, head)} :
        \E k \in {InsertionPoint(list, offset - HEADER_SIZE)} :
            \/ /\ DeallocOk(list, k, offset)
               /\ Insert(list, k, offset - HEADER_SIZE)
               /\ live' = {a \in live : a.at # offset}
            \/ /\ ~ DeallocOk(list, k, offset)
               /\ UNCHANGED vars

\* The block of an allocation, from its header to its end.
BlockOf(a) == {word \in Offset : a.at - HEADER_SIZE <= word /\ word < EndOf(mem, a.at - HEADER_SIZE)}

\* Callers free what they hold, or free a pointer again.
MayFree(offset) ==
    \/ \E a \in live : a.at = offset
    \/ FREE_INSIDE
    \/ \A a \in live : offset \notin BlockOf(a)

Next ==
    \/ \E size \in Sizes, align \in Aligns, clear \in Clears : Alloc(size, align, clear)
    \/ \E offset \in Offset : MayFree(offset) /\ Dealloc(offset)

Spec == Init /\ [][Next]_vars

-----------------------------------------------------------------------------
(* Properties *)

\* Every word of the arena is in exactly one free block or one allocation: no
\* two callers share memory, no split or merge loses or doubles a word, the walk
\* of the list never stops early, and an allocation has room for what was asked.
BlocksTileTheArena ==
    \E list \in {FreeList(mem, head)} :
        LET frees == Range(list)
            blocks == {<<block, EndOf(mem, block)>> : block \in frees \cup {a.at - HEADER_SIZE : a \in live}}
        IN  /\ WalkEnds(mem, head, list)
            /\ Cardinality(blocks) = Len(list) + Cardinality(live)
            /\ \A word \in Offset :
                  Cardinality({b \in blocks : b[1] <= word /\ word < b[2]}) = 1
            /\ \A a \in live : /\ MagicOf(mem, a.at - HEADER_SIZE) = MAGIC_ALLOC
                               /\ a.at + a.size <= EndOf(mem, a.at - HEADER_SIZE)

\* The list is in address order and no two free blocks touch, so when all is
\* freed, in any order, one block is left: what the boot self-check asserts.
ListIsSortedAndMerged ==
    \E list \in {FreeList(mem, head)} :
        \A i \in 1 .. (Len(list) - 1) : EndOf(mem, list[i]) < list[i + 1]

\* The statistics account for the arena: what is not free payload is headers of
\* free blocks and allocations.
StatsAccountForTheArena ==
    /\ stats.bytes + HEADER_SIZE * stats.blocks
          + Cardinality(UNION {BlockOf(a) : a \in live}) = ARENA
    /\ \E a \in 0 .. stats.bytes : stats.largest + a = stats.bytes

\* alloc refuses an admissible request only when no free block has an aligned
\* place for it with an empty gap before the header or one that can be a block.
RefusedMeansNoRoom ==
    \E list \in {FreeList(mem, head)} :
        \A size \in Sizes, align \in Aligns :
            Admissible(size, align) /\ FirstFit(mem, list, size, align) = 0 =>
                \A i \in DOMAIN list, payload \in Offset :
                    \/ payload % align # 0
                    \/ payload + size > EndOf(mem, list[i])
                    \/ payload - HEADER_SIZE # list[i]
                       /\ payload - HEADER_SIZE < list[i] + MIN_BLOCK

\* A free that ends no allocation is refused: it leaves the heap as it is.
BadFreesAreRefused == [][live' = live => UNCHANGED <<mem, head, stats>>]_vars

=============================================================================
