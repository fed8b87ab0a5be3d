------------------------------- MODULE Paging -------------------------------
(***************************************************************************)
(* Page tables: the identity map of crates/kernel-memory/paging.rs, the    *)
(* user region that user_map.rs adds under the same root, and the walk the *)
(* CPU makes.  All tables live in one arena of pages; a table is named by  *)
(* its page number in the arena, and an entry points at such a number or,  *)
(* when it is a leaf, at a physical page.                                  *)
(***************************************************************************)
EXTENDS MemoryMap

CONSTANTS
    ENTRIES,           \* entries of a table, of every level (512 in the code)
    PD_COUNT,          \* third-level tables of the identity map (4)
    FINE_BLOCKS,       \* 2 MiB blocks at the bottom mapped page by page (1)
    USER_TABLE_PAGES   \* arena pages kept for the user region (4)

ASSUME PagingAssumption ==
    /\ ENTRIES \in Nat \ {0, 1}
    /\ PD_COUNT \in 1 .. (ENTRIES - 1)
    /\ FINE_BLOCKS \in 1 .. ENTRIES
    /\ USER_TABLE_PAGES \in Nat

BLOCK_SIZE == ENTRIES
PD_COVERAGE == ENTRIES * BLOCK_SIZE
MAX_IDENTITY == PD_COUNT * PD_COVERAGE

\* The user region starts where the identity map can reach no further.
USER_BASE == MAX_IDENTITY
USER_MAX == PD_COVERAGE

\* tables_needed: PML4, PDPT, the PDs and the low PTs, in this order.
KERNEL_TABLE_PAGES == 2 + PD_COUNT + FINE_BLOCKS
ARENA_PAGES == KERNEL_TABLE_PAGES + USER_TABLE_PAGES

Table == 0 .. (ARENA_PAGES - 1)
Index == 0 .. (ENTRIES - 1)

PML4 == 0
PDPT == 1
Pd(i) == 2 + i
Pt(i) == 2 + PD_COUNT + i

NotPresent == [present |-> FALSE, leaf |-> FALSE, to |-> 0, writable |-> FALSE, user |-> FALSE]
Pointer(table) == [present |-> TRUE, leaf |-> FALSE, to |-> table, writable |-> TRUE, user |-> FALSE]
Leaf(page) == [present |-> TRUE, leaf |-> TRUE, to |-> page, writable |-> TRUE, user |-> FALSE]

-----------------------------------------------------------------------------
(* The identity map *)

\* `limit` of the result: a page of a PT is mapped only below it, a block as a
\* whole if it begins below it.
IdentityLimit(map) ==
    IF RamTop(map) < MAX_IDENTITY THEN RamTop(map) ELSE MAX_IDENTITY

\* Mutated form: a block is mapped only if it lies below the limit as a whole.
PdEntryWhole(map, i, slot) ==
    LET block == i * ENTRIES + slot
        start == block * BLOCK_SIZE
    IN  IF block < FINE_BLOCKS
        THEN Pointer(Pt(block))
        ELSE IF start + BLOCK_SIZE <= IdentityLimit(map) /\ OverlapsRam(map, start, start + BLOCK_SIZE)
        THEN Leaf(start)
        ELSE NotPresent

\* An entry of a PD: the lowest blocks have a PT, the others are one leaf.
PdEntry(map, i, slot) ==
    LET block == i * ENTRIES + slot
        start == block * BLOCK_SIZE
    IN  IF block < FINE_BLOCKS
        THEN Pointer(Pt(block))
        ELSE IF start < IdentityLimit(map) /\ OverlapsRam(map, start, start + BLOCK_SIZE)
        THEN Leaf(start)
        ELSE NotPresent

\* Mutated form: page 0 is mapped.
PtEntryWithNull(map, i, slot) ==
    LET page == i * BLOCK_SIZE + slot
    IN  IF page < IdentityLimit(map) /\ OverlapsRam(map, page, page + 1)
        THEN Leaf(page)
        ELSE NotPresent

\* An entry of a low PT.  Page 0 stays out even if it is RAM.
PtEntry(map, i, slot) ==
    LET page == i * BLOCK_SIZE + slot
    IN  IF page # 0 /\ page < IdentityLimit(map) /\ OverlapsRam(map, page, page + 1)
        THEN Leaf(page)
        ELSE NotPresent

\* build fails when there is no RAM below the limit ...
BuildOk(map) == IdentityLimit(map) > 0

\* ... and otherwise clears its tables and fills them.
Build(map) ==
    [table \in Table |-> [slot \in Index |->
        IF table = PML4 /\ slot = 0 THEN Pointer(PDPT)
        ELSE IF table = PDPT /\ slot < PD_COUNT THEN Pointer(Pd(slot))
        ELSE IF table \in Pd(0) .. Pd(PD_COUNT - 1) THEN PdEntry(map, table - Pd(0), slot)
        ELSE IF table \in Pt(0) .. Pt(FINE_BLOCKS - 1) THEN PtEntry(map, table - Pt(0), slot)
        ELSE NotPresent]]

-----------------------------------------------------------------------------
(* The user region *)

Mapping == [vaddr : Nat, paddr : Nat, pages : Nat, writable : BOOLEAN]

MappingEnd(m) == m.vaddr + m.pages

\* The checks on each mapping, all made before a table is touched.
MappingOk(m) == m.vaddr >= USER_BASE /\ MappingEnd(m) <= USER_BASE + USER_MAX /\ m.pages # 0

\* Mutated form: the upper levels do not let CPL 3 through.
SupervisorPointer(table) == Pointer(table)
UserPointer(table) == [Pointer(table) EXCEPT !.user = TRUE]
UserLeaf(page, writable) == [Leaf(page) EXCEPT !.user = TRUE, !.writable = writable]

USER_INDEX == USER_BASE \div PD_COVERAGE
UserPd == KERNEL_TABLE_PAGES
UserPt(i) == KERNEL_TABLE_PAGES + 1 + i

\* One PT for every block up to the last mapped page.
PtCount(mappings) ==
    LET lastSlots == {(MappingEnd(mappings[i]) - USER_BASE - 1) \div ENTRIES : i \in DOMAIN mappings}
    IN  1 + (CHOOSE slot \in lastSlots : \A other \in lastSlots : other <= slot)

\* The leaf of a user page: mappings are written in order, the last one wins.
UserPtEntry(mappings, page) ==
    LET covering == {i \in DOMAIN mappings :
                        mappings[i].vaddr <= page /\ page < MappingEnd(mappings[i])}
        m == mappings[CHOOSE i \in covering : \A j \in covering : j <= i]
    IN  IF covering = {}
        THEN NotPresent
        ELSE UserLeaf(m.paddr + (page - m.vaddr), m.writable)

\* The U/S bit goes into the root before anything else can fail.
WithUserRoot(arena) == [arena EXCEPT ![PML4][0].user = TRUE]

\* map_user_region fails without touching a table, or with the U/S bit set.
MapUserRefused(arena, mappings) ==
    \/ \E i \in DOMAIN mappings : ~ MappingOk(mappings[i])
    \/ ~ arena[PML4][0].present

MapUserOk(arena, mappings) ==
    /\ ~ MapUserRefused(arena, mappings)
    /\ ~ arena[PDPT][USER_INDEX].present
    /\ UserPt(PtCount(mappings)) <= ARENA_PAGES

\* map_user_region: the new arena.
MapUserRegion(arena, mappings) ==
    IF mappings = <<>> \/ MapUserRefused(arena, mappings)
    THEN arena
    ELSE IF ~ MapUserOk(arena, mappings)
    THEN WithUserRoot(arena)
    ELSE [table \in Table |->
            IF table = PML4 THEN WithUserRoot(arena)[PML4]
            ELSE IF table = PDPT THEN [arena[PDPT] EXCEPT ![USER_INDEX] = UserPointer(UserPd)]
            ELSE IF table = UserPd
            THEN [slot \in Index |-> IF slot < PtCount(mappings)
                                     THEN UserPointer(UserPt(slot)) ELSE NotPresent]
            ELSE IF table \in UserPt(0) .. UserPt(PtCount(mappings) - 1)
            THEN [slot \in Index |->
                    UserPtEntry(mappings, USER_BASE + (table - UserPt(0)) * ENTRIES + slot)]
            ELSE arena[table]]

-----------------------------------------------------------------------------
(* The CPU's walk, for a page number *)

Fault == [present |-> FALSE]

\* From CPL 3 every entry on the way must be present with U/S set.
Passes(entry, cpl) == entry.present /\ (cpl = 3 => entry.user)

Walk(arena, page, cpl) ==
    LET i1 == (page \div (ENTRIES * PD_COVERAGE)) % ENTRIES
        i2 == (page \div PD_COVERAGE) % ENTRIES
        i3 == (page \div BLOCK_SIZE) % ENTRIES
        i4 == page % ENTRIES
        e1 == arena[PML4][i1]
        e2 == arena[e1.to][i2]
        e3 == arena[e2.to][i3]
        e4 == arena[e3.to][i4]
    IN  IF ~ Passes(e1, cpl) THEN Fault
        ELSE IF ~ Passes(e2, cpl) THEN Fault
        ELSE IF ~ Passes(e3, cpl) THEN Fault
        ELSE IF e3.leaf THEN [present |-> TRUE, page |-> e3.to + i4, writable |-> e3.writable]
        ELSE IF ~ Passes(e4, cpl) THEN Fault
        ELSE [present |-> TRUE, page |-> e4.to, writable |-> e4.writable]

=============================================================================
