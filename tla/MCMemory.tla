------------------------------ MODULE MCMemory ------------------------------
(***************************************************************************)
(* Memory.tla with tables of three entries: blocks of three pages, an      *)
(* identity map of two third-level tables (18 pages) and user space above. *)
(***************************************************************************)
EXTENDS Memory

MCEntries == 3
MCPdCount == 2
MCFineBlocks == 1

\* A PD and two PTs: what lies in the first two blocks of user space fits,
\* what reaches the third does not.
MCUserTablePages == 3

MCAddressSpace == 25
MCMinFree == 2

\* Three regions side by side, whose borders fall on, before and behind the
\* borders of blocks, inside and beyond the identity map.
MCMaps ==
    {<< [kind |-> k1, base |-> 0, pages |-> a],
        [kind |-> k2, base |-> a, pages |-> b - a],
        [kind |-> k3, base |-> b, pages |-> c - b] >> :
        k1 \in MemoryKind, k2 \in MemoryKind, k3 \in MemoryKind,
        a \in {3, 4}, b \in {8, 9}, c \in {11, 20, 25}}

\* Nothing, or a range that reaches into the second region.
MCReservedSets == {{[start |-> 0, end |-> 0]}, {[start |-> 5, end |-> 6], [start |-> 8, end |-> 10]}}

MCHeapFrames == 2
MCCounts == {0, 1, 2}
MCMaxHeld == 5

\* Images apart from the stack: below it up to its first page, and above it; one
\* that needs too many tables, two that leave the user region, and none at all.
MCImages ==
    {[vaddr |-> USER_BASE, pages |-> 3],
     [vaddr |-> USER_BASE + 1, pages |-> 1],
     [vaddr |-> USER_BASE + 4, pages |-> 2],
     [vaddr |-> USER_BASE + 6, pages |-> 1],
     [vaddr |-> USER_BASE + 8, pages |-> 2],
     [vaddr |-> USER_BASE - 1, pages |-> 1],
     [vaddr |-> USER_BASE, pages |-> 0]}

MCUserStackPages == 1

=============================================================================
