----------------------------- MODULE MemoryMap ------------------------------
(***************************************************************************)
(* The UEFI memory map as the kernel reads it (crates/kernel-memory, map.rs): *)
(* a sequence of regions in the order of the firmware's descriptors.       *)
(* Addresses and lengths are counted in 4 KiB pages here and in the modules *)
(* that build on this one: descriptors are page aligned, and everything    *)
(* derived from them is.                                                   *)
(***************************************************************************)
EXTENDS Naturals, Sequences

CONSTANT ADDRESS_SPACE  \* pages below 2^64, where u64 arithmetic overflows

ASSUME AddressSpaceAssumption == ADDRESS_SPACE \in Nat

\* The sixteen UEFI types, as far as the kernel tells them apart: memory it
\* hands out, other RAM it maps, and what it leaves alone.
MemoryKind == {"Conventional", "OtherRam", "NotRam"}

IsRam(kind) == kind # "NotRam"

Region == [kind : MemoryKind, base : Nat, pages : Nat]

RegionEnd(region) == region.base + region.pages

Overlaps(region, start, end) == region.base < end /\ start < RegionEnd(region)

\* from_bytes: an empty map, or one with a region whose end does not fit into an
\* address, is refused.  The checks of stride and buffer length concern the
\* encoding; a sequence of regions is what has passed them.
FromBytesOk(map) ==
    /\ map # <<>>
    /\ \A i \in DOMAIN map : RegionEnd(map[i]) < ADDRESS_SPACE

\* ram_top: the end of the highest RAM region, 0 when there is none.
RamTop(map) ==
    LET ends == {RegionEnd(map[i]) : i \in {j \in DOMAIN map : IsRam(map[j].kind)}}
    IN  IF ends = {} THEN 0 ELSE CHOOSE top \in ends : \A end \in ends : end <= top

\* Some RAM lies in [start, end).
OverlapsRam(map, start, end) ==
    \E i \in DOMAIN map : IsRam(map[i].kind) /\ Overlaps(map[i], start, end)

=============================================================================
