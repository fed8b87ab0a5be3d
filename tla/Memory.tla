------------------------------- MODULE Memory -------------------------------
(***************************************************************************)
(* Memory during boot and after it: memory::install builds the identity    *)
(* map, memory::init_allocators sets up the frame allocator and takes the  *)
(* heap from it, the self-check tries it out, then frames come and go, and *)
(* user::init maps the service.                                            *)
(***************************************************************************)
EXTENDS Paging, Frames

CONSTANTS
    Maps,              \* memory maps the firmware may hand over
    ReservedSets,      \* what owned_ranges may compute
    HEAP_FRAMES,       \* 1 MiB of heap, in frames
    Counts,            \* sizes callers ask for, in frames
    MAX_HELD,          \* bound: frames out at the same time
    Images,            \* user images: user_vaddr and user_size of BootInfo
    USER_STACK_PAGES

\* What UEFI guarantees of a memory map: no address is described twice.
DisjointRegions(m) ==
    \A i, j \in DOMAIN m :
        i # j => RegionEnd(m[i]) <= m[j].base \/ RegionEnd(m[j]) <= m[i].base

PhysRange == [start : Nat, end : Nat]

ASSUME MapsAssumption == \A m \in Maps : m \in Seq(Region) /\ DisjointRegions(m)
ASSUME ReservedAssumption == \A ranges \in ReservedSets : ranges \subseteq PhysRange
ASSUME SizesAssumption ==
    /\ HEAP_FRAMES \in Nat \ {0}
    /\ Counts \subseteq Nat
    /\ MAX_HELD \in Nat
    /\ Images \subseteq [vaddr : Nat, pages : Nat]
    /\ USER_STACK_PAGES \in Nat \ {0}

VARIABLES
    stage,   \* where kernel_main is
    arena,   \* the page tables in use
    heap,    \* the frames of the kernel heap
    atInit,  \* FREE_FRAMES_AFTER_INIT
    check,   \* the frames frame_self_check was given, in order
    service  \* the mappings of the user service, <<>> before

vars == <<map, reserved, limit, marked, allocatable, used, freeFrames, held,
          stage, arena, heap, atInit, check, service>>

CheckStage == {"first", "second", "return_first", "return_second",
               "again", "return_again", "return_twice", "inspect"}

Stage == {"firmware", "paged", "marking", "heap", "ready", "failed", "rejected"} \cup CheckStage

NoTables == [table \in Table |-> [slot \in Index |-> NotPresent]]

Init ==
    /\ map \in Maps
    /\ reserved \in ReservedSets
    /\ limit = 0
    /\ marked = 0
    /\ allocatable = {}
    /\ used = {}
    /\ freeFrames = 0
    /\ held = {}
    /\ stage = "firmware"
    /\ arena = NoTables
    /\ heap = {}
    /\ atInit = 0
    /\ check = <<>>
    /\ service = <<>>

\* memory::install.
Install ==
    /\ stage = "firmware"
    /\ IF FromBytesOk(map) /\ BuildOk(map)
       THEN /\ arena' = Build(map)
            /\ limit' = IdentityLimit(map)
            /\ stage' = "paged"
       ELSE /\ stage' = "failed"
            /\ UNCHANGED <<arena, limit>>
    /\ UNCHANGED <<map, reserved, marked, allocatable, used, freeFrames, held, heap,
                   atInit, check, service>>

\* memory::init_allocators, from here to TakeHeap.
InitAllocators ==
    /\ stage = "paged"
    /\ \/ /\ EmptyRange
          /\ stage' = "failed"
          /\ UNCHANGED frameVars
       \/ /\ ~ EmptyRange
          /\ stage' = "marking"
          /\ BeginInit
    /\ UNCHANGED <<arena, heap, atInit, check, service>>

MarkNextRegion ==
    /\ stage = "marking"
    /\ MarkRegion
    /\ UNCHANGED <<stage, arena, heap, atInit, check, service>>

FinishMarking ==
    /\ stage = "marking"
    /\ InitDone
    /\ stage' = IF freeFrames = 0 THEN "failed" ELSE "heap"
    /\ atInit' = freeFrames
    /\ UNCHANGED <<frameVars, arena, heap, check, service>>

TakeHeap ==
    /\ stage = "heap"
    /\ AllocFrames(HEAP_FRAMES)
    /\ stage' = IF NotFound(HEAP_FRAMES) THEN "failed" ELSE "first"
    /\ heap' = held' \ held
    /\ UNCHANGED <<arena, atInit, check, service>>

\* frame_self_check, an operation at a time; it keeps the lock throughout, so
\* nobody else allocates in between.  Two allocations must differ, and the
\* first frame must come back once both are returned.
CheckAlloc ==
    /\ stage \in {"first", "second", "again"}
    /\ AllocFrames(1)
    /\ \/ NotFound(1) /\ stage' = "rejected" /\ check' = check
       \/ \E f \in Managed :
             /\ FoundRun(f, 1)
             /\ check' = Append(check, f)
             /\ stage' = CASE stage = "first" -> "second"
                           [] stage = "second" -> IF f = check[1] THEN "rejected" ELSE "return_first"
                           [] stage = "again" -> IF f = check[1] THEN "return_again" ELSE "rejected"
    /\ UNCHANGED <<arena, heap, atInit, service>>

\* A return that must be accepted.
CheckReturn(i, next) ==
    /\ i \in DOMAIN check
    /\ FreeFrames(check[i], 1)
    /\ stage' = IF Freeable(check[i]) THEN next ELSE "rejected"
    /\ UNCHANGED <<arena, heap, atInit, check, service>>

CheckFree ==
    \/ stage = "return_first" /\ CheckReturn(1, "return_second")
    \/ stage = "return_second" /\ CheckReturn(2, "again")
    \/ stage = "return_again" /\ CheckReturn(3, "return_twice")

\* The one that must be refused.
CheckDoubleFree ==
    /\ stage = "return_twice"
    /\ 3 \in DOMAIN check
    /\ FreeFrames(check[3], 1)
    /\ stage' = IF Freeable(check[3]) THEN "rejected" ELSE "inspect"
    /\ UNCHANGED <<arena, heap, atInit, check, service>>

\* No free frame in what is reserved, and the heap took its frames and no more.
Inspect ==
    /\ stage = "inspect"
    /\ stage' = IF /\ \A f \in Managed : IsReserved(f) => ~ IsFree(f)
                   /\ freeFrames + HEAP_FRAMES = atInit
                THEN "ready"
                ELSE "rejected"
    /\ UNCHANGED <<frameVars, arena, heap, atInit, check, service>>

\* Thread stacks, interrupt stacks, the self-check: memory::alloc_frames.
Alloc(count) ==
    /\ stage = "ready"
    /\ Cardinality(held) + count <= MAX_HELD
    /\ AllocFrames(count)
    /\ UNCHANGED <<stage, arena, heap, atInit, check, service>>

\* The frames of the service's stack, once it is mapped.
ServiceStack == IF service = <<>> THEN {} ELSE Run(service[2].paddr, service[2].pages)

\* memory::free_frames with any range, held or not (the self-check frees a
\* frame twice).  Nobody gives back the heap or the service's stack.
Free(start, count) ==
    /\ stage = "ready"
    /\ Run(start, count) \cap (heap \cup ServiceStack) = {}
    /\ FreeFrames(start, count)
    /\ UNCHANGED <<stage, arena, heap, atInit, check, service>>

\* user::init: the image, which the bootloader put in RAM of its own and whose
\* address is the one it was linked at, and a stack from the allocator, always
\* one block above USER_BASE.
USER_STACK_VA == USER_BASE + BLOCK_SIZE

\* boot_info.has_user_image(): no field is zero.
HasUserImage(imagePage, image) == imagePage # 0 /\ image.pages # 0 /\ image.vaddr # 0

ServiceMappings(imagePage, image, stackPage) ==
    << [vaddr |-> image.vaddr, paddr |-> imagePage, pages |-> image.pages, writable |-> FALSE],
       [vaddr |-> USER_STACK_VA, paddr |-> stackPage, pages |-> USER_STACK_PAGES,
        writable |-> TRUE] >>

\* Without an image, a stack or room for the tables kernel_main gives up; the
\* stack it may have got is not returned.
InitUser(imagePage, image) ==
    /\ stage = "ready"
    /\ service = <<>>
    /\ \/ /\ ~ HasUserImage(imagePage, image) \/ NotFound(USER_STACK_PAGES)
          /\ stage' = "failed"
          /\ UNCHANGED <<frameVars, arena, service>>
       \/ \E start \in Managed :
             /\ HasUserImage(imagePage, image)
             /\ FoundRun(start, USER_STACK_PAGES)
             /\ TakeRun(start, USER_STACK_PAGES)
             /\ \E mappings \in {ServiceMappings(imagePage, image, start)} :
                   /\ arena' = MapUserRegion(arena, mappings)
                   /\ IF MapUserOk(arena, mappings)
                      THEN service' = mappings /\ stage' = stage
                      ELSE service' = service /\ stage' = "failed"
    /\ UNCHANGED <<heap, atInit, check>>

Failed == stage \in {"failed", "rejected"} /\ UNCHANGED vars

Next ==
    \/ Install
    \/ InitAllocators
    \/ MarkNextRegion
    \/ FinishMarking
    \/ TakeHeap
    \/ CheckAlloc
    \/ CheckFree
    \/ CheckDoubleFree
    \/ Inspect
    \/ \E count \in Counts : Alloc(count)
    \/ \E start \in 0 .. limit, count \in Counts : Free(start, count)
    \/ \E i \in DOMAIN map, image \in Images :
          /\ map[i].kind = "OtherRam"
          /\ image.pages <= map[i].pages
          /\ InitUser(map[i].base, image)
    \/ Failed

Spec == Init /\ [][Next]_vars

-----------------------------------------------------------------------------
(* Properties *)

\* Every variable stays in its range: the bitmaps of init, alloc and free never
\* reach beyond the managed frames, and the counter never goes below zero.
TypeOK ==
    /\ map \in Maps
    /\ reserved \in ReservedSets
    /\ limit \in Nat
    /\ marked \in 0 .. Len(map)
    /\ allocatable \subseteq Managed
    /\ used \subseteq Managed
    /\ held \subseteq Managed
    /\ freeFrames \in Nat
    /\ stage \in Stage
    /\ heap \subseteq held

\* The boot self-check (frame_self_check) stops no healthy kernel: whatever the
\* map and however init and the heap have cut it up, it can fail only for want
\* of the two frames it needs beside the heap.
SelfCheckPasses == stage = "rejected" => atInit < HEAP_FRAMES + 2

\* Below the limit RAM is mapped to itself, page 0 excepted; whatever else is
\* mapped shares a block with RAM (build).
IdentityMap ==
    arena # NoTables =>
        \A page \in 0 .. (USER_BASE - 1) :
            \E walk \in {Walk(arena, page, 0)} :
                /\ page # 0 /\ page < limit /\ OverlapsRam(map, page, page + 1)
                       => walk.present /\ walk.writable
                /\ walk.present =>
                       /\ walk.page = page
                       /\ page # 0
                       /\ \E start \in {page - (page % BLOCK_SIZE)} :
                             OverlapsRam(map, start, start + BLOCK_SIZE)

\* Every frame the allocator may hand out can be read and written at its
\* physical address, although build and init go through the map separately.
FramesAreMapped ==
    \A f \in allocatable : Walk(arena, f, 0) = [present |-> TRUE, page |-> f, writable |-> TRUE]

VirtualPages == 0 .. (ENTRIES * ENTRIES * PD_COVERAGE - 1)

\* CPL 3 reaches the image, read only, and the service's stack, at their
\* addresses and with their permissions, and nothing else: not the kernel, not
\* a frame anybody else can get.  A failed mapping leaves it nothing.
UserSeesOnlyItself ==
    \A page \in VirtualPages :
        \E walk \in {Walk(arena, page, 3)} :
            /\ walk.present <=> \E i \in DOMAIN service :
                                   service[i].vaddr <= page /\ page < MappingEnd(service[i])
            /\ \A i \in DOMAIN service :
                  service[i].vaddr <= page /\ page < MappingEnd(service[i]) =>
                      /\ walk.page = service[i].paddr + (page - service[i].vaddr)
                      /\ walk.writable = service[i].writable
                      /\ ~ IsFree(walk.page)

=============================================================================
