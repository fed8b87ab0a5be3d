------------------------------- MODULE Frames -------------------------------
(***************************************************************************)
(* The physical frame allocator (crates/kernel-memory/frame.rs) behind its *)
(* lock in crates/kernel/memory.rs.  The two bitmaps are sets of frame     *)
(* numbers.  Each operation runs under the lock with interrupts off, so it *)
(* is one step; only the loop over the memory map in `init` is split, one  *)
(* region a step.                                                          *)
(***************************************************************************)
EXTENDS MemoryMap, FiniteSets

CONSTANT MIN_FREE_ADDR  \* frames below this one are never handed out (1 MiB)

ASSUME MinFreeAssumption == MIN_FREE_ADDR \in Nat \ {0}

VARIABLES
    map,          \* the memory map, fixed at boot
    reserved,     \* the ranges the kernel keeps for itself
    limit,        \* end of the identity map, and of the managed frames
    marked,       \* regions of the map that init has gone through
    allocatable,  \* first bitmap: frames that may be handed out at all
    used,         \* second bitmap: frames that may not be handed out now
    freeFrames,   \* the counter `free_frames`
    held          \* frames that callers got and did not give back

frameVars == <<map, reserved, limit, marked, allocatable, used, freeFrames, held>>

\* [first_frame, first_frame + frames)
Managed == {f \in MIN_FREE_ADDR .. limit : f < limit}

\* Mutated form: the last frame of a reserved range is forgotten.
IsReservedStart(f) == \E range \in reserved : range.start <= f /\ f < range.end - 1

IsReserved(f) == \E range \in reserved : range.start < f + 1 /\ f < range.end

IsFree(f) == f \in allocatable /\ f \notin used

-----------------------------------------------------------------------------
(* init *)

EmptyRange == limit <= MIN_FREE_ADDR

\* Safe by default: nothing may be handed out.
BeginInit ==
    /\ marked' = 0
    /\ allocatable' = {}
    /\ used' = Managed
    /\ freeFrames' = 0
    /\ UNCHANGED <<map, reserved, limit, held>>

\* The frames of one region that the inner loop marks available.
Available(region) ==
    IF region.kind = "Conventional"
    THEN {f \in Managed : region.base <= f /\ f < RegionEnd(region) /\ ~ IsReserved(f)}
    ELSE {}

\* mark_available counts every frame it marks.
MarkRegion ==
    /\ marked < Len(map)
    /\ marked' = marked + 1
    /\ \E available \in {Available(map[marked + 1])} :
          /\ allocatable' = allocatable \cup available
          /\ used' = used \ available
          /\ freeFrames' = freeFrames + Cardinality(available)
    /\ UNCHANGED <<map, reserved, limit, held>>

InitDone == marked = Len(map)

-----------------------------------------------------------------------------
(* alloc, alloc_contiguous, free *)

Run(start, count) == {f \in start .. (start + count) : f < start + count}

\* Starts of runs of `count` free frames.
FreeRuns(count) == {f \in Managed : Run(f, count) \subseteq Managed /\ \A g \in Run(f, count) : IsFree(g)}

\* What find_free_run returns: the lowest of them.
FoundRun(start, count) ==
    /\ count > 0
    /\ start \in FreeRuns(count)
    /\ \A other \in FreeRuns(count) : start <= other

NotFound(count) == count = 0 \/ FreeRuns(count) = {}

\* Mutated form: a used frame does not end the run.
ScanNoReset(scan, f, count) ==
    IF scan.run = count \/ ~ IsFree(f)
    THEN scan
    ELSE [start |-> IF scan.run = 0 THEN f ELSE scan.start, run |-> scan.run + 1]

\* How find_free_run finds it: one pass over the frames with the start and the
\* length of the run it is in, until the run is long enough.
Scan(scan, f, count) ==
    IF scan.run = count
    THEN scan
    ELSE IF ~ IsFree(f)
    THEN [scan EXCEPT !.run = 0]
    ELSE [start |-> IF scan.run = 0 THEN f ELSE scan.start, run |-> scan.run + 1]

FindFreeRun(count) ==
    LET scanned[f \in MIN_FREE_ADDR .. limit] ==
            IF f = MIN_FREE_ADDR
            THEN [start |-> MIN_FREE_ADDR, run |-> 0]
            ELSE Scan(scanned[f - 1], f - 1, count)
    IN  scanned[limit]

\* Mutated form: only the first frame of the run is marked.
TakeRunMarkingFirst(start, count) ==
    /\ used' = used \cup {start}
    /\ freeFrames' = freeFrames - count
    /\ held' = held \cup Run(start, count)
    /\ UNCHANGED <<map, reserved, limit, marked, allocatable>>

\* mark_used over the run that was found.
TakeRun(start, count) ==
    /\ used' = used \cup Run(start, count)
    /\ freeFrames' = freeFrames - count
    /\ held' = held \cup Run(start, count)
    /\ UNCHANGED <<map, reserved, limit, marked, allocatable>>

\* alloc_contiguous(count), and alloc() for one frame.
AllocFrames(count) ==
    \/ \E start \in Managed : FoundRun(start, count) /\ TakeRun(start, count)
    \/ NotFound(count) /\ UNCHANGED frameVars

\* Mutated form: a frame that is already free may be freed.
FreeableUnchecked(f) == f \in Managed /\ ~ IsReserved(f) /\ f \in allocatable

\* free(frame) succeeds.
Freeable(f) == f \in Managed /\ ~ IsReserved(f) /\ f \in allocatable /\ f \in used

\* free_frames(range) frees frame by frame and stops at the first refusal;
\* what was freed before stays free.
FreedBy(start, count) ==
    {f \in Run(start, count) : \A g \in Run(start, count) : g <= f => Freeable(g)}

FreeFrames(start, count) ==
    \E freed \in {FreedBy(start, count)} :
        /\ used' = used \ freed
        /\ freeFrames' = freeFrames + Cardinality(freed)
        /\ held' = held \ freed
        /\ UNCHANGED <<map, reserved, limit, marked, allocatable>>

-----------------------------------------------------------------------------
(* Properties *)

\* The counter that stats() reports is the number of free frames in the
\* bitmaps, through initialisation, every allocation and every refused or
\* partial free.
FreeCountIsExact == freeFrames = Cardinality(allocatable \ used)

\* The bitmaps know exactly which frames are out: what a caller holds is never
\* offered again, and what nobody holds is never lost.
HeldFramesAreUsed == allocatable \cap used = held

\* No frame the kernel keeps for itself, and none outside conventional memory,
\* can ever be handed out.
OnlyOwnFrames ==
    \A f \in allocatable :
        /\ \A range \in reserved : f < range.start \/ range.end <= f
        /\ \E i \in DOMAIN map :
              map[i].kind = "Conventional" /\ Overlaps(map[i], f, f + 1)

\* The single pass of find_free_run is first fit: it ends with a run exactly when
\* there is one, and then with the lowest, whatever holes frees have left.
ScanIsFirstFit ==
    Managed # {} => \A count \in {1, 2, 3} :
        \E found \in {FindFreeRun(count)} :
            /\ found.run = count <=> FreeRuns(count) # {}
            /\ found.run = count => FoundRun(found.start, count)

=============================================================================
