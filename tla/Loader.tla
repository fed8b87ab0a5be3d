------------------------------- MODULE Loader -------------------------------
(***************************************************************************)
(* The UEFI bootloader: FsLoader::load puts the kernel and then the user   *)
(* image where their program headers say, handoff::prepare allocates the   *)
(* stack and the BootInfo page, handoff::enter_kernel writes BootInfo and  *)
(* jumps.  Addresses are bytes of a small address space; what a byte of    *)
(* memory holds is where it came from.                                     *)
(***************************************************************************)
EXTENDS Integers, Sequences, FiniteSets, FiniteSetsExt

CONSTANTS
    ADDRESS_SPACE,  \* 2^64
    PAGE_SIZE,
    MAX_SEGMENTS,   \* 16 entries of `ranges` in check_no_overlap
    MAX_PAGES,      \* MAX_KERNEL_PAGES
    STACK_PAGES,    \* KERNEL_STACK_SIZE in pages
    MAX_REPAIRS,    \* 8 rounds of the magic check
    MAX_STRAYS,     \* bound: writes of the unknown writer
    Disks,          \* pairs of images the volume may hold
    FreeSets        \* pages the firmware has not used

Segment == [offset : Nat, paddr : Nat, vaddr : Nat, filesz : Nat, memsz : Nat, exec : BOOLEAN]

\* elf: the header passes `validate`; table: every program header lies in the
\* file; segs: the PT_LOAD entries.
Image == [elf : BOOLEAN, table : BOOLEAN, len : Nat, segs : Seq(Segment), entry : Nat]

Addresses == 0 .. (ADDRESS_SPACE - 1)
PageStart(addr) == addr - (addr % PAGE_SIZE)
Pages == {PageStart(addr) : addr \in Addresses}

Bytes(segment) == {addr \in Addresses :
                      segment.paddr <= addr /\ addr < segment.paddr + segment.memsz}
PagesOf(image) == UNION {{PageStart(addr) : addr \in Bytes(image.segs[i])} :
                            i \in DOMAIN image.segs}

ASSUME SizesAssumption ==
    /\ PAGE_SIZE \in Nat \ {0}
    /\ ADDRESS_SPACE \in Nat /\ ADDRESS_SPACE % PAGE_SIZE = 0
    /\ {MAX_SEGMENTS, MAX_PAGES, STACK_PAGES, MAX_REPAIRS} \subseteq Nat \ {0}
    /\ MAX_STRAYS \in Nat
    /\ \A free \in FreeSets : free \subseteq Pages

\* What the linker scripts of the two images guarantee and the loader relies
\* on: the kernel is linked where it is loaded; the segments of the service are
\* all displaced by the same whole number of pages and leave no page out.
ASSUME LinkedAssumption ==
    \A d \in Disks :
        /\ {d.kernel, d.user} \subseteq Image
        /\ \A i \in DOMAIN d.kernel.segs : d.kernel.segs[i].vaddr = d.kernel.segs[i].paddr
        /\ \E delta \in 0 .. ADDRESS_SPACE :
              /\ delta % PAGE_SIZE = 0
              /\ \A i \in DOMAIN d.user.segs :
                    d.user.segs[i].vaddr = d.user.segs[i].paddr + delta
        /\ \A low, high \in PagesOf(d.user), page \in Pages :
              low <= page /\ page <= high => page \in PagesOf(d.user)

-----------------------------------------------------------------------------
(* crates/kernel-image *)

\* Mutated form: the end is rounded down.
PageEndDown(addr) == PageStart(addr)

\* div_ceil and a multiplication that wraps in the release build.
PageEnd(addr) == (((addr + PAGE_SIZE - 1) \div PAGE_SIZE) * PAGE_SIZE) % ADDRESS_SPACE

PageRange(segment) ==
    [start |-> PageStart(segment.paddr), end |-> PageEnd(segment.paddr + segment.memsz)]

CheckSegments(image) ==
    /\ image.segs # <<>>
    /\ \A i \in DOMAIN image.segs :
          \E s \in {image.segs[i]} :
              /\ s.memsz # 0
              /\ s.filesz <= s.memsz
              /\ s.offset + s.filesz <= image.len
              /\ s.paddr + s.memsz < ADDRESS_SPACE

\* Mutated form: only the number of segments is checked.
OverlapUnchecked(image) == Len(image.segs) <= MAX_SEGMENTS

CheckNoOverlap(image) ==
    /\ Len(image.segs) <= MAX_SEGMENTS
    /\ \A i, j \in DOMAIN image.segs :
          i < j => ~ (/\ image.segs[j].paddr < image.segs[i].paddr + image.segs[i].memsz
                      /\ image.segs[i].paddr < image.segs[j].paddr + image.segs[j].memsz)

\* The entry is a virtual address; a segment whose virtual range does not fit
\* stops the search.
CheckEntry(image) ==
    \E i \in DOMAIN image.segs :
        /\ image.segs[i].exec
        /\ image.segs[i].vaddr <= image.entry
        /\ image.entry < image.segs[i].vaddr + image.segs[i].memsz
        /\ \A j \in 1 .. i : image.segs[j].vaddr + image.segs[j].memsz < ADDRESS_SPACE

\* The header checks of `validate`, of which only the verdict matters here.
ValidHeader(image) == image.elf

Validate(image) ==
    /\ ValidHeader(image)
    /\ image.table
    /\ CheckSegments(image)
    /\ CheckNoOverlap(image)
    /\ CheckEntry(image)

\* Mutated form: the span of the first segment.
SpanOfFirst(image) == PageRange(image.segs[1])

LoadedSpan(image) ==
    LET ranges == {PageRange(image.segs[i]) : i \in DOMAIN image.segs}
    IN  [start |-> Min({r.start : r \in ranges}), end |-> Max({r.end : r \in ranges})]

\* LoadedKernel: the span, the entry and how far the first segment's virtual
\* address lies above the physical one.
LoadedKernel(image) ==
    [base |-> LoadedSpan(image).start,
     size |-> (LoadedSpan(image).end - LoadedSpan(image).start) % ADDRESS_SPACE,
     entry |-> image.entry,
     vaddr_delta |-> image.segs[1].vaddr - image.segs[1].paddr]

NotLoaded == [base |-> 0, size |-> 0, entry |-> 0, vaddr_delta |-> 0]

-----------------------------------------------------------------------------

VARIABLES
    disk,       \* the two image files
    phase,      \* where `main` of the bootloader is
    loading,    \* the image being loaded
    seg,        \* its segment being loaded
    page,       \* the page of that segment to allocate next
    allocated,  \* the pages this image already got
    owner,      \* the firmware's allocation of every page
    memory,     \* where the content of every byte came from
    loaded,     \* results of load_kernel and load_user
    prepared,   \* the stack and the BootInfo page
    bootInfo,   \* what BootInfo says
    magic,      \* BootInfo.magic still is BOOT_INFO_MAGIC
    repairs,
    strays,     \* stray writes so far
    late        \* the last one came after the loader's last look

loadVars == <<loading, seg, page, allocated>>
magicVars == <<magic, repairs, strays, late>>
vars == <<disk, phase, loadVars, owner, memory, loaded, prepared, bootInfo, magicVars>>

Phase == {"validate", "load", "prepare", "exit", "recheck", "jump", "kernel", "rejected",
          "failed"}

NotPrepared == [stack |-> 0, page |-> 0]
NoBootInfo ==
    [kernel_base |-> 0, kernel_size |-> 0, stack_top |-> 0, stack_size |-> 0,
     user_phys |-> 0, user_size |-> 0, user_vaddr |-> 0, user_entry |-> 0]

\* A byte of memory: left by the firmware, cleared, byte n of a file, BootInfo.
Content == {"firmware", "zero", "kernel", "user", "bootinfo"} \X Nat

Init ==
    /\ disk \in Disks
    /\ phase = "validate"
    /\ loading = "kernel"
    /\ seg = 1
    /\ page = 0
    /\ allocated = {}
    /\ \E free \in FreeSets :
          owner = [p \in Pages |-> IF p \in free THEN "free" ELSE "firmware"]
    /\ memory = [addr \in Addresses |-> <<"firmware", 0>>]
    /\ loaded = [kernel |-> NotLoaded, user |-> NotLoaded]
    /\ prepared = NotPrepared
    /\ bootInfo = NoBootInfo
    /\ magic = FALSE
    /\ repairs = 0
    /\ strays = 0
    /\ late = FALSE

Current == disk[loading]
CurrentSegment == Current.segs[seg]

\* Steps 1 to 3 of FsLoader::load.  What a failed load allocated stays so.
CheckImage ==
    /\ phase = "validate"
    /\ IF Validate(Current)
       THEN /\ phase' = "load"
            /\ seg' = 1
            /\ page' = PageRange(Current.segs[1]).start
            /\ allocated' = {}
       ELSE /\ phase' = "failed"
            /\ UNCHANGED <<seg, page, allocated>>
    /\ UNCHANGED <<disk, loading, owner, memory, loaded, prepared, bootInfo, magicVars>>

\* Mutated form: every page is taken for a new one.
NeverKnown == FALSE

\* An earlier segment of the image shares the page.
AlreadyAllocated == page \in allocated

AllocatePage ==
    /\ phase = "load"
    /\ page < PageRange(CurrentSegment).end
    /\ \/ /\ AlreadyAllocated
          /\ page' = page + PAGE_SIZE
          /\ UNCHANGED <<phase, allocated, owner>>
       \/ /\ ~ AlreadyAllocated
          /\ Cardinality(allocated) = MAX_PAGES \/ owner[page] # "free"
          /\ phase' = "failed"
          /\ UNCHANGED <<page, allocated, owner>>
       \/ /\ ~ AlreadyAllocated
          /\ Cardinality(allocated) < MAX_PAGES
          /\ owner[page] = "free"
          /\ owner' = [owner EXCEPT ![page] = "loader"]
          /\ allocated' = allocated \cup {page}
          /\ page' = page + PAGE_SIZE
          /\ UNCHANGED phase
    /\ UNCHANGED <<disk, loading, seg, memory, loaded, prepared, bootInfo, magicVars>>

\* The bytes of the file, then zeros.
Loaded(segment, addr) ==
    IF addr < segment.paddr + segment.filesz
    THEN <<loading, segment.offset + (addr - segment.paddr)>>
    ELSE <<"zero", 0>>

CopySegment ==
    /\ phase = "load"
    /\ page >= PageRange(CurrentSegment).end
    /\ memory' = [addr \in Addresses |->
                     IF addr \in Bytes(CurrentSegment)
                     THEN Loaded(CurrentSegment, addr)
                     ELSE memory[addr]]
    /\ \/ /\ seg < Len(Current.segs)
          /\ seg' = seg + 1
          /\ page' = PageRange(Current.segs[seg + 1]).start
          /\ UNCHANGED <<phase, loading, loaded>>
       \/ /\ seg = Len(Current.segs)
          /\ loaded' = [loaded EXCEPT ![loading] = LoadedKernel(Current)]
          /\ phase' = IF loading = "kernel" THEN "validate" ELSE "prepare"
          /\ loading' = "user"
          /\ UNCHANGED <<seg, page>>
    /\ UNCHANGED <<disk, allocated, owner, prepared, bootInfo, magicVars>>

PageRun(start, count) == {start + i * PAGE_SIZE : i \in 0 .. (count - 1)}

\* AllocateType::AnyPages: any run of free pages will do.
AnyPages(owners, count) ==
    {start \in Pages : \A p \in PageRun(start, count) : p \in Pages /\ owners[p] = "free"}

Taken(owners, start, count) ==
    [p \in Pages |-> IF p \in PageRun(start, count) THEN "loader" ELSE owners[p]]

\* handoff::prepare.
Prepare ==
    /\ phase = "prepare"
    /\ \/ /\ AnyPages(owner, STACK_PAGES) = {}
          /\ phase' = "failed"
          /\ UNCHANGED <<owner, prepared>>
       \/ \E stack \in AnyPages(owner, STACK_PAGES) :
             \E owners \in {Taken(owner, stack, STACK_PAGES)} :
                \/ /\ AnyPages(owners, 1) = {}
                   /\ owner' = owners
                   /\ phase' = "failed"
                   /\ UNCHANGED prepared
                \/ \E p \in AnyPages(owners, 1) :
                      /\ owner' = Taken(owners, p, 1)
                      /\ prepared' = [stack |-> stack, page |-> p]
                      /\ phase' = "exit"
    /\ UNCHANGED <<disk, loadVars, memory, loaded, bootInfo, magicVars>>

BootInfoOf(kernel, user, stack) ==
    [kernel_base |-> kernel.base, kernel_size |-> kernel.size,
     stack_top |-> stack + STACK_PAGES * PAGE_SIZE, stack_size |-> STACK_PAGES * PAGE_SIZE,
     user_phys |-> user.base, user_size |-> user.size,
     user_vaddr |-> user.base + user.vaddr_delta, user_entry |-> user.entry]

\* enter_kernel up to the write of BootInfo.  exit_boot_services takes a page
\* for the memory map, and resets the machine when it cannot.
ExitBootServices ==
    /\ phase = "exit"
    /\ \/ /\ AnyPages(owner, 1) = {}
          /\ phase' = "failed"
          /\ UNCHANGED <<owner, memory, bootInfo, magic>>
       \/ \E mapPage \in AnyPages(owner, 1) :
             /\ owner' = Taken(owner, mapPage, 1)
             /\ memory' = [addr \in Addresses |-> IF PageStart(addr) = prepared.page
                                                  THEN <<"bootinfo", 0>>
                                                  ELSE memory[addr]]
             /\ bootInfo' = BootInfoOf(loaded.kernel, loaded.user, prepared.stack)
             /\ magic' = TRUE
             /\ phase' = "recheck"
    /\ UNCHANGED <<disk, loadVars, loaded, prepared, repairs, strays, late>>

\* The write to BootInfo.magic that was seen on hardware and never explained.
StrayWrite ==
    /\ phase \in {"recheck", "jump"}
    /\ strays < MAX_STRAYS
    /\ strays' = strays + 1
    /\ magic' = FALSE
    /\ late' = (phase = "jump")
    /\ UNCHANGED <<disk, phase, loadVars, owner, memory, loaded, prepared, bootInfo, repairs>>

\* One round of the loop in enter_kernel.
RecheckMagic ==
    /\ phase = "recheck"
    /\ IF magic
       THEN phase' = "jump" /\ UNCHANGED <<magic, repairs>>
       ELSE /\ magic' = TRUE
            /\ repairs' = repairs + 1
            /\ phase' = IF repairs' = MAX_REPAIRS THEN "jump" ELSE phase
    /\ UNCHANGED <<disk, loadVars, owner, memory, loaded, prepared, bootInfo, strays, late>>

\* kernel_main begins with BootInfo::validate.
KernelMain ==
    /\ phase = "jump"
    /\ phase' = IF magic THEN "kernel" ELSE "rejected"
    /\ UNCHANGED <<disk, loadVars, owner, memory, loaded, prepared, bootInfo, magicVars>>

Ended == phase \in {"kernel", "rejected", "failed"} /\ UNCHANGED vars

Next ==
    \/ CheckImage
    \/ AllocatePage
    \/ CopySegment
    \/ Prepare
    \/ ExitBootServices
    \/ StrayWrite
    \/ RecheckMagic
    \/ KernelMain
    \/ Ended

Spec == Init /\ [][Next]_vars

-----------------------------------------------------------------------------
(* Properties *)

\* The loader writes to pages it got from the firmware and to no other: the
\* page ranges of `load` cover the bytes it copies and clears.
OnlyOwnPagesWritten ==
    \A addr \in Addresses :
        memory[addr] # <<"firmware", 0>> => owner[PageStart(addr)] = "loader"

\* Once load_kernel or load_user has returned, the bytes of every segment are
\* those of the file, followed by zeros, and stay so until the kernel runs: not
\* another segment, the other image, the stack or BootInfo overwrites them.
ImagesStayLoaded ==
    \A image \in {"kernel", "user"} :
        loaded[image] # NotLoaded =>
            \A i \in DOMAIN disk[image].segs :
                \E s \in {disk[image].segs[i]} :
                    \A n \in 0 .. (s.memsz - 1) :
                        memory[s.paddr + n] = IF n < s.filesz
                                              THEN <<image, s.offset + n>>
                                              ELSE <<"zero", 0>>

ByteRange(start, size) == {addr \in Addresses : start <= addr /\ addr < start + size}

\* What kernel_main finds: its entry is in an executable segment that is in
\* memory; the span BootInfo gives for it covers it; the stack is the loader's
\* and apart from both images and BootInfo; mapping the user span with one
\* displacement puts every user segment at its virtual address and shows the
\* service no page the loader does not own.  The kernel refuses BootInfo only
\* if it was overwritten after enter_kernel had looked at it for the last time.
HandoffIsConsistent ==
    phase \in {"jump", "kernel", "rejected"} =>
        LET stack == ByteRange(bootInfo.stack_top - bootInfo.stack_size, bootInfo.stack_size)
            span  == ByteRange(bootInfo.user_phys, bootInfo.user_size)
        IN  /\ \E i \in DOMAIN disk.kernel.segs :
                  disk.kernel.segs[i].exec /\ disk.kernel.entry \in Bytes(disk.kernel.segs[i])
            /\ \A i \in DOMAIN disk.kernel.segs :
                  Bytes(disk.kernel.segs[i]) \subseteq ByteRange(bootInfo.kernel_base,
                                                                 bootInfo.kernel_size)
            /\ \A addr \in stack :
                  /\ owner[PageStart(addr)] = "loader"
                  /\ PageStart(addr) \notin PagesOf(disk.kernel) \cup PagesOf(disk.user)
                                              \cup {prepared.page}
            /\ \A i \in DOMAIN disk.user.segs :
                  \E s \in {disk.user.segs[i]} :
                     /\ Bytes(s) \subseteq span
                     /\ bootInfo.user_vaddr + (s.paddr - bootInfo.user_phys) = s.vaddr
            /\ \A addr \in span : owner[PageStart(addr)] = "loader"
            /\ phase = "rejected" => late

\* An image the loader has no reason to refuse, said with sets of bytes.
WellFormed(image) ==
    /\ image.elf /\ image.table
    /\ Len(image.segs) \in 1 .. MAX_SEGMENTS
    /\ \A i \in DOMAIN image.segs :
          \E s \in {image.segs[i]} :
              /\ 0 < s.memsz /\ s.filesz <= s.memsz
              /\ s.offset + s.filesz <= image.len
              /\ s.paddr + s.memsz < ADDRESS_SPACE
              /\ s.vaddr + s.memsz < ADDRESS_SPACE
              /\ \A j \in DOMAIN image.segs \ {i} : Bytes(s) \cap Bytes(image.segs[j]) = {}
    /\ \E i \in DOMAIN image.segs :
          /\ image.segs[i].exec
          /\ image.entry \in image.segs[i].vaddr .. (image.segs[i].vaddr + image.segs[i].memsz - 1)

\* A boot that fails has a reason: a malformed image, a page that belongs to
\* the firmware or to both images, an image of too many pages, or no memory
\* left for the stack, BootInfo or the memory map.  In particular two segments
\* that share a page are no reason.
GoodImagesLoad ==
    phase = "failed" =>
        \/ \E image \in {disk.kernel, disk.user} :
              \/ ~ WellFormed(image)
              \/ Cardinality(PagesOf(image)) > MAX_PAGES
              \/ \E p \in PagesOf(image) : owner[p] = "firmware"
        \/ PagesOf(disk.kernel) \cap PagesOf(disk.user) # {}
        \/ AnyPages(owner, STACK_PAGES) = {}
        \/ AnyPages(owner, 1) = {}

=============================================================================
