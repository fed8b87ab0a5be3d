---------------------------- MODULE MemoryProofs ----------------------------
(***************************************************************************)
(* Paging and the frame allocator, for every number of entries a table may *)
(* have, every memory map without overlapping regions, every list of       *)
(* mappings, every set of reserved ranges and every order of allocations   *)
(* and frees: what the CPU finds in the tables that build and              *)
(* map_user_region write, whose frames are whose, and what the self-check  *)
(* and the scan of the bitmap answer.                                      *)
(***************************************************************************)
EXTENDS Memory, TLAPS

\* A leaf that names no prover goes to the SMT solver, with time to spare.
USE SMTT(60)

-----------------------------------------------------------------------------
(* Page numbers and indices *)

\* A product grows with its factors.
LEMMA Monotone ==
    ASSUME NEW a \in Nat, NEW b \in Nat, NEW c \in Nat, a <= b
    PROVE  a * c <= b * c /\ a * c \in Nat /\ b * c \in Nat
<1>1. PICK k \in Nat : b = a + k
  BY b - a \in Nat
<1>2. (a + k) * c = a * c + k * c /\ k * c \in Nat /\ a * c \in Nat
  OBVIOUS
<1> QED
  BY <1>1, <1>2

\* Quotient and remainder are the only ones there are.
LEMMA Quotient ==
    ASSUME NEW d \in Nat \ {0}, NEW q \in Nat, NEW r \in Nat, r < d, NEW n, n = q * d + r
    PROVE  n \in Nat /\ n \div d = q /\ n % d = r
  OBVIOUS

\* What is less than the divisor is its own remainder.
LEMMA SmallQuotient ==
    ASSUME NEW d \in Nat \ {0}, NEW r \in Nat, r < d
    PROVE  r \div d = 0 /\ r % d = r
  OBVIOUS

\* There are such.
LEMMA Division ==
    ASSUME NEW d \in Nat \ {0}, NEW n \in Nat
    PROVE  n \div d \in Nat /\ n % d \in Nat /\ n % d < d /\ n = (n \div d) * d + (n % d)
  OBVIOUS

\* Quotients are in the order of their dividends.
LEMMA QuotientMonotone ==
    ASSUME NEW d \in Nat \ {0}, NEW m \in Nat, NEW n \in Nat, m <= n
    PROVE  m \div d <= n \div d
<1>1. PICK a \in Nat, r \in Nat : a = m \div d /\ r < d /\ m = a * d + r
  BY Division
<1>2. PICK b \in Nat, s \in Nat : b = n \div d /\ s < d /\ n = b * d + s
  BY Division
<1>3. ASSUME b < a PROVE FALSE
  <2>1. (b + 1) * d <= a * d /\ a * d \in Nat
    BY <1>3, Monotone
  <2>2. (b + 1) * d = b * d + d /\ b * d \in Nat
    OBVIOUS
  <2> QED
    BY <1>1, <1>2, <2>1, <2>2
<1> QED
  BY <1>1, <1>2, <1>3

\* The constants, as the proofs below use them.
LEMMA Sizes ==
    /\ ENTRIES \in Nat \ {0, 1} /\ BLOCK_SIZE = ENTRIES
    /\ PD_COUNT \in Nat \ {0} /\ PD_COUNT < ENTRIES
    /\ FINE_BLOCKS \in Nat \ {0} /\ FINE_BLOCKS <= ENTRIES
    /\ PD_COVERAGE = ENTRIES * ENTRIES /\ PD_COVERAGE \in Nat \ {0}
    /\ USER_BASE = PD_COUNT * PD_COVERAGE /\ USER_BASE \in Nat
    /\ USER_INDEX = PD_COUNT
    /\ USER_TABLE_PAGES \in Nat
<1>1. /\ ENTRIES \in Nat \ {0, 1} /\ PD_COUNT \in Nat \ {0} /\ PD_COUNT < ENTRIES
      /\ FINE_BLOCKS \in Nat \ {0} /\ FINE_BLOCKS <= ENTRIES /\ USER_TABLE_PAGES \in Nat
  BY PagingAssumption
<1>2. PD_COVERAGE = ENTRIES * ENTRIES /\ BLOCK_SIZE = ENTRIES
  BY ZenonT(60) DEF PD_COVERAGE, BLOCK_SIZE
<1>3. ENTRIES * ENTRIES \in Nat \ {0}
  BY <1>1
<1>4. USER_BASE = PD_COUNT * PD_COVERAGE /\ USER_BASE \in Nat
  BY <1>1, <1>2, <1>3 DEF USER_BASE, MAX_IDENTITY
<1>5. USER_INDEX = PD_COUNT
  <2>1. USER_BASE = PD_COUNT * PD_COVERAGE + 0
    BY <1>1, <1>2, <1>3, <1>4
  <2> QED
    BY <1>1, <1>2, <1>3, <2>1, Quotient DEF USER_INDEX
<1> QED
  BY ZenonT(60), <1>1, <1>2, <1>3, <1>4, <1>5

\* Dividing twice.
LEMMA DivDiv ==
    ASSUME NEW n \in Nat, NEW a \in Nat \ {0}, NEW b \in Nat \ {0}
    PROVE  (n \div a) \div b = n \div (a * b)
<1> DEFINE q == n \div a
           r == n % a
           s == q \div b
           t == q % b
<1>1. q \in Nat /\ r \in Nat /\ r < a /\ n = q * a + r
  BY ZenonT(60), Division
<1>2. s \in Nat /\ t \in Nat /\ t < b /\ q = s * b + t
  BY ZenonT(60), <1>1, Division
<1> HIDE DEF q, r, s, t
<1>3. n = s * (a * b) + (t * a + r)
  BY <1>1, <1>2
<1>4. t * a + r \in Nat /\ t * a + r < a * b
  <2>1. (t + 1) * a <= b * a
    BY <1>2, Monotone
  <2>2. (t + 1) * a = t * a + a /\ b * a = a * b /\ t * a \in Nat
    BY <1>2
  <2> QED
    BY <1>1, <2>1, <2>2
<1>5. a * b \in Nat \ {0}
  OBVIOUS
<1>6. n \div (a * b) = s
  BY ZenonT(60), <1>2, <1>3, <1>4, <1>5, Quotient
<1> QED
  BY ZenonT(60), <1>6 DEF q, s

\* The block of a page, the directory of the block and the slots.
Block(page) == page \div ENTRIES
Directory(page) == Block(page) \div ENTRIES

\* The three indices of a page number.
LEMMA Slots ==
    ASSUME NEW page \in Nat
    PROVE  /\ Block(page) \in Nat /\ page % ENTRIES \in Index
           /\ page = Block(page) * ENTRIES + (page % ENTRIES)
           /\ Directory(page) \in Nat /\ Block(page) % ENTRIES \in Index
           /\ Block(page) = Directory(page) * ENTRIES + (Block(page) % ENTRIES)
           /\ page \div BLOCK_SIZE = Block(page)
           /\ page \div PD_COVERAGE = Directory(page)
           /\ page \div (ENTRIES * PD_COVERAGE) = Directory(page) \div ENTRIES
<1>1. /\ Block(page) \in Nat /\ page % ENTRIES \in Nat /\ page % ENTRIES < ENTRIES
      /\ page = Block(page) * ENTRIES + (page % ENTRIES)
  BY ZenonT(60), Sizes, Division DEF Block
<1>2. /\ Directory(page) \in Nat /\ Block(page) % ENTRIES \in Nat /\ Block(page) % ENTRIES < ENTRIES
      /\ Block(page) = Directory(page) * ENTRIES + (Block(page) % ENTRIES)
  BY ZenonT(60), <1>1, Sizes, Division DEF Directory
<1>3. page \div PD_COVERAGE = Directory(page)
  <2>1. ENTRIES \in Nat \ {0} /\ PD_COVERAGE = ENTRIES * ENTRIES
    BY ZenonT(60), Sizes
  <2>2. (page \div ENTRIES) \div ENTRIES = page \div (ENTRIES * ENTRIES)
    BY ZenonT(60), <2>1, DivDiv
  <2> QED
    BY ZenonT(60), <2>1, <2>2 DEF Directory, Block
<1>4. page \div (ENTRIES * PD_COVERAGE) = Directory(page) \div ENTRIES
  <2>1. (page \div PD_COVERAGE) \div ENTRIES = page \div (PD_COVERAGE * ENTRIES)
    BY Sizes, DivDiv
  <2>2. PD_COVERAGE * ENTRIES = ENTRIES * PD_COVERAGE
    BY Sizes
  <2> QED
    BY ZenonT(60), <1>3, <2>1, <2>2
<1>5. \A i \in Nat : i < ENTRIES => i \in Index
  BY Sizes DEF Index
<1> QED
  BY ZenonT(60), <1>1, <1>2, <1>3, <1>4, <1>5, Sizes DEF Block

\* Below user space the root's first entry leads to one of the directories.
LEMMA KernelSlots ==
    ASSUME NEW page \in Nat, page < USER_BASE
    PROVE  /\ Directory(page) \in 0 .. (PD_COUNT - 1)
           /\ Directory(page) % ENTRIES = Directory(page)
           /\ Directory(page) \div ENTRIES = 0
<1>1. Directory(page) \in Nat /\ page \div PD_COVERAGE = Directory(page)
  BY ZenonT(60), Slots
<1>2. page % PD_COVERAGE \in Nat /\ page = Directory(page) * PD_COVERAGE + (page % PD_COVERAGE)
  BY ZenonT(60), <1>1, Sizes, Division
<1>3. Directory(page) < PD_COUNT
  <2>1. ASSUME PD_COUNT <= Directory(page) PROVE FALSE
    <3>1. PD_COUNT * PD_COVERAGE <= Directory(page) * PD_COVERAGE
      BY ZenonT(60), <1>1, <2>1, Sizes, Monotone
    <3>2. Directory(page) * PD_COVERAGE \in Nat
      BY <1>1, Sizes
    <3> QED
      BY <1>2, <3>1, <3>2, Sizes
  <2> QED
    BY <1>1, <2>1, Sizes
<1>4. Directory(page) = 0 * ENTRIES + Directory(page) /\ Directory(page) < ENTRIES
  BY <1>1, <1>3, Sizes
<1> QED
  BY <1>1, <1>3, <1>4, Sizes, Quotient

-----------------------------------------------------------------------------
(* The identity map *)

\* What build writes, as the walk reads it: map_user_region may set the U/S bit
\* of the root entry and nothing else of it.
HoldsIdentity(tables, memoryMap) ==
    /\ tables[PML4][0].present /\ tables[PML4][0].to = PDPT
    /\ \A i \in 0 .. (PD_COUNT - 1) : tables[PDPT][i] = Pointer(Pd(i))
    /\ \A i \in 0 .. (PD_COUNT - 1), slot \in Index : tables[Pd(i)][slot] = PdEntry(memoryMap, i, slot)
    /\ \A i \in 0 .. (FINE_BLOCKS - 1), slot \in Index : tables[Pt(i)][slot] = PtEntry(memoryMap, i, slot)

\* The tables follow one another.
LEMMA TableNumbers ==
    /\ 0 \in Index /\ PD_COUNT \in Index
    /\ PML4 = 0 /\ PDPT = 1 /\ PML4 \in Table /\ PDPT \in Table
    /\ \A i \in 0 .. (PD_COUNT - 1) : i \in Index /\ Pd(i) \in Table /\ Pd(i) \in 2 .. (1 + PD_COUNT)
    /\ \A i \in 0 .. (FINE_BLOCKS - 1) :
          i \in Nat /\ Pt(i) \in Table /\ Pt(i) \in (2 + PD_COUNT) .. (KERNEL_TABLE_PAGES - 1)
    /\ KERNEL_TABLE_PAGES \in Nat /\ UserPd = KERNEL_TABLE_PAGES
    /\ KERNEL_TABLE_PAGES > 2 + PD_COUNT
<1>1. /\ KERNEL_TABLE_PAGES = 2 + PD_COUNT + FINE_BLOCKS
      /\ ARENA_PAGES = 2 + PD_COUNT + FINE_BLOCKS + USER_TABLE_PAGES
  BY ZenonT(60) DEF KERNEL_TABLE_PAGES, ARENA_PAGES
<1> QED
  BY <1>1, Sizes DEF Index, Table, PML4, PDPT, Pd, Pt, UserPd

\* build writes the identity map.
LEMMA BuildHolds ==
    ASSUME NEW memoryMap
    PROVE  HoldsIdentity(Build(memoryMap), memoryMap)
<1> DEFINE tables == Build(memoryMap)
<1>1. tables[PML4][0] = Pointer(PDPT)
  BY ZenonT(60), TableNumbers DEF Build
<1>2. ASSUME NEW i \in 0 .. (PD_COUNT - 1) PROVE tables[PDPT][i] = Pointer(Pd(i))
  <2>1. i < PD_COUNT /\ i \in Index /\ PDPT # PML4 /\ PDPT \in Table
    BY TableNumbers, Sizes
  <2> QED
    BY ZenonT(60), <2>1 DEF Build
<1>3. ASSUME NEW i \in 0 .. (PD_COUNT - 1), NEW slot \in Index
      PROVE  tables[Pd(i)][slot] = PdEntry(memoryMap, i, slot)
  <2>1. /\ Pd(i) \in Table /\ Pd(i) # PML4 /\ Pd(i) # PDPT
        /\ Pd(i) \in Pd(0) .. Pd(PD_COUNT - 1) /\ Pd(i) - Pd(0) = i
    BY TableNumbers, Sizes DEF Pd
  <2> QED
    BY ZenonT(60), <2>1 DEF Build
<1>4. ASSUME NEW i \in 0 .. (FINE_BLOCKS - 1), NEW slot \in Index
      PROVE  tables[Pt(i)][slot] = PtEntry(memoryMap, i, slot)
  <2>1. /\ Pt(i) \in Table /\ Pt(i) # PML4 /\ Pt(i) # PDPT
        /\ Pt(i) \notin Pd(0) .. Pd(PD_COUNT - 1)
        /\ Pt(i) \in Pt(0) .. Pt(FINE_BLOCKS - 1) /\ Pt(i) - Pt(0) = i
    <3>1. i \in Nat /\ i < FINE_BLOCKS
      BY Sizes
    <3>2. Pt(i) \in Table
      BY ZenonT(60), TableNumbers
    <3>3. Pt(i) # PML4 /\ Pt(i) # PDPT /\ Pt(i) \notin Pd(0) .. Pd(PD_COUNT - 1)
      BY <3>1, Sizes DEF Pd, Pt, PML4, PDPT
    <3>4. Pt(i) \in Pt(0) .. Pt(FINE_BLOCKS - 1) /\ Pt(i) - Pt(0) = i
      BY <3>1, Sizes DEF Pt
    <3> QED
      BY ZenonT(60), <3>2, <3>3, <3>4
  <2> QED
    BY ZenonT(60), <2>1 DEF Build
<1> QED
  BY <1>1, <1>2, <1>3, <1>4 DEF HoldsIdentity, Pointer

\* What the kernel's walk finds below user space.
IdentityEntry(memoryMap, page) ==
    IF Block(page) < FINE_BLOCKS
    THEN PtEntry(memoryMap, Block(page), page % ENTRIES)
    ELSE PdEntry(memoryMap, Directory(page), Block(page) % ENTRIES)

\* A walk below the user window ends at the page itself, or faults at a page that
\* the map does not have.
LEMMA IdentityWalk ==
    ASSUME NEW tables, NEW memoryMap, HoldsIdentity(tables, memoryMap), NEW page \in Nat, page < USER_BASE
    PROVE  Walk(tables, page, 0) =
               IF ~ IdentityEntry(memoryMap, page).present
               THEN Fault
               ELSE [present |-> TRUE, page |-> page, writable |-> TRUE]
<1> DEFINE d == Directory(page)
           b == Block(page)
           s == b % ENTRIES
           o == page % ENTRIES
<1>1. /\ b \in Nat /\ d \in 0 .. (PD_COUNT - 1) /\ s \in Index /\ o \in Index
      /\ d * ENTRIES + s = b /\ b * ENTRIES + o = page
  BY ZenonT(60), Slots, KernelSlots
<1>2. /\ (page \div (ENTRIES * PD_COVERAGE)) % ENTRIES = 0
      /\ (page \div PD_COVERAGE) % ENTRIES = d
      /\ (page \div BLOCK_SIZE) % ENTRIES = s
  <2>1. 0 % ENTRIES = 0
    BY Sizes
  <2> QED
    BY ZenonT(60), <2>1, Slots, KernelSlots
<1> HIDE DEF d, b, s, o
<1>3. /\ tables[PML4][0].present /\ tables[PML4][0].to = PDPT
      /\ tables[PDPT][d] = Pointer(Pd(d))
      /\ tables[Pd(d)][s] = PdEntry(memoryMap, d, s)
  BY ZenonT(60), <1>1 DEF HoldsIdentity
<1>4. Pointer(Pd(d)).present /\ Pointer(Pd(d)).to = Pd(d)
  BY ZenonT(60) DEF Pointer
<1>5. Walk(tables, page, 0) =
          IF ~ PdEntry(memoryMap, d, s).present THEN Fault
          ELSE IF PdEntry(memoryMap, d, s).leaf
          THEN [present |-> TRUE, page |-> PdEntry(memoryMap, d, s).to + o,
                writable |-> PdEntry(memoryMap, d, s).writable]
          ELSE IF ~ tables[PdEntry(memoryMap, d, s).to][o].present THEN Fault
          ELSE [present |-> TRUE, page |-> tables[PdEntry(memoryMap, d, s).to][o].to,
                writable |-> tables[PdEntry(memoryMap, d, s).to][o].writable]
  <2>1. 0 # 3
    OBVIOUS
  <2> QED
    BY ZenonT(60), <1>2, <1>3, <1>4, <2>1 DEF Walk, Passes, o
<1>6. CASE b < FINE_BLOCKS
  <2>1. PdEntry(memoryMap, d, s) = Pointer(Pt(b))
    BY ZenonT(60), <1>1, <1>6 DEF PdEntry
  <2>2. tables[Pt(b)][o] = PtEntry(memoryMap, b, o)
    <3>1. b \in 0 .. (FINE_BLOCKS - 1)
      BY <1>1, <1>6, Sizes
    <3> QED
      BY ZenonT(60), <1>1, <3>1 DEF HoldsIdentity
  <2>3. PtEntry(memoryMap, b, o) \in {NotPresent, Leaf(page)}
    BY ZenonT(60), <1>1, Sizes DEF PtEntry
  <2>4. IdentityEntry(memoryMap, page) = PtEntry(memoryMap, b, o)
    BY ZenonT(60), <1>6 DEF IdentityEntry, b, o
  <2> QED
    BY <1>5, <2>1, <2>2, <2>3, <2>4 DEF Pointer, Leaf, NotPresent
<1>7. CASE ~ (b < FINE_BLOCKS)
  <2>1. PdEntry(memoryMap, d, s) \in {NotPresent, Leaf(b * ENTRIES)}
    BY ZenonT(60), <1>1, <1>7, Sizes DEF PdEntry
  <2>2. IdentityEntry(memoryMap, page) = PdEntry(memoryMap, d, s)
    BY ZenonT(60), <1>7 DEF IdentityEntry, b, s, d
  <2> QED
    BY <1>1, <1>5, <2>1, <2>2 DEF Leaf, NotPresent
<1> QED
  BY ZenonT(60), <1>6, <1>7

\* What overlaps a page overlaps everything around it.
LEMMA OverlapsMore ==
    ASSUME NEW region, region.base \in Nat, region.pages \in Nat,
           NEW page \in Nat, NEW start \in Nat, NEW end \in Nat, start <= page, page + 1 <= end,
           Overlaps(region, page, page + 1)
    PROVE  Overlaps(region, start, end)
  BY DEF Overlaps, RegionEnd

\* RAM below the limit is mapped, page 0 excepted ...
LEMMA RamIsMapped ==
    ASSUME NEW memoryMap \in Seq(Region), NEW page \in Nat, page # 0, page < IdentityLimit(memoryMap),
           IdentityLimit(memoryMap) \in Nat, OverlapsRam(memoryMap, page, page + 1)
    PROVE  IdentityEntry(memoryMap, page).present
<1> DEFINE d == Directory(page)
           b == Block(page)
           s == b % ENTRIES
           o == page % ENTRIES
<1>1. /\ b \in Nat /\ s \in Index /\ o \in Index /\ d \in Nat
      /\ d * ENTRIES + s = b /\ b * ENTRIES + o = page
  BY ZenonT(60), Slots
<1> HIDE DEF d, b, s, o
<1>2. CASE b < FINE_BLOCKS
  <2>1. PtEntry(memoryMap, b, o) = Leaf(page)
    BY ZenonT(60), <1>1, Sizes DEF PtEntry
  <2> QED
    BY <1>2, <2>1 DEF IdentityEntry, b, o, Leaf
<1>3. CASE ~ (b < FINE_BLOCKS)
  <2>1. /\ b * ENTRIES \in Nat /\ b * ENTRIES <= page /\ page + 1 <= b * ENTRIES + ENTRIES
    BY <1>1, Sizes DEF Index
  <2>2. OverlapsRam(memoryMap, b * ENTRIES, b * ENTRIES + ENTRIES)
    <3>1. PICK i \in DOMAIN memoryMap : IsRam(memoryMap[i].kind) /\ Overlaps(memoryMap[i], page, page + 1)
      BY ZenonT(60) DEF OverlapsRam
    <3>2. memoryMap[i].base \in Nat /\ memoryMap[i].pages \in Nat
      <4>1. memoryMap[i] \in Region
        BY <3>1
      <4> QED
        BY ZenonT(60), <4>1 DEF Region
    <3>3. Overlaps(memoryMap[i], b * ENTRIES, b * ENTRIES + ENTRIES)
      BY <2>1, <3>1, <3>2, OverlapsMore, Sizes
    <3> QED
      BY ZenonT(60), <3>1, <3>3 DEF OverlapsRam
  <2>3. PdEntry(memoryMap, d, s) = Leaf(b * ENTRIES)
    BY <1>1, <1>3, <2>1, <2>2, Sizes DEF PdEntry
  <2> QED
    BY <1>3, <2>3 DEF IdentityEntry, b, d, s, Leaf
<1> QED
  BY ZenonT(60), <1>2, <1>3

\* ... and what is mapped shares a block with RAM.
LEMMA MappedIsNearRam ==
    ASSUME NEW memoryMap \in Seq(Region), NEW page \in Nat, IdentityEntry(memoryMap, page).present
    PROVE  page # 0 /\ OverlapsRam(memoryMap, page - (page % BLOCK_SIZE), page - (page % BLOCK_SIZE) + BLOCK_SIZE)
<1> DEFINE d == Directory(page)
           b == Block(page)
           s == b % ENTRIES
           o == page % ENTRIES
<1>1. /\ b \in Nat /\ s \in Index /\ o \in Index /\ d \in Nat
      /\ d * ENTRIES + s = b /\ b * ENTRIES + o = page /\ page % BLOCK_SIZE = o
  BY ZenonT(60), Slots, Sizes
<1>2. page - (page % BLOCK_SIZE) = b * ENTRIES /\ b * ENTRIES \in Nat
  <2> HIDE DEF b, o
  <2>1. b * ENTRIES \in Nat /\ o \in Nat
    BY <1>1, Sizes DEF Index
  <2> QED
    BY <1>1, <2>1
<1> HIDE DEF d, b, s, o
<1>3. CASE b < FINE_BLOCKS
  <2>1. IdentityEntry(memoryMap, page) = PtEntry(memoryMap, b, o)
    BY ZenonT(60), <1>3 DEF IdentityEntry, b, o
  <2>2. page # 0 /\ OverlapsRam(memoryMap, page, page + 1)
    BY <1>1, <2>1, Sizes DEF PtEntry, NotPresent
  <2>3. /\ b * ENTRIES <= page /\ page + 1 <= b * ENTRIES + ENTRIES
    BY <1>1, <1>2, Sizes DEF Index
  <2>4. PICK i \in DOMAIN memoryMap : IsRam(memoryMap[i].kind) /\ Overlaps(memoryMap[i], page, page + 1)
    BY ZenonT(60), <2>2 DEF OverlapsRam
  <2>5. memoryMap[i].base \in Nat /\ memoryMap[i].pages \in Nat
    <3>1. memoryMap[i] \in Region
      BY <2>4
    <3> QED
      BY ZenonT(60), <3>1 DEF Region
  <2>6. Overlaps(memoryMap[i], b * ENTRIES, b * ENTRIES + ENTRIES)
    <3>1. b * ENTRIES \in Nat /\ b * ENTRIES + ENTRIES \in Nat
      BY <1>2, Sizes
    <3> QED
      BY ZenonT(60), <2>3, <2>4, <2>5, <3>1, OverlapsMore
  <2>7. OverlapsRam(memoryMap, b * ENTRIES, b * ENTRIES + ENTRIES)
    BY ZenonT(60), <2>4, <2>6 DEF OverlapsRam
  <2> QED
    BY ZenonT(60), <1>2, <2>2, <2>7, Sizes
<1>4. CASE ~ (b < FINE_BLOCKS)
  <2>1. IdentityEntry(memoryMap, page) = PdEntry(memoryMap, d, s)
    BY ZenonT(60), <1>4 DEF IdentityEntry, b, d, s
  <2>2. OverlapsRam(memoryMap, b * ENTRIES, b * ENTRIES + ENTRIES)
    BY <1>1, <1>4, <2>1, Sizes DEF PdEntry, NotPresent
  <2>3. page # 0
    <3>1. b * ENTRIES >= ENTRIES /\ b * ENTRIES \in Nat /\ o \in Nat
      BY <1>1, <1>4, Sizes, Monotone DEF Index
    <3> QED
      BY <1>1, <3>1, Sizes
  <2> QED
    BY ZenonT(60), <1>2, <2>2, <2>3, Sizes
<1> QED
  BY ZenonT(60), <1>3, <1>4

-----------------------------------------------------------------------------
(* The user region *)

Entry == [present : BOOLEAN, leaf : BOOLEAN, to : Nat, writable : BOOLEAN, user : BOOLEAN]

\* As far as map_user_region relies on it.
IsArena(tables) ==
    /\ tables = [table \in Table |-> tables[table]]
    /\ tables[PML4] = [slot \in Index |-> tables[PML4][slot]]
    /\ tables[PDPT] = [slot \in Index |-> tables[PDPT][slot]]
    /\ tables[PML4][0] \in Entry

\* Nothing is mapped above the identity map and the user region.
NothingAbove(tables) ==
    /\ \A i \in Index : i # 0 => tables[PML4][i] = NotPresent
    /\ \A i \in Index : i > PD_COUNT => tables[PDPT][i] = NotPresent

\* What map_user_region writes, as the walk reads it.
HoldsUser(tables, mappings) ==
    /\ tables[PML4][0].user
    /\ tables[PDPT][USER_INDEX] = UserPointer(UserPd)
    /\ \A slot \in Index :
          tables[UserPd][slot] = IF slot < PtCount(mappings) THEN UserPointer(UserPt(slot)) ELSE NotPresent
    /\ \A i \in Index, slot \in Index :
          i < PtCount(mappings) =>
              tables[UserPt(i)][slot] = UserPtEntry(mappings, USER_BASE + i * ENTRIES + slot)

\* The tables before user::init.
LEMMA BuildAbove ==
    ASSUME NEW memoryMap
    PROVE  IsArena(Build(memoryMap)) /\ NothingAbove(Build(memoryMap)) /\ Build(memoryMap)[PDPT][USER_INDEX] = NotPresent
<1> DEFINE tables == Build(memoryMap)
<1>1. PML4 \in Table /\ PDPT \in Table /\ PML4 # PDPT /\ 0 \in Index /\ PD_COUNT \in Index
  BY TableNumbers
<1>2. /\ tables = [table \in Table |-> tables[table]]
      /\ tables[PML4] = [slot \in Index |-> tables[PML4][slot]]
      /\ tables[PDPT] = [slot \in Index |-> tables[PDPT][slot]]
  BY ZenonT(60), <1>1 DEF Build
<1>3. tables[PML4][0] = Pointer(PDPT) /\ Pointer(PDPT) \in Entry
  BY ZenonT(60), <1>1 DEF Build, Pointer, Entry, PDPT
<1>4. PML4 \notin Pd(0) .. Pd(PD_COUNT - 1) /\ PML4 \notin Pt(0) .. Pt(FINE_BLOCKS - 1)
  BY Sizes DEF PML4, Pd, Pt
<1>5. PDPT \notin Pd(0) .. Pd(PD_COUNT - 1) /\ PDPT \notin Pt(0) .. Pt(FINE_BLOCKS - 1)
  BY Sizes DEF PDPT, Pd, Pt
<1>6. \A i \in Index : i # 0 => tables[PML4][i] = NotPresent
  BY ZenonT(60), <1>1, <1>4 DEF Build
<1>7. \A i \in Index : ~ (i < PD_COUNT) => tables[PDPT][i] = NotPresent
  BY ZenonT(60), <1>1, <1>5 DEF Build
<1>8. \A i \in Index : i > PD_COUNT => ~ (i < PD_COUNT)
  BY Sizes DEF Index
<1>9. USER_INDEX \in Index /\ ~ (USER_INDEX < PD_COUNT)
  BY <1>1, Sizes
<1> HIDE DEF tables
<1>10. IsArena(tables)
  BY ZenonT(60), <1>2, <1>3 DEF IsArena
<1>11. NothingAbove(tables) /\ tables[PDPT][USER_INDEX] = NotPresent
  BY ZenonT(60), <1>6, <1>7, <1>8, <1>9 DEF NothingAbove
<1> QED
  BY ZenonT(60), <1>10, <1>11 DEF tables

\* The number of tables: enough for the last page of both mappings, and no more
\* than fit under one directory.
LEMMA PtCounts ==
    ASSUME NEW m1 \in Mapping, NEW m2 \in Mapping, MappingOk(m1), MappingOk(m2)
    PROVE  /\ PtCount(<<m1, m2>>) \in Nat \ {0} /\ PtCount(<<m1, m2>>) <= ENTRIES
           /\ (MappingEnd(m1) - USER_BASE - 1) \div ENTRIES < PtCount(<<m1, m2>>)
           /\ (MappingEnd(m2) - USER_BASE - 1) \div ENTRIES < PtCount(<<m1, m2>>)
<1> DEFINE Last(m) == (MappingEnd(m) - USER_BASE - 1) \div ENTRIES
           lastSlots == {Last(<<m1, m2>>[i]) : i \in DOMAIN <<m1, m2>>}
<1>1. ASSUME NEW m \in Mapping, MappingOk(m)
      PROVE  Last(m) \in Nat /\ Last(m) < ENTRIES
  <2>1. /\ MappingEnd(m) - USER_BASE - 1 \in Nat /\ MappingEnd(m) - USER_BASE - 1 < ENTRIES * ENTRIES
    BY <1>1, Sizes DEF MappingOk, MappingEnd, Mapping, USER_MAX
  <2> DEFINE n == MappingEnd(m) - USER_BASE - 1
  <2>2. n \div ENTRIES \in Nat /\ n % ENTRIES \in Nat /\ n = (n \div ENTRIES) * ENTRIES + (n % ENTRIES)
    BY ZenonT(60), <2>1, Sizes, Division
  <2>3. ASSUME ENTRIES <= n \div ENTRIES PROVE FALSE
    <3> HIDE DEF n
    <3>1. ENTRIES * ENTRIES <= (n \div ENTRIES) * ENTRIES /\ (n \div ENTRIES) * ENTRIES \in Nat
      BY ZenonT(60), <2>2, <2>3, Sizes, Monotone
    <3>2. n < ENTRIES * ENTRIES /\ n \in Nat /\ ENTRIES * ENTRIES \in Nat
      BY ZenonT(60), <2>1, Sizes DEF n
    <3> QED
      BY <2>2, <3>1, <3>2
  <2> QED
    BY <2>2, <2>3, Sizes
<1>2. lastSlots = {Last(m1), Last(m2)}
  OBVIOUS
<1>3. PICK top : top = CHOOSE slot \in lastSlots : \A other \in lastSlots : other <= slot
  BY ZenonT(60)
<1>4. PtCount(<<m1, m2>>) = 1 + top
  BY ZenonT(60), <1>3 DEF PtCount
<1>5. /\ Last(m1) \in Nat /\ Last(m1) < ENTRIES /\ Last(m2) \in Nat /\ Last(m2) < ENTRIES
  BY ZenonT(60), <1>1
<1>6. \E slot \in lastSlots : \A other \in lastSlots : other <= slot
  <2> HIDE DEF Last, lastSlots
  <2> QED
    BY <1>2, <1>5
<1>7. top \in lastSlots /\ \A other \in lastSlots : other <= top
  <2> HIDE DEF lastSlots
  <2> QED
    BY ZenonT(60), <1>3, <1>6
<1>8. top \in Nat /\ top < ENTRIES /\ Last(m1) <= top /\ Last(m2) <= top
  <2> HIDE DEF Last, lastSlots
  <2> QED
    BY ZenonT(60), <1>2, <1>5, <1>7
<1>9. PtCount(<<m1, m2>>) \in Nat \ {0} /\ PtCount(<<m1, m2>>) <= ENTRIES
  BY <1>4, <1>8, Sizes
<1>10. Last(m1) < PtCount(<<m1, m2>>) /\ Last(m2) < PtCount(<<m1, m2>>)
  <2> HIDE DEF Last
  <2> QED
    BY <1>4, <1>5, <1>8
<1> QED
  BY ZenonT(60), <1>9, <1>10

\* Setting the U/S bit of the root entry.
LEMMA WithRoot ==
    ASSUME NEW tables, IsArena(tables)
    PROVE  /\ WithUserRoot(tables) = [table \in Table |-> WithUserRoot(tables)[table]]
           /\ WithUserRoot(tables)[PML4] = [slot \in Index |-> WithUserRoot(tables)[PML4][slot]]
           /\ WithUserRoot(tables)[PML4][0] = [tables[PML4][0] EXCEPT !.user = TRUE]
           /\ \A i \in Index : i # 0 => WithUserRoot(tables)[PML4][i] = tables[PML4][i]
           /\ \A table \in Table : table # PML4 => WithUserRoot(tables)[table] = tables[table]
  BY ZenonT(60), TableNumbers DEF WithUserRoot, IsArena

\* map_user_region leaves the identity map alone, whether it succeeds or not,
\* and reaches nothing but the user region.
LEMMA MapKeeps ==
    ASSUME NEW tables, NEW memoryMap, IsArena(tables), HoldsIdentity(tables, memoryMap), NothingAbove(tables),
           NEW new, IsArena(new),
           new[PML4][0].present = tables[PML4][0].present, new[PML4][0].to = tables[PML4][0].to,
           \A i \in Index : i # 0 => new[PML4][i] = tables[PML4][i],
           \A i \in Index : i # USER_INDEX => new[PDPT][i] = tables[PDPT][i],
           \A table \in Table :
               table < KERNEL_TABLE_PAGES /\ table # PML4 /\ table # PDPT => new[table] = tables[table]
    PROVE  HoldsIdentity(new, memoryMap) /\ NothingAbove(new)
<1>1. /\ \A i \in Index : i > PD_COUNT => i # USER_INDEX
      /\ \A i \in 0 .. (PD_COUNT - 1) : i \in Index /\ i # USER_INDEX
  BY Sizes, TableNumbers DEF Index
<1>2. NothingAbove(new)
  BY ZenonT(60), <1>1 DEF NothingAbove
<1>3. ASSUME NEW i \in 0 .. (PD_COUNT - 1) PROVE new[Pd(i)] = tables[Pd(i)]
  <2>1. Pd(i) \in Table /\ Pd(i) \in 2 .. (1 + PD_COUNT) /\ KERNEL_TABLE_PAGES > 2 + PD_COUNT
        /\ KERNEL_TABLE_PAGES \in Nat /\ PML4 = 0 /\ PDPT = 1
    BY ZenonT(60), TableNumbers
  <2>2. Pd(i) < KERNEL_TABLE_PAGES /\ Pd(i) # PML4 /\ Pd(i) # PDPT
    BY <2>1, Sizes
  <2> QED
    BY ZenonT(60), <2>1, <2>2
<1>4. ASSUME NEW i \in 0 .. (FINE_BLOCKS - 1) PROVE new[Pt(i)] = tables[Pt(i)]
  <2>1. Pt(i) \in Table /\ Pt(i) \in (2 + PD_COUNT) .. (KERNEL_TABLE_PAGES - 1)
        /\ KERNEL_TABLE_PAGES \in Nat /\ PML4 = 0 /\ PDPT = 1
    BY ZenonT(60), TableNumbers
  <2>2. Pt(i) < KERNEL_TABLE_PAGES /\ Pt(i) # PML4 /\ Pt(i) # PDPT
    BY <2>1, Sizes
  <2> QED
    BY ZenonT(60), <2>1, <2>2
<1>5. HoldsIdentity(new, memoryMap)
  BY <1>1, <1>3, <1>4 DEF HoldsIdentity
<1> QED
  BY ZenonT(60), <1>2, <1>5

\* map_user_region leaves the identity map alone, and writes the user window when it
\* succeeds.
LEMMA MapUserKeeps ==
    ASSUME NEW tables, NEW memoryMap, IsArena(tables), HoldsIdentity(tables, memoryMap), NothingAbove(tables),
           NEW m1 \in Mapping, NEW m2 \in Mapping, NEW new, new = MapUserRegion(tables, <<m1, m2>>)
    PROVE  /\ IsArena(new) /\ HoldsIdentity(new, memoryMap) /\ NothingAbove(new)
           /\ MapUserOk(tables, <<m1, m2>>) => HoldsUser(new, <<m1, m2>>)
           /\ ~ MapUserOk(tables, <<m1, m2>>) => new[PDPT] = tables[PDPT]
<1> DEFINE mappings == <<m1, m2>>
           root == WithUserRoot(tables)
<1>0. /\ PML4 \in Table /\ PDPT \in Table /\ PML4 # PDPT /\ 0 \in Index
      /\ PDPT < KERNEL_TABLE_PAGES /\ PML4 < KERNEL_TABLE_PAGES /\ KERNEL_TABLE_PAGES \in Nat
      /\ UserPd = KERNEL_TABLE_PAGES /\ USER_INDEX \in Index
  BY TableNumbers, Sizes
<1>1. mappings # <<>>
  BY ZenonT(60)
<1>2. /\ root = [table \in Table |-> root[table]]
      /\ root[PML4] = [slot \in Index |-> root[PML4][slot]]
      /\ root[PML4][0] = [tables[PML4][0] EXCEPT !.user = TRUE]
      /\ \A i \in Index : i # 0 => root[PML4][i] = tables[PML4][i]
      /\ \A table \in Table : table # PML4 => root[table] = tables[table]
  BY ZenonT(60), WithRoot
<1>3. root = WithUserRoot(tables)
  BY ZenonT(60)
<1> HIDE DEF root
<1>4. CASE MapUserRefused(tables, mappings)
  <2>1. new = tables /\ ~ MapUserOk(tables, mappings)
    BY ZenonT(60), <1>4 DEF MapUserRegion, MapUserOk
  <2> QED
    BY ZenonT(60), <2>1
<1>5. CASE ~ MapUserRefused(tables, mappings) /\ ~ MapUserOk(tables, mappings)
  <2>1. new = root
    BY ZenonT(60), <1>1, <1>5, <1>3 DEF MapUserRegion
  <2>2. new[PDPT] = tables[PDPT]
    BY ZenonT(60), <1>0, <1>2, <2>1
  <2>3. /\ new[PML4][0].present = tables[PML4][0].present /\ new[PML4][0].to = tables[PML4][0].to
        /\ new[PML4][0] \in Entry
    <3>1. new[PML4][0] = [tables[PML4][0] EXCEPT !.user = TRUE] /\ tables[PML4][0] \in Entry
      BY ZenonT(60), <1>2, <2>1 DEF IsArena
    <3> QED
      BY ZenonT(60), <3>1 DEF Entry
  <2>4. IsArena(new)
    BY ZenonT(60), <1>2, <2>1, <2>2, <2>3 DEF IsArena
  <2>5. HoldsIdentity(new, memoryMap) /\ NothingAbove(new)
    <3>1. /\ \A i \in Index : i # 0 => new[PML4][i] = tables[PML4][i]
          /\ \A table \in Table : table # PML4 => new[table] = tables[table]
      BY ZenonT(60), <1>2, <2>1
    <3> QED
      BY ZenonT(60), <2>2, <2>3, <2>4, <3>1, MapKeeps
  <2> QED
    BY ZenonT(60), <1>5, <2>2, <2>4, <2>5
<1>6. CASE MapUserOk(tables, mappings)
  <2> DEFINE count == PtCount(mappings)
             Table4(table) == [slot \in Index |->
                    UserPtEntry(mappings, USER_BASE + (table - UserPt(0)) * ENTRIES + slot)]
             Table3 == [slot \in Index |-> IF slot < count THEN UserPointer(UserPt(slot)) ELSE NotPresent]
  <2>1. ~ MapUserRefused(tables, mappings) /\ UserPt(count) <= ARENA_PAGES
    BY ZenonT(60), <1>6 DEF MapUserOk
  <2>2. MappingOk(m1) /\ MappingOk(m2)
    <3>1. \A i \in DOMAIN mappings : MappingOk(mappings[i])
      BY ZenonT(60), <2>1 DEF MapUserRefused
    <3>2. 1 \in DOMAIN mappings /\ 2 \in DOMAIN mappings /\ mappings[1] = m1 /\ mappings[2] = m2
      OBVIOUS
    <3> QED
      BY ZenonT(60), <3>1, <3>2
  <2>3. count \in Nat \ {0} /\ count <= ENTRIES
    BY ZenonT(60), <2>2, PtCounts
  <2>4. new = [table \in Table |->
            IF table = PML4 THEN root[PML4]
            ELSE IF table = PDPT THEN [tables[PDPT] EXCEPT ![USER_INDEX] = UserPointer(UserPd)]
            ELSE IF table = UserPd THEN Table3
            ELSE IF table \in UserPt(0) .. UserPt(count - 1) THEN Table4(table)
            ELSE tables[table]]
    BY ZenonT(60), <1>1, <1>6, <1>3, <2>1 DEF MapUserRegion
  <2> HIDE DEF count, Table3, Table4, mappings
  <2>5. /\ UserPd \in Table /\ UserPd # PML4 /\ UserPd # PDPT
        /\ \A i \in Nat : i < count => /\ UserPt(i) \in Table /\ UserPt(i) # PML4 /\ UserPt(i) # PDPT
                                       /\ UserPt(i) # UserPd
                                       /\ UserPt(i) \in UserPt(0) .. UserPt(count - 1)
                                       /\ UserPt(i) - UserPt(0) = i
        /\ \A table \in Table : table < KERNEL_TABLE_PAGES =>
              table # UserPd /\ table \notin UserPt(0) .. UserPt(count - 1)
    <3>1. ARENA_PAGES = KERNEL_TABLE_PAGES + USER_TABLE_PAGES /\ KERNEL_TABLE_PAGES > 2
      BY TableNumbers, Sizes DEF ARENA_PAGES
    <3> QED
      BY <1>0, <2>1, <2>3, <3>1, Sizes DEF Table, UserPt, UserPd, PML4, PDPT
  <2>6. /\ new[PML4] = root[PML4]
        /\ new[PDPT] = [tables[PDPT] EXCEPT ![USER_INDEX] = UserPointer(UserPd)]
        /\ new[UserPd] = Table3
        /\ \A i \in Nat : i < count => new[UserPt(i)] = Table4(UserPt(i))
        /\ \A table \in Table :
              table < KERNEL_TABLE_PAGES /\ table # PML4 /\ table # PDPT => new[table] = tables[table]
        /\ new = [table \in Table |-> new[table]]
    BY ZenonT(60), <1>0, <2>4, <2>5
  <2>7. /\ new[PML4][0].present = tables[PML4][0].present /\ new[PML4][0].to = tables[PML4][0].to
        /\ new[PML4][0] \in Entry /\ new[PML4][0].user
        /\ new[PML4] = [slot \in Index |-> new[PML4][slot]]
        /\ \A i \in Index : i # 0 => new[PML4][i] = tables[PML4][i]
    <3>1. new[PML4][0] = [tables[PML4][0] EXCEPT !.user = TRUE] /\ tables[PML4][0] \in Entry
      BY ZenonT(60), <1>2, <2>6 DEF IsArena
    <3>2. /\ new[PML4] = [slot \in Index |-> new[PML4][slot]]
          /\ \A i \in Index : i # 0 => new[PML4][i] = tables[PML4][i]
      BY <1>2, <2>6
    <3> QED
      BY ZenonT(60), <3>1, <3>2 DEF Entry
  <2>8. /\ new[PDPT] = [slot \in Index |-> new[PDPT][slot]]
        /\ new[PDPT][USER_INDEX] = UserPointer(UserPd)
        /\ \A i \in Index : i # USER_INDEX => new[PDPT][i] = tables[PDPT][i]
    BY ZenonT(60), <1>0, <2>6 DEF IsArena
  <2>9. IsArena(new)
    BY ZenonT(60), <2>6, <2>7, <2>8 DEF IsArena
  <2>10. HoldsIdentity(new, memoryMap) /\ NothingAbove(new)
    BY <2>6, <2>7, <2>8, <2>9, MapKeeps
  <2>11. HoldsUser(new, mappings)
    <3>1. ASSUME NEW slot \in Index
          PROVE  new[UserPd][slot] = IF slot < count THEN UserPointer(UserPt(slot)) ELSE NotPresent
      BY ZenonT(60), <2>6 DEF Table3
    <3>2. ASSUME NEW i \in Index, i < count, NEW slot \in Index
          PROVE  new[UserPt(i)][slot] = UserPtEntry(mappings, USER_BASE + i * ENTRIES + slot)
      <4>1. new[UserPt(i)] = Table4(UserPt(i)) /\ UserPt(i) - UserPt(0) = i
        <5>1. i \in Nat
          BY Sizes DEF Index
        <5> QED
          BY ZenonT(60), <2>5, <2>6, <3>2, <5>1
      <4> QED
        BY ZenonT(60), <4>1 DEF Table4
    <3> QED
      BY ZenonT(60), <2>7, <2>8, <3>1, <3>2 DEF HoldsUser, count
  <2> QED
    BY ZenonT(60), <1>6, <2>9, <2>10, <2>11 DEF mappings
<1> QED
  BY ZenonT(60), <1>4, <1>5, <1>6

\* An address the CPU can form: its root index is a slot of the root.
LEMMA HighSlots ==
    ASSUME NEW page \in Nat, page < ENTRIES * ENTRIES * PD_COVERAGE
    PROVE  /\ Directory(page) \div ENTRIES \in Index
           /\ (Directory(page) \div ENTRIES) % ENTRIES = Directory(page) \div ENTRIES
           /\ Directory(page) % ENTRIES \in Index
           /\ Directory(page) \div ENTRIES = 0 => Directory(page) % ENTRIES = Directory(page)
           /\ Directory(page) = (Directory(page) \div ENTRIES) * ENTRIES + (Directory(page) % ENTRIES)
<1> DEFINE d == Directory(page)
           t == d \div ENTRIES
           c == ENTRIES * PD_COVERAGE
<1>1. d \in Nat /\ page \div c = t
  BY ZenonT(60), Slots
<1>2. c \in Nat \ {0} /\ ENTRIES * ENTRIES * PD_COVERAGE = ENTRIES * c
  BY Sizes
<1> HIDE DEF d, c
<1>3. t \in Nat /\ d % ENTRIES \in Nat /\ d % ENTRIES < ENTRIES /\ d = t * ENTRIES + (d % ENTRIES)
  BY ZenonT(60), <1>1, Sizes, Division
<1> HIDE DEF t
<1>4. page % c \in Nat /\ page = t * c + (page % c)
  BY ZenonT(60), <1>1, <1>2, Division
<1>5. t < ENTRIES
  <2>1. ASSUME ENTRIES <= t PROVE FALSE
    <3>1. ENTRIES * c <= t * c /\ t * c \in Nat /\ ENTRIES * c \in Nat
      BY ZenonT(60), <1>2, <1>3, <2>1, Sizes, Monotone
    <3> QED
      BY <1>2, <1>4, <3>1
  <2> QED
    BY <1>3, <2>1, Sizes
<1>6. t % ENTRIES = t
  BY ZenonT(60), <1>3, <1>5, Sizes, SmallQuotient
<1>7. t \in Index /\ d % ENTRIES \in Index
  BY <1>3, <1>5, Sizes DEF Index
<1>8. t = 0 => d % ENTRIES = d
  BY <1>1, <1>3, Sizes
<1> QED
  BY ZenonT(60), <1>3, <1>6, <1>7, <1>8 DEF t, d

\* CPL 3 gets nowhere outside the user region.
LEMMA NoWay ==
    ASSUME NEW tables, NEW memoryMap, HoldsIdentity(tables, memoryMap), NothingAbove(tables),
           NEW page \in Nat, page < ENTRIES * ENTRIES * PD_COVERAGE,
           Directory(page) = PD_COUNT => tables[PDPT][USER_INDEX] = NotPresent
    PROVE  Walk(tables, page, 3) = Fault
<1> DEFINE d == Directory(page)
           t == d \div ENTRIES
<1>1. /\ (page \div (ENTRIES * PD_COVERAGE)) % ENTRIES = t
      /\ (page \div PD_COVERAGE) % ENTRIES = d % ENTRIES
      /\ t \in Index /\ d % ENTRIES \in Index /\ d \in Nat
      /\ t = 0 => d % ENTRIES = d
  BY ZenonT(60), Slots, HighSlots
<1> HIDE DEF t, d
<1>2. ~ Passes(NotPresent, 3) /\ \A i : ~ Passes(Pointer(i), 3)
  BY ZenonT(60) DEF Passes, NotPresent, Pointer
<1>3. CASE t # 0
  <2>1. tables[PML4][t] = NotPresent
    BY ZenonT(60), <1>1, <1>3 DEF NothingAbove
  <2> QED
    BY ZenonT(60), <1>1, <1>2, <2>1 DEF Walk
<1>4. CASE t = 0
  <2>1. tables[PML4][0].to = PDPT /\ d \in Index
    BY ZenonT(60), <1>1, <1>4 DEF HoldsIdentity
  <2>2. ~ Passes(tables[PDPT][d], 3)
    <3>1. CASE d < PD_COUNT
      <4>1. d \in 0 .. (PD_COUNT - 1)
        BY <1>1, <3>1, Sizes
      <4> QED
        BY ZenonT(60), <1>2, <4>1 DEF HoldsIdentity
    <3>2. CASE d = PD_COUNT
      BY ZenonT(60), <1>2, <3>2, Sizes DEF d
    <3>3. CASE d > PD_COUNT
      BY ZenonT(60), <1>2, <2>1, <3>3 DEF NothingAbove
    <3> QED
      BY <1>1, <3>1, <3>2, <3>3, Sizes
  <2> QED
    BY ZenonT(60), <1>1, <1>4, <2>1, <2>2 DEF Walk
<1> QED
  BY ZenonT(60), <1>3, <1>4

\* The pages of the user region.
LEMMA UserSlots ==
    ASSUME NEW page \in Nat
    PROVE  /\ Directory(page) = PD_COUNT <=> USER_BASE <= page /\ page < USER_BASE + USER_MAX
           /\ Directory(page) = PD_COUNT =>
                 /\ page = USER_BASE + (Block(page) % ENTRIES) * ENTRIES + (page % ENTRIES)
                 /\ (page - USER_BASE) \div ENTRIES = Block(page) % ENTRIES
<1> DEFINE d == Directory(page)
           b == Block(page)
           s == b % ENTRIES
           o == page % ENTRIES
<1>1. /\ b \in Nat /\ s \in Index /\ o \in Index /\ d \in Nat
      /\ b = d * ENTRIES + s /\ page = b * ENTRIES + o
  BY ZenonT(60), Slots
<1> HIDE DEF d, b, s, o
<1>2. s \in Nat /\ s < ENTRIES /\ o \in Nat /\ o < ENTRIES
  BY <1>1, Sizes DEF Index
<1>3. page = d * PD_COVERAGE + (s * ENTRIES + o)
  BY <1>1, <1>2, Sizes
<1>4. s * ENTRIES + o \in Nat /\ s * ENTRIES + o < PD_COVERAGE
  <2>1. (s + 1) * ENTRIES <= ENTRIES * ENTRIES
    BY <1>2, Sizes, Monotone
  <2>2. (s + 1) * ENTRIES = s * ENTRIES + ENTRIES /\ s * ENTRIES \in Nat
    BY <1>2, Sizes
  <2> QED
    BY <1>2, <2>1, <2>2, Sizes
<1>5. CASE d = PD_COUNT
  <2>1. page = USER_BASE + (s * ENTRIES + o)
    BY ZenonT(60), <1>3, <1>5, Sizes
  <2>2. USER_BASE <= page /\ page < USER_BASE + USER_MAX
    BY <1>4, <2>1, Sizes DEF USER_MAX
  <2>3. page - USER_BASE = s * ENTRIES + o
    BY <1>4, <2>1, Sizes
  <2>4. (page - USER_BASE) \div ENTRIES = s
    BY <1>2, <2>3, Sizes, Quotient
  <2>5. page = USER_BASE + s * ENTRIES + o
    BY <1>2, <2>1, Sizes
  <2> QED
    BY ZenonT(60), <1>5, <2>2, <2>4, <2>5 DEF d, s, b, o
<1>6. CASE d < PD_COUNT
  <2>1. (d + 1) * PD_COVERAGE <= PD_COUNT * PD_COVERAGE
    BY <1>1, <1>6, Sizes, Monotone
  <2>2. (d + 1) * PD_COVERAGE = d * PD_COVERAGE + PD_COVERAGE /\ d * PD_COVERAGE \in Nat
    BY <1>1, Sizes
  <2>3. page < USER_BASE
    BY <1>3, <1>4, <2>1, <2>2, Sizes
  <2> QED
    BY <1>1, <1>6, <2>3, Sizes DEF d
<1>7. CASE d > PD_COUNT
  <2>1. (PD_COUNT + 1) * PD_COVERAGE <= d * PD_COVERAGE
    BY <1>1, <1>7, Sizes, Monotone
  <2>2. (PD_COUNT + 1) * PD_COVERAGE = USER_BASE + PD_COVERAGE /\ d * PD_COVERAGE \in Nat
    BY <1>1, Sizes
  <2>3. ~ (page < USER_BASE + USER_MAX)
    BY <1>3, <1>4, <2>1, <2>2, Sizes DEF USER_MAX
  <2> QED
    BY <1>1, <1>7, <2>3, Sizes DEF d
<1> QED
  BY <1>1, <1>5, <1>6, <1>7, Sizes

\* The leaf of a page that no, or exactly one, of two mappings covers.
Covers(m, page) == m.vaddr <= page /\ page < MappingEnd(m)

\* It is the one that mapping asks for.
LEMMA LeafOf ==
    ASSUME NEW m1, NEW m2, NEW page, ~ (Covers(m1, page) /\ Covers(m2, page))
    PROVE  UserPtEntry(<<m1, m2>>, page) =
               IF Covers(m1, page) THEN UserLeaf(m1.paddr + (page - m1.vaddr), m1.writable)
               ELSE IF Covers(m2, page) THEN UserLeaf(m2.paddr + (page - m2.vaddr), m2.writable)
               ELSE NotPresent
<1> DEFINE mappings == <<m1, m2>>
           covering == {i \in DOMAIN mappings : Covers(mappings[i], page)}
           last == CHOOSE i \in covering : \A j \in covering : j <= i
           m == mappings[last]
<1>1. UserPtEntry(mappings, page) =
          IF covering = {} THEN NotPresent ELSE UserLeaf(m.paddr + (page - m.vaddr), m.writable)
  BY ZenonT(60) DEF UserPtEntry, Covers
<1>2. DOMAIN mappings = {1, 2} /\ mappings[1] = m1 /\ mappings[2] = m2
  OBVIOUS
<1> HIDE DEF mappings
<1>3. CASE Covers(m1, page)
  <2>1. covering = {1}
    BY ZenonT(60), <1>2, <1>3
  <2>2. last = 1
    BY <2>1
  <2> QED
    BY ZenonT(60), <1>1, <1>2, <1>3, <2>1, <2>2 DEF mappings
<1>4. CASE ~ Covers(m1, page) /\ Covers(m2, page)
  <2>1. covering = {2}
    BY ZenonT(60), <1>2, <1>4
  <2>2. last = 2
    BY <2>1
  <2> QED
    BY ZenonT(60), <1>1, <1>2, <1>4, <2>1, <2>2 DEF mappings
<1>5. CASE ~ Covers(m1, page) /\ ~ Covers(m2, page)
  <2>1. covering = {}
    BY ZenonT(60), <1>2, <1>5
  <2> QED
    BY ZenonT(60), <1>1, <1>5, <2>1 DEF mappings
<1> QED
  BY ZenonT(60), <1>3, <1>4, <1>5

\* What CPL 3 finds in the user region.
LEMMA UserWalk ==
    ASSUME NEW tables, NEW memoryMap, HoldsIdentity(tables, memoryMap), NEW m1 \in Mapping, NEW m2 \in Mapping,
           MappingOk(m1), MappingOk(m2), HoldsUser(tables, <<m1, m2>>),
           NEW page \in Nat, Directory(page) = PD_COUNT,
           ~ (Covers(m1, page) /\ Covers(m2, page))
    PROVE  Walk(tables, page, 3) =
               IF Covers(m1, page)
               THEN [present |-> TRUE, page |-> m1.paddr + (page - m1.vaddr), writable |-> m1.writable]
               ELSE IF Covers(m2, page)
               THEN [present |-> TRUE, page |-> m2.paddr + (page - m2.vaddr), writable |-> m2.writable]
               ELSE Fault
<1> DEFINE s == Block(page) % ENTRIES
           o == page % ENTRIES
           count == PtCount(<<m1, m2>>)
           leaf == UserPtEntry(<<m1, m2>>, page)
<1>1. /\ s \in Index /\ o \in Index /\ page = USER_BASE + s * ENTRIES + o
      /\ (page - USER_BASE) \div ENTRIES = s
      /\ USER_BASE <= page
  BY ZenonT(60), Slots, UserSlots
<1>2. /\ (page \div (ENTRIES * PD_COVERAGE)) % ENTRIES = 0
      /\ (page \div PD_COVERAGE) % ENTRIES = USER_INDEX
      /\ (page \div BLOCK_SIZE) % ENTRIES = s
  <2>1. PD_COUNT \div ENTRIES = 0 /\ PD_COUNT % ENTRIES = PD_COUNT /\ 0 % ENTRIES = 0
    BY Sizes, SmallQuotient
  <2> QED
    BY ZenonT(60), <2>1, Slots, Sizes
<1>3. /\ tables[PML4][0].present /\ tables[PML4][0].user /\ tables[PML4][0].to = PDPT
      /\ tables[PDPT][USER_INDEX] = UserPointer(UserPd)
      /\ tables[UserPd][s] = IF s < count THEN UserPointer(UserPt(s)) ELSE NotPresent
      /\ s < count => tables[UserPt(s)][o] = leaf
  BY ZenonT(60), <1>1 DEF HoldsIdentity, HoldsUser
<1>4. ASSUME NEW m \in {m1, m2}, Covers(m, page) PROVE s < count
  <2>1. (MappingEnd(m) - USER_BASE - 1) \div ENTRIES < count /\ m \in Mapping
        /\ count \in Nat
    BY ZenonT(60), <1>4, PtCounts
  <2>2. MappingEnd(m) \in Nat /\ page <= MappingEnd(m) - 1
    BY <1>4, <2>1 DEF Covers, MappingEnd, Mapping
  <2> DEFINE last == MappingEnd(m) - USER_BASE - 1
             p == page - USER_BASE
  <2>3. last \in Nat /\ p \in Nat /\ p <= last
    BY <1>1, <2>2, Sizes
  <2>4. p \div ENTRIES = s /\ last \div ENTRIES < count
    BY ZenonT(60), <1>1, <2>1
  <2> HIDE DEF last, p, s, count
  <2>5. p \div ENTRIES <= last \div ENTRIES /\ p \div ENTRIES \in Nat /\ last \div ENTRIES \in Nat
    BY ZenonT(60), <2>3, Sizes, QuotientMonotone, Division
  <2> QED
    BY <2>1, <2>4, <2>5 DEF count
<1>5. /\ Passes(tables[PML4][0], 3)
      /\ \A i : Passes(UserPointer(i), 3) /\ UserPointer(i).to = i /\ ~ UserPointer(i).leaf
      /\ ~ Passes(NotPresent, 3)
      /\ \A i, w : /\ Passes(UserLeaf(i, w), 3) /\ UserLeaf(i, w).to = i
                   /\ UserLeaf(i, w).writable = w
  BY ZenonT(60), <1>3 DEF Passes, UserPointer, Pointer, UserLeaf, Leaf, NotPresent
<1> HIDE DEF s, count, leaf
<1>6. CASE s < count
  <2>1. Walk(tables, page, 3) =
            IF ~ Passes(leaf, 3) THEN Fault
            ELSE [present |-> TRUE, page |-> leaf.to, writable |-> leaf.writable]
    <3>1. tables[UserPd][s] = UserPointer(UserPt(s)) /\ tables[UserPt(s)][o] = leaf
      BY ZenonT(60), <1>3, <1>6
    <3>2. PICK e1, e2, e3, e4 :
              /\ e1 = tables[PML4][0] /\ e2 = UserPointer(UserPd)
              /\ e3 = UserPointer(UserPt(s)) /\ e4 = leaf
      BY ZenonT(60)
    <3>3. /\ e1 = tables[PML4][(page \div (ENTRIES * PD_COVERAGE)) % ENTRIES]
          /\ e2 = tables[e1.to][(page \div PD_COVERAGE) % ENTRIES]
          /\ e3 = tables[e2.to][(page \div BLOCK_SIZE) % ENTRIES]
          /\ e4 = tables[e3.to][page % ENTRIES]
      BY ZenonT(60), <1>2, <1>3, <1>5, <3>1, <3>2
    <3>4. Passes(e1, 3) /\ Passes(e2, 3) /\ Passes(e3, 3) /\ ~ e3.leaf
      BY ZenonT(60), <1>5, <3>2
    <3>5. Walk(tables, page, 3) =
              IF ~ Passes(e3, 3) THEN Fault
              ELSE IF e3.leaf
              THEN [present |-> TRUE, page |-> e3.to + (page % ENTRIES), writable |-> e3.writable]
              ELSE IF ~ Passes(e4, 3) THEN Fault
              ELSE [present |-> TRUE, page |-> e4.to, writable |-> e4.writable]
      BY ZenonT(60), <3>3, <3>4 DEF Walk
    <3>6. e4 = leaf
      BY ZenonT(60), <3>2
    <3> QED
      BY ZenonT(60), <3>4, <3>5, <3>6
  <2>2. leaf = IF Covers(m1, page) THEN UserLeaf(m1.paddr + (page - m1.vaddr), m1.writable)
               ELSE IF Covers(m2, page) THEN UserLeaf(m2.paddr + (page - m2.vaddr), m2.writable)
               ELSE NotPresent
    BY ZenonT(60), LeafOf DEF leaf
  <2> QED
    BY ZenonT(60), <1>5, <2>1, <2>2
<1>7. CASE ~ (s < count)
  <2>1. ~ Covers(m1, page) /\ ~ Covers(m2, page)
    BY ZenonT(60), <1>4, <1>7
  <2>2. Walk(tables, page, 3) = Fault
    <3>1. tables[UserPd][s] = NotPresent
      BY ZenonT(60), <1>3, <1>7
    <3>2. PICK e1, e2, e3, e4 :
              /\ e1 = tables[PML4][0] /\ e2 = UserPointer(UserPd)
              /\ e3 = NotPresent /\ e4 = tables[e3.to][o]
      BY ZenonT(60)
    <3>3. /\ e1 = tables[PML4][(page \div (ENTRIES * PD_COVERAGE)) % ENTRIES]
          /\ e2 = tables[e1.to][(page \div PD_COVERAGE) % ENTRIES]
          /\ e3 = tables[e2.to][(page \div BLOCK_SIZE) % ENTRIES]
          /\ e4 = tables[e3.to][page % ENTRIES]
      BY ZenonT(60), <1>2, <1>3, <1>5, <3>1, <3>2
    <3>4. Passes(e1, 3) /\ Passes(e2, 3) /\ ~ Passes(e3, 3)
      BY ZenonT(60), <1>5, <3>2
    <3> QED
      BY ZenonT(60), <3>3, <3>4 DEF Walk
  <2> QED
    BY ZenonT(60), <2>1, <2>2
<1> QED
  BY ZenonT(60), <1>6, <1>7

-----------------------------------------------------------------------------
(* Frames: the invariant *)

\* While init goes through the map nothing is out, and what is allocatable so
\* far comes from the regions already marked.
MarkedSoFar ==
    /\ stage \in {"firmware", "paged"} => allocatable = {} /\ used = {}
    /\ stage \in {"firmware", "paged", "marking"} => held = {}
    /\ stage \in {"firmware", "paged", "marking", "heap"} => heap = {}
    /\ \A f \in allocatable : \E i \in 1 .. marked :
          map[i].kind = "Conventional" /\ map[i].base <= f /\ f < RegionEnd(map[i])
    /\ \A f \in allocatable : ~ IsReserved(f)

\* The inductive invariant: the properties rest on each other and on how
\* far init has got.
FrameInv ==
    /\ TypeOK
    /\ FreeCountIsExact
    /\ HeldFramesAreUsed
    /\ MarkedSoFar

\* What the self-check returns is not the heap's: it got its frames after the
\* heap was taken.
CheckIsAway ==
    /\ check \in Seq(Nat)
    /\ stage \in {"firmware", "paged", "marking", "heap"} => check = <<>>
    /\ \A i \in DOMAIN check : check[i] \notin heap

\* Frames are page numbers.
LEMMA ManagedNat ==
    ASSUME limit \in Nat
    PROVE  Managed \subseteq Nat
  BY MinFreeAssumption DEF Managed

\* Steps that leave the allocator and the heap alone.
LEMMA SameFramesInv ==
    ASSUME FrameInv, UNCHANGED <<frameVars, heap>>, stage' \in Stage,
           stage' \notin {"firmware", "paged", "marking"} \/ stage' = stage,
           stage' = "heap" => heap = {}
    PROVE  FrameInv'
  BY ZenonT(60) DEF FrameInv, TypeOK, FreeCountIsExact, HeldFramesAreUsed, MarkedSoFar, frameVars, Managed,
         IsReserved, RegionEnd

\* The self-check's own frames: only TakeHeap changes the heap, when it has none
\* yet, and a frame it allocates was not held, so not the heap's.
LEMMA CheckIsAwayNext == FrameInv /\ CheckIsAway /\ [Next]_vars => CheckIsAway'
<1>. SUFFICES ASSUME FrameInv, CheckIsAway, [Next]_vars PROVE CheckIsAway'
  BY ZenonT(60)
<1>0. heap \subseteq held /\ limit \in Nat
  BY ZenonT(60) DEF FrameInv, TypeOK
<1>1. CASE TakeHeap
  BY <1>1 DEF TakeHeap, CheckIsAway
<1>2. CASE CheckAlloc
  <2>1. stage \in {"first", "second", "again"} /\ heap' = heap
        /\ stage' \in {"rejected", "second", "return_first", "return_again"}
    BY ZenonT(60), <1>2 DEF CheckAlloc
  <2>2. CASE check' = check
    BY ZenonT(60), <2>1, <2>2 DEF CheckIsAway
  <2>3. ASSUME NEW f \in Managed, FoundRun(f, 1), check' = Append(check, f)
        PROVE  CheckIsAway'
    <3>1. f \in Nat
      BY ZenonT(60), <1>0, ManagedNat
    <3>2. f \in allocatable /\ f \notin used
      <4>1. f \in Run(f, 1)
        BY <3>1 DEF Run
      <4>. QED
        BY ZenonT(60), <2>3, <4>1 DEF FoundRun, FreeRuns, IsFree
    <3>3. f \notin heap
      BY ZenonT(60), <3>2, <1>0 DEF FrameInv, HeldFramesAreUsed
    <3>4. /\ check' \in Seq(Nat) /\ DOMAIN check' = 1 .. (Len(check) + 1)
          /\ \A i \in DOMAIN check' : check'[i] = IF i <= Len(check) THEN check[i] ELSE f
      BY <2>3, <3>1 DEF CheckIsAway
    <3>5. ASSUME NEW i \in DOMAIN check' PROVE check'[i] \notin heap'
      <4>1. CASE i <= Len(check)
        <5>1. i \in DOMAIN check
          BY <4>1, <3>4 DEF CheckIsAway
        <5>. QED
          BY ZenonT(60), <4>1, <5>1, <2>1, <3>4 DEF CheckIsAway
      <4>2. CASE ~ (i <= Len(check))
        BY ZenonT(60), <4>2, <2>1, <3>3, <3>4
      <4>. QED
        BY ZenonT(60), <4>1, <4>2
    <3>. QED
      BY ZenonT(60), <2>1, <3>4, <3>5 DEF CheckIsAway
  <2>. QED
    BY ZenonT(60), <1>2, <2>2, <2>3 DEF CheckAlloc
<1>3. CASE Install \/ InitAllocators \/ MarkNextRegion \/ FinishMarking
  BY ZenonT(60), <1>3 DEF Install, InitAllocators, MarkNextRegion, FinishMarking, CheckIsAway
<1>4. CASE CheckFree \/ CheckDoubleFree \/ Inspect
  BY ZenonT(60), <1>4 DEF CheckFree, CheckReturn, CheckDoubleFree, Inspect, CheckIsAway
<1>5. ASSUME NEW count, Alloc(count) \/ \E start : Free(start, count) PROVE CheckIsAway'
  BY ZenonT(60), <1>5 DEF Alloc, Free, CheckIsAway
<1>6. ASSUME NEW page, NEW image, InitUser(page, image) PROVE CheckIsAway'
  <2>1. stage = "ready" /\ stage' \in {"ready", "failed"} /\ UNCHANGED <<heap, check>>
    BY ZenonT(60), <1>6 DEF InitUser
  <2>. QED
    BY ZenonT(60), <2>1 DEF CheckIsAway
<1>7. CASE Failed \/ UNCHANGED vars
  BY ZenonT(60), <1>7 DEF Failed, vars, CheckIsAway
<1>. QED
  BY ZenonT(60), <1>1, <1>2, <1>3, <1>4, <1>5, <1>6, <1>7 DEF Next

\* A frame that may be handed out comes from a conventional region and is not reserved.
LEMMA OwnFrames ==
    FrameInv => OnlyOwnFrames
<1>. SUFFICES ASSUME FrameInv, NEW f \in allocatable
              PROVE  /\ \A range \in reserved : f < range.start \/ range.end <= f
                     /\ \E i \in DOMAIN map :
                           map[i].kind = "Conventional" /\ Overlaps(map[i], f, f + 1)
  BY ZenonT(60) DEF OnlyOwnFrames
<1>1. /\ f \in Nat /\ reserved \subseteq PhysRange
      /\ map \in Seq(Region) /\ marked \in 0 .. Len(map)
  <2>1. f \in Managed /\ limit \in Nat /\ map \in Maps /\ reserved \in ReservedSets
        /\ marked \in 0 .. Len(map)
    BY ZenonT(60) DEF FrameInv, TypeOK
  <2>2. f \in Nat
    BY ZenonT(60), <2>1, ManagedNat
  <2>3. reserved \in SUBSET PhysRange
    BY <2>1, ReservedAssumption, ZenonT(60)
  <2>. QED
    BY ZenonT(60), <2>1, <2>2, <2>3, MapsAssumption
<1>2. \A range \in reserved : f < range.start \/ range.end <= f
  <2>1. ~ IsReserved(f)
    BY ZenonT(60) DEF FrameInv, MarkedSoFar
  <2>. QED
    <3>1. ASSUME NEW range \in reserved PROVE f < range.start \/ range.end <= f
      <4>1. range.start \in Nat /\ range.end \in Nat
        <5>1. range \in PhysRange
          BY <1>1, ZenonT(60)
        <5>. QED
          BY ZenonT(60), <5>1 DEF PhysRange
      <4>2. ~ (range.start < f + 1 /\ f < range.end)
        BY ZenonT(60), <2>1 DEF IsReserved
      <4>. QED
        BY <4>1, <4>2, <1>1
    <3>. QED
      BY ZenonT(60), <3>1
<1>3. PICK i \in 1 .. marked :
          map[i].kind = "Conventional" /\ map[i].base <= f /\ f < RegionEnd(map[i])
  BY ZenonT(60) DEF FrameInv, MarkedSoFar
<1>4. i \in DOMAIN map /\ map[i].base \in Nat
  <2>1. i \in DOMAIN map
    BY <1>1, <1>3
  <2>2. map[i] \in Region
    BY <1>1, <2>1
  <2>. QED
    BY ZenonT(60), <2>1, <2>2 DEF Region
<1>5. Overlaps(map[i], f, f + 1)
  BY <1>1, <1>3, <1>4 DEF Overlaps
<1>. QED
  BY ZenonT(60), <1>2, <1>3, <1>4, <1>5

-----------------------------------------------------------------------------
(* The page tables *)

\* The image lies in RAM of the bootloader's, the stack in frames of its own.
ServiceInv ==
    /\ service = ServiceMappings(service[1].paddr, service[1], service[2].paddr)
    /\ service[1].paddr \in Nat /\ service[1].vaddr \in Nat /\ service[1].pages \in Nat
    /\ service[2].paddr \in Nat
    /\ MappingOk(service[1]) /\ MappingOk(service[2])
    /\ HoldsUser(arena, service)
    /\ \E i \in DOMAIN map :
          /\ map[i].kind = "OtherRam"
          /\ service[1].paddr = map[i].base /\ service[1].pages <= map[i].pages
    /\ ServiceStack \subseteq held
    /\ stage = "ready"

\* Once there are tables, they hold the identity map of the firmware's map and
\* nothing else but the service, if it was mapped.
MapInv ==
    \/ /\ stage \in {"firmware", "failed"} /\ arena = NoTables
       /\ allocatable = {} /\ service = <<>>
    \/ /\ stage # "firmware" /\ limit = IdentityLimit(map)
       /\ IsArena(arena) /\ HoldsIdentity(arena, map) /\ NothingAbove(arena)
       /\ \/ service = <<>> /\ arena[PDPT][USER_INDEX] = NotPresent
          \/ service # <<>> /\ ServiceInv

\* memory::install.
LEMMA InstallMaps ==
    ASSUME MapInv, Install
    PROVE  MapInv'
<1>1. stage = "firmware" /\ arena = NoTables /\ allocatable = {} /\ service = <<>>
  BY ZenonT(60) DEF Install, MapInv
<1>2. UNCHANGED <<map, allocatable, service>>
  BY ZenonT(60) DEF Install
<1>3. CASE stage' = "paged" /\ arena' = Build(map) /\ limit' = IdentityLimit(map)
  <2>1. /\ IsArena(arena') /\ HoldsIdentity(arena', map) /\ NothingAbove(arena')
        /\ arena'[PDPT][USER_INDEX] = NotPresent
    BY ZenonT(60), <1>3, BuildHolds, BuildAbove
  <2>2. stage' # "firmware"
    BY ZenonT(60), <1>3
  <2> QED
    BY ZenonT(60), <1>1, <1>2, <1>3, <2>1, <2>2 DEF MapInv
<1>4. CASE stage' = "failed" /\ UNCHANGED <<arena, limit>>
  BY ZenonT(60), <1>1, <1>2, <1>4 DEF MapInv
<1> QED
  BY ZenonT(60), <1>3, <1>4 DEF Install

\* Steps that leave the tables alone, before the service is mapped ...
LEMMA SameTables ==
    ASSUME MapInv, UNCHANGED <<map, limit, arena, service>>, service = <<>>,
           stage' # "firmware", arena = NoTables => stage' = "failed" /\ UNCHANGED allocatable
    PROVE  MapInv'
  BY ZenonT(60) DEF MapInv

\* ... and while it runs.
LEMMA SameService ==
    ASSUME MapInv, UNCHANGED <<map, limit, arena, service, stage>>, stage = "ready",
           ServiceStack \subseteq held => ServiceStack \subseteq held'
    PROVE  MapInv'
<1>1. ServiceStack' = ServiceStack
  BY ZenonT(60) DEF ServiceStack, Run
<1>2. stage' # "firmware" /\ ~ (stage \in {"firmware", "failed"})
  BY ZenonT(60)
<1>3. ServiceInv => ServiceInv'
  BY ZenonT(60), <1>1 DEF ServiceInv
<1> QED
  BY ZenonT(60), <1>2, <1>3 DEF MapInv

\* There are tables from install on.
LEMMA TablesThere ==
    ASSUME MapInv, stage \notin {"firmware", "failed"}
    PROVE  /\ limit = IdentityLimit(map)
           /\ IsArena(arena) /\ HoldsIdentity(arena, map) /\ NothingAbove(arena)
           /\ \/ service = <<>> /\ arena[PDPT][USER_INDEX] = NotPresent
              \/ service # <<>> /\ ServiceInv
  BY ZenonT(60) DEF MapInv

\* NoTables is not what build makes.
LEMMA NoTablesEmpty ==
    ASSUME NEW m
    PROVE  ~ HoldsIdentity(NoTables, m)
<1>1. PML4 \in Table /\ 0 \in Index
  BY ZenonT(60), TableNumbers
<1>2. NoTables[PML4][0] = NotPresent
  BY ZenonT(60), <1>1 DEF NoTables
<1> QED
  BY <1>2 DEF HoldsIdentity, NotPresent

\* user::init.
LEMMA InitUserMaps ==
    ASSUME FrameInv, MapInv, NEW i \in DOMAIN map, NEW image \in Images,
           map[i].kind = "OtherRam", image.pages <= map[i].pages, InitUser(map[i].base, image)
    PROVE  MapInv'
<1>1. /\ stage = "ready" /\ service = <<>>
  BY ZenonT(60) DEF InitUser
<1>2. /\ limit = IdentityLimit(map)
      /\ IsArena(arena) /\ HoldsIdentity(arena, map) /\ NothingAbove(arena)
      /\ arena[PDPT][USER_INDEX] = NotPresent
  BY ZenonT(60), <1>1, TablesThere
<1>3. CASE stage' = "failed" /\ UNCHANGED <<frameVars, arena, service>>
  <2>1. arena # NoTables
    BY ZenonT(60), <1>2, NoTablesEmpty
  <2> QED
    BY ZenonT(60), <1>1, <1>3, <2>1, SameTables DEF frameVars
<1>4. ASSUME NEW start \in Managed, FoundRun(start, USER_STACK_PAGES),
             TakeRun(start, USER_STACK_PAGES),
             \E mappings \in {ServiceMappings(map[i].base, image, start)} :
                   /\ arena' = MapUserRegion(arena, mappings)
                   /\ IF MapUserOk(arena, mappings)
                      THEN service' = mappings /\ stage' = stage
                      ELSE service' = service /\ stage' = "failed"
      PROVE  MapInv'
  <2> DEFINE m1 == [vaddr |-> image.vaddr, paddr |-> map[i].base, pages |-> image.pages,
                    writable |-> FALSE]
             m2 == [vaddr |-> USER_STACK_VA, paddr |-> start, pages |-> USER_STACK_PAGES,
                    writable |-> TRUE]
  <2>1. /\ arena' = MapUserRegion(arena, <<m1, m2>>)
        /\ IF MapUserOk(arena, <<m1, m2>>)
           THEN service' = <<m1, m2>> /\ stage' = stage
           ELSE service' = service /\ stage' = "failed"
    BY ZenonT(60), <1>4 DEF ServiceMappings
  <2>2. UNCHANGED <<map, limit>> /\ held' = held \cup Run(start, USER_STACK_PAGES)
    BY ZenonT(60), <1>4 DEF TakeRun
  <2>3. m1 \in Mapping /\ m2 \in Mapping
    <3>1. map[i].base \in Nat /\ image.vaddr \in Nat /\ image.pages \in Nat
          /\ USER_STACK_PAGES \in Nat
      <4>1. map[i] \in Region
        BY MapsAssumption DEF FrameInv, TypeOK
      <4>2. image \in [vaddr : Nat, pages : Nat] /\ USER_STACK_PAGES \in Nat
        BY SizesAssumption
      <4> QED
        BY ZenonT(60), <4>1, <4>2 DEF Region
    <3>2. start \in Nat
      BY ZenonT(60), <1>4, ManagedNat DEF FrameInv, TypeOK
    <3>3. USER_STACK_VA \in Nat
      BY Sizes DEF USER_STACK_VA
    <3> QED
      BY ZenonT(60), <3>1, <3>2, <3>3 DEF Mapping
  <2>4. /\ IsArena(arena') /\ HoldsIdentity(arena', map) /\ NothingAbove(arena')
        /\ MapUserOk(arena, <<m1, m2>>) => HoldsUser(arena', <<m1, m2>>)
        /\ ~ MapUserOk(arena, <<m1, m2>>) => arena'[PDPT] = arena[PDPT]
    <3> HIDE DEF m1, m2
    <3>1. PICK new : new = MapUserRegion(arena, <<m1, m2>>)
      BY ZenonT(60)
    <3>2. /\ IsArena(new) /\ HoldsIdentity(new, map) /\ NothingAbove(new)
          /\ MapUserOk(arena, <<m1, m2>>) => HoldsUser(new, <<m1, m2>>)
          /\ ~ MapUserOk(arena, <<m1, m2>>) => new[PDPT] = arena[PDPT]
      BY <1>2, <2>3, <3>1, MapUserKeeps
    <3> QED
      BY ZenonT(60), <2>1, <3>1, <3>2
  <2>5. CASE ~ MapUserOk(arena, <<m1, m2>>)
    <3>1. /\ service' = <<>> /\ stage' = "failed" /\ stage' # "firmware"
          /\ arena'[PDPT][USER_INDEX] = NotPresent
      BY ZenonT(60), <1>1, <1>2, <2>1, <2>4, <2>5
    <3> QED
      BY ZenonT(60), <1>2, <2>2, <2>4, <3>1 DEF MapInv
  <2>6. CASE MapUserOk(arena, <<m1, m2>>)
    <3>1. service' = <<m1, m2>> /\ stage' = "ready" /\ HoldsUser(arena', <<m1, m2>>)
      BY ZenonT(60), <1>1, <2>1, <2>4, <2>6
    <3>2. service'[1] = m1 /\ service'[2] = m2 /\ service' # <<>>
      BY ZenonT(60), <3>1
    <3>3. MappingOk(m1) /\ MappingOk(m2)
      <4>1. \A j \in DOMAIN <<m1, m2>> : MappingOk(<<m1, m2>>[j])
        BY ZenonT(60), <2>6 DEF MapUserOk, MapUserRefused
      <4>2. 1 \in DOMAIN <<m1, m2>> /\ 2 \in DOMAIN <<m1, m2>>
            /\ <<m1, m2>>[1] = m1 /\ <<m1, m2>>[2] = m2
        OBVIOUS
      <4> QED
        BY ZenonT(60), <4>1, <4>2
    <3>4. /\ service' = ServiceMappings(service'[1].paddr, service'[1], service'[2].paddr)
          /\ service'[1].paddr = map[i].base /\ service'[1].pages = image.pages
          /\ service'[2].paddr = start /\ service'[2].pages = USER_STACK_PAGES
          /\ service'[1].paddr \in Nat /\ service'[1].vaddr \in Nat /\ service'[1].pages \in Nat
          /\ service'[2].paddr \in Nat
      BY ZenonT(60), <2>3, <3>1, <3>2 DEF ServiceMappings, Mapping
    <3>5. ServiceStack' \subseteq held'
      BY ZenonT(60), <2>2, <3>2, <3>4 DEF ServiceStack, Run
    <3>6. \E j \in DOMAIN map' :
             /\ map'[j].kind = "OtherRam"
             /\ service'[1].paddr = map'[j].base /\ service'[1].pages <= map'[j].pages
      BY ZenonT(60), <2>2, <3>4
    <3>7. ServiceInv'
      BY ZenonT(60), <3>1, <3>2, <3>3, <3>4, <3>5, <3>6 DEF ServiceInv
    <3>8. stage' # "firmware"
      BY ZenonT(60), <3>1
    <3> QED
      BY ZenonT(60), <1>2, <2>2, <2>4, <3>2, <3>7, <3>8 DEF MapInv
  <2> QED
    BY ZenonT(60), <2>5, <2>6
<1> QED
  BY ZenonT(60), <1>3, <1>4 DEF InitUser

\* Every step keeps the tables in order.
LEMMA MapInvNext == FrameInv /\ MapInv /\ [Next]_vars => MapInv'
<1> SUFFICES ASSUME FrameInv, MapInv, [Next]_vars PROVE MapInv'
  BY ZenonT(60)
<1>1. CASE Install
  BY ZenonT(60), <1>1, InstallMaps
<1>2. CASE /\ stage \notin {"firmware", "failed", "ready"} /\ stage' # "firmware"
           /\ UNCHANGED <<map, limit, arena, service>>
  <2>1. arena # NoTables /\ service = <<>>
    <3>1. HoldsIdentity(arena, map) /\ (service # <<>> => ServiceInv)
      BY ZenonT(60), <1>2, TablesThere
    <3> QED
      BY ZenonT(60), <1>2, <3>1, NoTablesEmpty DEF ServiceInv
  <2> QED
    BY ZenonT(60), <1>2, <2>1, SameTables
<1>3. CASE InitAllocators \/ MarkNextRegion
  BY ZenonT(60), <1>2, <1>3 DEF InitAllocators, MarkNextRegion, BeginInit, MarkRegion, frameVars
<1>4. CASE FinishMarking \/ Inspect
  BY ZenonT(60), <1>2, <1>4 DEF FinishMarking, Inspect, frameVars
<1>5. CASE TakeHeap \/ CheckAlloc
  BY ZenonT(60), <1>2, <1>5 DEF TakeHeap, CheckAlloc, AllocFrames, TakeRun, frameVars
<1>6. CASE CheckFree \/ CheckDoubleFree
  BY ZenonT(60), <1>2, <1>6 DEF CheckFree, CheckReturn, CheckDoubleFree, FreeFrames
<1>7. ASSUME NEW count, Alloc(count) PROVE MapInv'
  <2>1. /\ stage = "ready" /\ UNCHANGED <<map, limit, arena, service, stage>> /\ held \subseteq held'
    BY ZenonT(60), <1>7 DEF Alloc, AllocFrames, TakeRun, frameVars
  <2> QED
    BY ZenonT(60), <2>1, SameService
<1>8. ASSUME NEW start, NEW count, Free(start, count) PROVE MapInv'
  <2>1. /\ stage = "ready" /\ UNCHANGED <<map, limit, arena, service, stage>>
        /\ held' = held \ FreedBy(start, count)
        /\ Run(start, count) \cap ServiceStack = {}
    BY ZenonT(60), <1>8 DEF Free, FreeFrames
  <2>2. FreedBy(start, count) \subseteq Run(start, count)
    BY ZenonT(60) DEF FreedBy
  <2> QED
    BY ZenonT(60), <2>1, <2>2, SameService
<1>9. ASSUME NEW i \in DOMAIN map, NEW image \in Images,
             map[i].kind = "OtherRam", image.pages <= map[i].pages, InitUser(map[i].base, image)
      PROVE  MapInv'
  BY ZenonT(60), <1>9, InitUserMaps
<1>10. CASE Failed \/ UNCHANGED vars
  <2>1. UNCHANGED vars
    BY ZenonT(60), <1>10 DEF Failed
  <2>2. ServiceInv' <=> ServiceInv
    BY ZenonT(60), <2>1 DEF ServiceInv, ServiceStack, Run, vars
  <2> QED
    BY ZenonT(60), <2>1, <2>2 DEF MapInv, vars
<1> QED
  BY ZenonT(60), <1>1, <1>3, <1>4, <1>5, <1>6, <1>7, <1>8, <1>9, <1>10 DEF Next

\* The tables hold the identity map that build promises.
LEMMA IdentityHolds ==
    FrameInv /\ MapInv => IdentityMap
<1> SUFFICES ASSUME FrameInv, MapInv, arena # NoTables, NEW page \in 0 .. (USER_BASE - 1),
                    NEW walk, walk = Walk(arena, page, 0)
             PROVE  /\ page # 0 /\ page < limit /\ OverlapsRam(map, page, page + 1)
                           => walk.present /\ walk.writable
                    /\ walk.present =>
                           /\ walk.page = page
                           /\ page # 0
                           /\ \E start \in {page - (page % BLOCK_SIZE)} :
                                 OverlapsRam(map, start, start + BLOCK_SIZE)
  BY ZenonT(60) DEF IdentityMap
<1>1. /\ page \in Nat /\ page < USER_BASE
  BY Sizes
<1>2. limit = IdentityLimit(map) /\ HoldsIdentity(arena, map) /\ map \in Seq(Region) /\ limit \in Nat
  BY ZenonT(60), MapsAssumption DEF MapInv, FrameInv, TypeOK
<1>3. walk = IF ~ IdentityEntry(map, page).present
             THEN Fault
             ELSE [present |-> TRUE, page |-> page, writable |-> TRUE]
  BY ZenonT(60), <1>1, <1>2, IdentityWalk
<1>4. page # 0 /\ page < limit /\ OverlapsRam(map, page, page + 1) => IdentityEntry(map, page).present
  BY ZenonT(60), <1>1, <1>2, RamIsMapped
<1>5. IdentityEntry(map, page).present =>
          page # 0 /\ OverlapsRam(map, page - (page % BLOCK_SIZE), page - (page % BLOCK_SIZE) + BLOCK_SIZE)
  BY ZenonT(60), <1>1, <1>2, MappedIsNearRam
<1>6. walk.present <=> IdentityEntry(map, page).present
  BY <1>3 DEF Fault
<1>7. IdentityEntry(map, page).present => walk.page = page /\ walk.writable
  BY <1>3
<1> QED
  BY ZenonT(60), <1>4, <1>5, <1>6, <1>7

\* A frame that may be handed out lies below the limit in RAM, so it is mapped.
LEMMA FramesHold ==
    FrameInv /\ MapInv => FramesAreMapped
<1> SUFFICES ASSUME FrameInv, MapInv, NEW f \in allocatable
             PROVE  Walk(arena, f, 0) = [present |-> TRUE, page |-> f, writable |-> TRUE]
  BY ZenonT(60) DEF FramesAreMapped
<1>1. limit = IdentityLimit(map) /\ HoldsIdentity(arena, map) /\ map \in Seq(Region) /\ limit \in Nat
  BY ZenonT(60), MapsAssumption DEF MapInv, FrameInv, TypeOK
<1>2. f \in Nat /\ f # 0 /\ f < limit
  BY <1>1, MinFreeAssumption DEF FrameInv, TypeOK, Managed
<1>3. limit <= USER_BASE /\ USER_BASE \in Nat
  <2>1. MAX_IDENTITY = USER_BASE /\ USER_BASE \in Nat
    BY ZenonT(60), Sizes DEF USER_BASE
  <2> QED
    BY <1>1, <2>1 DEF IdentityLimit
<1>4. OverlapsRam(map, f, f + 1)
  <2>1. PICK i \in 1 .. marked :
            map[i].kind = "Conventional" /\ map[i].base <= f /\ f < RegionEnd(map[i])
    BY ZenonT(60) DEF FrameInv, MarkedSoFar
  <2>2. i \in DOMAIN map
    BY <1>1, <2>1 DEF FrameInv, TypeOK
  <2>3. map[i].base \in Nat
    <3>1. map[i] \in Region
      BY <1>1, <2>2
    <3> QED
      BY ZenonT(60), <3>1 DEF Region
  <2>4. Overlaps(map[i], f, f + 1) /\ IsRam(map[i].kind)
    BY <1>2, <2>1, <2>3 DEF Overlaps, IsRam
  <2> QED
    BY ZenonT(60), <2>2, <2>4 DEF OverlapsRam
<1>5. f < USER_BASE
  BY <1>1, <1>2, <1>3
<1>6. IdentityEntry(map, f).present
  BY ZenonT(60), <1>1, <1>2, <1>4, RamIsMapped
<1> QED
  BY ZenonT(60), <1>1, <1>2, <1>5, <1>6, IdentityWalk

\* What user::init takes for granted of the bootloader: the image, mapped where
\* it was linked, is apart from the stack.  Nothing checks it.
ImageMissesStack ==
    service # <<>> => \/ MappingEnd(service[1]) <= service[2].vaddr
                      \/ MappingEnd(service[2]) <= service[1].vaddr

\* The two mappings of the service.
LEMMA ServiceShape ==
    ASSUME ServiceInv
    PROVE  /\ service = <<service[1], service[2]>> /\ DOMAIN service = {1, 2} /\ service # <<>>
           /\ service[1] \in Mapping /\ service[2] \in Mapping
<1>1. PICK a \in Nat, v \in Nat, b \in Nat, c \in Nat :
          service = << [vaddr |-> v, paddr |-> a, pages |-> b, writable |-> FALSE],
                       [vaddr |-> USER_STACK_VA, paddr |-> c, pages |-> USER_STACK_PAGES,
                        writable |-> TRUE] >>
  BY ZenonT(60) DEF ServiceInv, ServiceMappings
<1>2. USER_STACK_VA \in Nat /\ USER_STACK_PAGES \in Nat
  BY Sizes, SizesAssumption DEF USER_STACK_VA
<1>3. /\ service[1] = [vaddr |-> v, paddr |-> a, pages |-> b, writable |-> FALSE]
      /\ service[2] = [vaddr |-> USER_STACK_VA, paddr |-> c, pages |-> USER_STACK_PAGES,
                       writable |-> TRUE]
      /\ service = <<service[1], service[2]>> /\ DOMAIN service = {1, 2} /\ service # <<>>
  BY <1>1
<1>4. service[1] \in Mapping /\ service[2] \in Mapping
  BY <1>2, <1>3 DEF Mapping
<1> QED
  BY <1>3, <1>4

\* The service's pages are nobody else's.
LEMMA ServicePagesTaken ==
    ASSUME FrameInv, ServiceInv, NEW page \in Nat
    PROVE  /\ Covers(service[1], page) => ~ IsFree(service[1].paddr + (page - service[1].vaddr))
           /\ Covers(service[2], page) => ~ IsFree(service[2].paddr + (page - service[2].vaddr))
<1>1. PICK m1 \in Mapping, m2 \in Mapping : m1 = service[1] /\ m2 = service[2]
  BY ZenonT(60), ServiceShape
<1>2. /\ m1.vaddr \in Nat /\ m1.paddr \in Nat /\ m1.pages \in Nat
      /\ m2.vaddr \in Nat /\ m2.paddr \in Nat /\ m2.pages \in Nat
  BY ZenonT(60) DEF Mapping
<1>3. ASSUME Covers(m1, page) PROVE ~ IsFree(m1.paddr + (page - m1.vaddr))
  <2>1. PICK i \in DOMAIN map :
            /\ map[i].kind = "OtherRam"
            /\ m1.paddr = map[i].base /\ m1.pages <= map[i].pages
    BY ZenonT(60), <1>1 DEF ServiceInv
  <2>2. PICK f : f = m1.paddr + (page - m1.vaddr)
    BY ZenonT(60)
  <2>3. map \in Seq(Region) /\ DisjointRegions(map) /\ marked \in 0 .. Len(map)
    BY ZenonT(60), MapsAssumption DEF FrameInv, TypeOK
  <2>4. map[i].base \in Nat /\ map[i].pages \in Nat
    <3>1. map[i] \in Region
      BY <2>1, <2>3
    <3> QED
      BY ZenonT(60), <3>1 DEF Region
  <2>5. f \in Nat /\ map[i].base <= f /\ f < RegionEnd(map[i])
    BY <1>2, <1>3, <2>1, <2>2, <2>4 DEF Covers, MappingEnd, RegionEnd
  <2>6. ASSUME f \in allocatable PROVE FALSE
    <3>1. PICK j \in 1 .. marked :
              map[j].kind = "Conventional" /\ map[j].base <= f /\ f < RegionEnd(map[j])
      BY ZenonT(60), <2>6 DEF FrameInv, MarkedSoFar
    <3>2. j \in DOMAIN map /\ j # i
      BY <2>1, <2>3, <3>1
    <3>3. map[j].base \in Nat /\ map[j].pages \in Nat
      <4>1. map[j] \in Region
        BY <2>3, <3>2
      <4> QED
        BY ZenonT(60), <4>1 DEF Region
    <3>4. RegionEnd(map[i]) <= map[j].base \/ RegionEnd(map[j]) <= map[i].base
      BY ZenonT(60), <2>1, <2>3, <3>2 DEF DisjointRegions
    <3> QED
      BY <2>4, <2>5, <3>1, <3>3, <3>4 DEF RegionEnd
  <2> QED
    BY ZenonT(60), <2>2, <2>6 DEF IsFree
<1>4. ASSUME Covers(m2, page) PROVE ~ IsFree(m2.paddr + (page - m2.vaddr))
  <2>1. PICK f : f = m2.paddr + (page - m2.vaddr)
    BY ZenonT(60)
  <2>2. f \in Run(m2.paddr, m2.pages)
    BY <1>2, <1>4, <2>1 DEF Covers, MappingEnd, Run
  <2>3. f \in held
    BY ZenonT(60), <1>1, <2>2, ServiceShape DEF ServiceInv, ServiceStack
  <2>4. f \in used
    BY ZenonT(60), <2>3 DEF FrameInv, HeldFramesAreUsed
  <2> QED
    BY ZenonT(60), <2>1, <2>4 DEF IsFree
<1> QED
  BY ZenonT(60), <1>1, <1>3, <1>4

\* Where there is no service CPL 3 can reach nothing.
LEMMA NoService ==
    ASSUME MapInv, service = <<>>, NEW page \in Nat, page < ENTRIES * ENTRIES * PD_COVERAGE
    PROVE  Walk(arena, page, 3) = Fault
<1>1. CASE arena = NoTables
  <2>1. (page \div (ENTRIES * PD_COVERAGE)) % ENTRIES \in Index
    <3>1. page \div (ENTRIES * PD_COVERAGE) = Directory(page) \div ENTRIES
      BY ZenonT(60), Slots
    <3>2. (Directory(page) \div ENTRIES) % ENTRIES \in Index
      BY ZenonT(60), HighSlots
    <3> QED
      BY ZenonT(60), <3>1, <3>2
  <2>2. PML4 \in Table
    BY ZenonT(60), TableNumbers
  <2>3. arena[PML4][(page \div (ENTRIES * PD_COVERAGE)) % ENTRIES] = NotPresent
    BY ZenonT(60), <1>1, <2>1, <2>2 DEF NoTables
  <2>4. ~ Passes(NotPresent, 3)
    BY ZenonT(60) DEF Passes, NotPresent
  <2> QED
    BY ZenonT(60), <2>3, <2>4 DEF Walk
<1>2. CASE arena # NoTables
  <2>1. HoldsIdentity(arena, map) /\ NothingAbove(arena) /\ arena[PDPT][USER_INDEX] = NotPresent
    BY ZenonT(60), <1>2 DEF MapInv
  <2> QED
    BY ZenonT(60), <2>1, NoWay
<1> QED
  BY ZenonT(60), <1>1, <1>2

\* What CPL 3 finds, page by page: the service that was mapped, or nothing.
LEMMA UserHolds ==
    FrameInv /\ MapInv => (ImageMissesStack => UserSeesOnlyItself)
<1> SUFFICES ASSUME FrameInv, MapInv, ImageMissesStack, NEW page \in VirtualPages,
                    NEW walk, walk = Walk(arena, page, 3)
             PROVE  /\ walk.present <=> \E i \in DOMAIN service : Covers(service[i], page)
                    /\ \A i \in DOMAIN service :
                          Covers(service[i], page) =>
                              /\ walk.page = service[i].paddr + (page - service[i].vaddr)
                              /\ walk.writable = service[i].writable
                              /\ ~ IsFree(walk.page)
  BY ZenonT(60) DEF UserSeesOnlyItself, Covers
<1>1. page \in Nat /\ page < ENTRIES * ENTRIES * PD_COVERAGE
  <2>1. ENTRIES * ENTRIES * PD_COVERAGE \in Nat
    BY Sizes
  <2> QED
    BY <2>1 DEF VirtualPages
<1>2. ~ Fault.present
  BY ZenonT(60) DEF Fault
<1>3. CASE service = <<>>
  <2>1. walk = Fault
    BY ZenonT(60), <1>1, <1>3, NoService
  <2>2. DOMAIN service = {}
    BY <1>3
  <2> QED
    BY ZenonT(60), <1>2, <2>1, <2>2
<1>4. CASE service # <<>>
  <2>1. PICK m1, m2 : m1 = service[1] /\ m2 = service[2]
    BY ZenonT(60)
  <2>2. HoldsIdentity(arena, map) /\ NothingAbove(arena) /\ ServiceInv
    BY ZenonT(60), <1>4 DEF MapInv
  <2>3. service = <<m1, m2>> /\ DOMAIN service = {1, 2} /\ m1 \in Mapping /\ m2 \in Mapping
    BY ZenonT(60), <2>1, <2>2, ServiceShape
  <2>4. MappingOk(m1) /\ MappingOk(m2) /\ HoldsUser(arena, <<m1, m2>>)
    BY ZenonT(60), <2>1, <2>2, <2>3 DEF ServiceInv
  <2>5. ~ (Covers(m1, page) /\ Covers(m2, page))
    BY <1>1, <1>4, <2>1, <2>3 DEF ImageMissesStack, Covers, MappingEnd, Mapping
  <2>6. walk = IF Covers(m1, page)
               THEN [present |-> TRUE, page |-> m1.paddr + (page - m1.vaddr), writable |-> m1.writable]
               ELSE IF Covers(m2, page)
               THEN [present |-> TRUE, page |-> m2.paddr + (page - m2.vaddr), writable |-> m2.writable]
               ELSE Fault
    <3>1. CASE Directory(page) = PD_COUNT
      BY ZenonT(60), <1>1, <2>2, <2>3, <2>4, <2>5, <3>1, UserWalk
    <3>2. CASE Directory(page) # PD_COUNT
      <4>1. ~ (USER_BASE <= page /\ page < USER_BASE + USER_MAX)
        BY ZenonT(60), <1>1, <3>2, UserSlots
      <4>2. ASSUME NEW m \in {m1, m2}, Covers(m, page) PROVE FALSE
        <5>1. MappingOk(m) /\ m.vaddr \in Nat /\ m.pages \in Nat
          BY ZenonT(60), <2>3, <2>4, <4>2 DEF Mapping
        <5> QED
          BY <1>1, <4>1, <4>2, <5>1, Sizes DEF MappingOk, Covers, MappingEnd, USER_MAX
      <4>3. walk = Fault
        BY ZenonT(60), <1>1, <2>2, <3>2, NoWay
      <4> QED
        BY ZenonT(60), <4>2, <4>3
    <3> QED
      BY ZenonT(60), <3>1, <3>2
  <2>7. /\ Covers(m1, page) => ~ IsFree(m1.paddr + (page - m1.vaddr))
        /\ Covers(m2, page) => ~ IsFree(m2.paddr + (page - m2.vaddr))
    BY ZenonT(60), <1>1, <2>1, <2>2, ServicePagesTaken
  <2>8. CASE Covers(m1, page)
    <3>1. /\ walk.present /\ walk.page = m1.paddr + (page - m1.vaddr)
          /\ walk.writable = m1.writable
      BY <2>6, <2>8
    <3> QED
      BY ZenonT(60), <2>1, <2>3, <2>5, <2>7, <2>8, <3>1
  <2>9. CASE Covers(m2, page)
    <3>1. /\ walk.present /\ walk.page = m2.paddr + (page - m2.vaddr)
          /\ walk.writable = m2.writable
      BY <2>5, <2>6, <2>9
    <3> QED
      BY ZenonT(60), <2>1, <2>3, <2>5, <2>7, <2>9, <3>1
  <2>10. CASE ~ Covers(m1, page) /\ ~ Covers(m2, page)
    <3>1. walk = Fault
      BY ZenonT(60), <2>6, <2>10
    <3> QED
      BY ZenonT(60), <1>2, <2>1, <2>3, <2>10, <3>1
  <2> QED
    BY ZenonT(60), <2>8, <2>9, <2>10
<1> QED
  BY ZenonT(60), <1>3, <1>4

-----------------------------------------------------------------------------
(* Single frames, and one step of the scan *)

\* A run of one frame.
LEMMA RunOfOne ==
    ASSUME NEW f \in Nat
    PROVE  Run(f, 1) = {f}
  BY DEF Run

\* alloc() finds the lowest free frame ...
LEMMA LowestFree ==
    ASSUME FrameInv, NEW f \in Managed, FoundRun(f, 1)
    PROVE  f \in Nat /\ IsFree(f) /\ \A g \in allocatable : IsFree(g) => f <= g
<1>1. Managed \subseteq Nat /\ allocatable \subseteq Managed
  BY ZenonT(60), ManagedNat DEF FrameInv, TypeOK
<1>2. f \in Nat /\ IsFree(f)
  <2>1. f \in Nat
    BY ZenonT(60), <1>1
  <2>2. \A g \in Run(f, 1) : IsFree(g)
    BY ZenonT(60) DEF FoundRun, FreeRuns
  <2> QED
    BY ZenonT(60), <2>1, <2>2, RunOfOne
<1>3. ASSUME NEW g \in allocatable, IsFree(g) PROVE f <= g
  <2>1. g \in Managed /\ g \in Nat
    BY ZenonT(60), <1>1
  <2>2. g \in FreeRuns(1)
    BY ZenonT(60), <1>3, <2>1, RunOfOne DEF FreeRuns
  <2> QED
    BY ZenonT(60), <2>2 DEF FoundRun
<1> QED
  BY ZenonT(60), <1>2, <1>3

\* What alloc() does with the frame.
LEMMA TakeOne ==
    ASSUME FrameInv, NEW f \in Managed, FoundRun(f, 1), AllocFrames(1)
    PROVE  /\ used' = used \cup {f} /\ held' = held \cup {f}
           /\ freeFrames' = freeFrames - 1 /\ UNCHANGED allocatable
<1>1. f \in FreeRuns(1) /\ f \in Nat
  BY ZenonT(60), LowestFree DEF FoundRun
<1>2. PICK start \in Managed : FoundRun(start, 1) /\ TakeRun(start, 1)
  BY <1>1 DEF AllocFrames, NotFound
<1>3. start = f
  <2>1. start \in Nat /\ start <= f /\ f <= start
    BY ZenonT(60), <1>1, <1>2, LowestFree DEF FoundRun
  <2> QED
    BY <1>1, <2>1
<1> QED
  BY ZenonT(60), <1>1, <1>2, <1>3, RunOfOne DEF TakeRun

\* What the pass knows below frame f. While the run is too short, it is the run
\* of free frames that ends at f, and no run that is long enough ends by f. Once
\* it is long enough, it is the lowest that is.
Scanned(start, run, f, count) ==
    /\ run < count =>
          /\ run <= f - MIN_FREE_ADDR
          /\ run > 0 => start = f - run
          /\ \A e \in Nat : f - run <= e /\ e < f => IsFree(e)
          /\ \A e \in Nat : e + 1 = f - run /\ MIN_FREE_ADDR <= e => ~ IsFree(e)
          /\ \A h \in FreeRuns(count) : h + count > f
    /\ run = count =>
          /\ MIN_FREE_ADDR <= start
          /\ start + count <= f
          /\ \A e \in Run(start, count) : IsFree(e)
          /\ \A h \in FreeRuns(count) : start <= h

ScannedTo(s, f, count) ==
    /\ s \in [start : Nat, run : 0 .. count]
    /\ Scanned(s.start, s.run, f, count)

\* One frame of the pass.
LEMMA ScanStep ==
    ASSUME limit \in Nat, NEW count \in Nat \ {0}, NEW f \in Managed, NEW s, ScannedTo(s, f, count)
    PROVE  ScannedTo(Scan(s, f, count), f + 1, count)
<1>1. MIN_FREE_ADDR \in Nat /\ f \in Nat /\ MIN_FREE_ADDR <= f /\ f < limit
  BY MinFreeAssumption DEF Managed
<1>2. s = [start |-> s.start, run |-> s.run] /\ s.start \in Nat /\ s.run \in 0 .. count
  BY ZenonT(60) DEF ScannedTo
<1>3. \A h \in FreeRuns(count) : /\ h \in Nat /\ MIN_FREE_ADDR <= h
                                 /\ \A e \in h .. h + count - 1 : IsFree(e)
  BY <1>1 DEF FreeRuns, Managed, Run
<1>4. CASE s.run = count
  <2>1. Scan(s, f, count) = s
    BY ZenonT(60), <1>4 DEF Scan
  <2> QED
    BY <1>1, <1>2, <1>4, <2>1 DEF ScannedTo, Scanned
<1>5. CASE s.run # count /\ ~ IsFree(f)
  <2>1. Scan(s, f, count) = [start |-> s.start, run |-> 0]
    BY ZenonT(60), <1>2, <1>5 DEF Scan
  <2>2. \A h \in FreeRuns(count) : h + count > f
    BY <1>2, <1>5 DEF ScannedTo, Scanned
  <2>3. \A h \in FreeRuns(count) : h + count > f + 1
    <3> SUFFICES ASSUME NEW h \in FreeRuns(count), ~ (h + count > f + 1) PROVE FALSE
      BY ZenonT(60)
    <3>1. f \in h .. h + count - 1
      BY <1>1, <1>3, <2>2
    <3> QED
      BY ZenonT(60), <1>3, <1>5, <3>1
  <2>4. 0 \in 0 .. count /\ 0 < count /\ 0 # count /\ (f + 1) - 0 - 1 = f
    BY <1>1
  <2>5. \A e \in Nat : ~ ((f + 1) - 0 <= e /\ e < f + 1)
    BY <1>1
  <2>6. 0 <= (f + 1) - MIN_FREE_ADDR
    BY <1>1
  <2> DEFINE t == [start |-> s.start, run |-> 0]
  <2>7. t.start = s.start /\ t.run = 0 /\ t \in [start : Nat, run : 0 .. count]
    BY ZenonT(60), <1>2, <2>4
  <2> HIDE DEF t
  <2>8. ~ (0 > 0)
    OBVIOUS
  <2>9. \A e \in Nat : e + 1 = (f + 1) - 0 => ~ IsFree(e)
    <3>1. \A e \in Nat : e + 1 = (f + 1) - 0 => e = f
      BY <1>1
    <3> QED
      BY ZenonT(60), <1>5, <3>1
  <2>10. Scanned(s.start, 0, f + 1, count)
    BY ZenonT(60), <2>3, <2>4, <2>5, <2>6, <2>8, <2>9 DEF Scanned
  <2>11. ScannedTo(t, f + 1, count)
    BY ZenonT(60), <2>7, <2>10 DEF ScannedTo
  <2> QED
    BY ZenonT(60), <2>1, <2>11 DEF t
<1>6. CASE s.run # count /\ IsFree(f)
  <2> DEFINE r == s.run
             b == f - r
             t == [start |-> IF r = 0 THEN f ELSE s.start, run |-> r + 1]
  <2>1. Scan(s, f, count) = t
    BY ZenonT(60), <1>6 DEF Scan
  <2>2. /\ r \in Nat /\ r < count /\ r <= f - MIN_FREE_ADDR
        /\ r > 0 => s.start = b
        /\ \A e \in Nat : e + 1 = b /\ MIN_FREE_ADDR <= e => ~ IsFree(e)
        /\ \A h \in FreeRuns(count) : h + count > f
    BY <1>2, <1>6 DEF ScannedTo, Scanned
  <2>3. \A e \in Nat : f - r <= e /\ e < f => IsFree(e)
    BY <1>2, <1>6 DEF ScannedTo, Scanned
  <2>4. b \in Nat /\ MIN_FREE_ADDR <= b /\ b <= f /\ (f + 1) - (r + 1) = b /\ r + 1 \in 0 .. count
    BY <1>1, <2>2
  <2>5. t.start = b /\ t.run = r + 1 /\ t \in [start : Nat, run : 0 .. count]
    BY <1>1, <1>2, <2>2, <2>4
  <2>6. \A e \in Nat : b <= e /\ e < f + 1 => IsFree(e)
    <3> TAKE e \in Nat
    <3> HAVE b <= e /\ e < f + 1
    <3>1. CASE e = f
      BY ZenonT(60), <1>6, <3>1
    <3>2. CASE e # f
      <4>1. f - r <= e /\ e < f
        BY <1>1, <3>2
      <4> QED
        BY ZenonT(60), <2>3, <4>1
    <3> QED
      BY ZenonT(60), <3>1, <3>2
  <2> HIDE DEF r, b, t
  <2>7. ASSUME r + 1 < count PROVE \A h \in FreeRuns(count) : h + count > f + 1
    <3> SUFFICES ASSUME NEW h \in FreeRuns(count), ~ (h + count > f + 1) PROVE FALSE
      BY ZenonT(60)
    <3>1. h \in Nat /\ MIN_FREE_ADDR <= h /\ h + count > f
      BY ZenonT(60), <1>3, <2>2
    <3>2. b - 1 \in h .. h + count - 1 /\ b - 1 \in Nat /\ b - 1 + 1 = b /\ MIN_FREE_ADDR <= b - 1
      BY <1>1, <2>2, <2>4, <2>7, <3>1
    <3> QED
      BY ZenonT(60), <1>3, <2>2, <3>2
  <2>8. CASE r + 1 < count
    <3>1. r + 1 # count /\ r + 1 <= (f + 1) - MIN_FREE_ADDR
      BY <1>1, <2>2, <2>8
    <3>2. \A e \in Nat : (f + 1) - (r + 1) <= e /\ e < f + 1 => IsFree(e)
      BY ZenonT(60), <2>4, <2>6
    <3>3. \A e \in Nat : e + 1 = (f + 1) - (r + 1) /\ MIN_FREE_ADDR <= e => ~ IsFree(e)
      BY ZenonT(60), <2>2, <2>4
    <3>4. Scanned(b, r + 1, f + 1, count)
      BY ZenonT(60), <2>4, <2>7, <2>8, <3>1, <3>2, <3>3 DEF Scanned
    <3> QED
      BY ZenonT(60), <2>1, <2>5, <3>4 DEF ScannedTo
  <2>9. CASE r + 1 = count
    <3>1. ~ (r + 1 < count) /\ b + count <= f + 1 /\ \A h \in FreeRuns(count) : b <= h
      BY <1>1, <1>3, <2>2, <2>4, <2>9
    <3>2. \A e \in Run(b, count) : e \in Nat /\ b <= e /\ e < f + 1
      BY <1>1, <2>4, <2>9 DEF Run
    <3>3. \A e \in Run(b, count) : IsFree(e)
      BY ZenonT(60), <2>6, <3>2
    <3>4. Scanned(b, r + 1, f + 1, count)
      BY ZenonT(60), <2>4, <3>1, <3>3 DEF Scanned
    <3> QED
      BY ZenonT(60), <2>1, <2>5, <3>4 DEF ScannedTo
  <2> QED
    BY <2>2, <2>8, <2>9
<1> QED
  BY ZenonT(60), <1>4, <1>5, <1>6

-----------------------------------------------------------------------------
(* Facts about the sets *)

\* The lemmas above need no theorem of the library; the ones below rest on it.
INSTANCE FiniteSetTheorems

\* The managed frames are finitely many, so every bitmap is a finite set.
LEMMA ManagedFinite ==
    ASSUME limit \in Nat
    PROVE  IsFiniteSet(Managed) /\ Managed \subseteq Nat
<1>1. IsFiniteSet(MIN_FREE_ADDR .. limit)
  BY FS_Interval, MinFreeAssumption
<1>2. Managed \in SUBSET (MIN_FREE_ADDR .. limit)
  BY ZenonT(60) DEF Managed
<1>3. IsFiniteSet(Managed)
  BY ZenonT(60), <1>1, <1>2, FS_Subset
<1>4. Managed \subseteq Nat
  BY MinFreeAssumption DEF Managed
<1>. QED
  BY ZenonT(60), <1>3, <1>4

\* A run of n frames has n elements.
LEMMA RunSize ==
    ASSUME NEW start \in Nat, NEW count \in Nat \ {0}
    PROVE  IsFiniteSet(Run(start, count)) /\ Cardinality(Run(start, count)) = count
<1>1. Run(start, count) = start .. (start + count - 1)
  BY DEF Run
<1>. QED
  BY <1>1, FS_Interval

\* Moving a set of frames from one side of a bitmap to the other moves the
\* count by as much.
LEMMA DisjointUnion ==
    ASSUME NEW S, NEW T, IsFiniteSet(S), IsFiniteSet(T), S \cap T = {}
    PROVE  /\ IsFiniteSet(S \cup T)
           /\ Cardinality(S \cup T) = Cardinality(S) + Cardinality(T)
<1>1. /\ IsFiniteSet(S \cup T)
      /\ Cardinality(S \cup T) = Cardinality(S) + Cardinality(T) - Cardinality(S \cap T)
  BY ZenonT(60), FS_Union
<1>2. Cardinality(S \cap T) = 0
  BY ZenonT(60), FS_EmptySet
<1>3. Cardinality(S) \in Nat /\ Cardinality(T) \in Nat
  BY ZenonT(60), FS_CardinalityType
<1>. QED
  BY <1>1, <1>2, <1>3

\* Taking a subset out leaves the difference.
LEMMA TakeOut ==
    ASSUME NEW S, IsFiniteSet(S), NEW T \in SUBSET S
    PROVE  /\ IsFiniteSet(S \ T)
           /\ Cardinality(S \ T) = Cardinality(S) - Cardinality(T)
           /\ Cardinality(S \ T) \in Nat
<1>1. S \cap T = T
  BY ZenonT(60)
<1>. QED
  BY ZenonT(60), <1>1, FS_Difference, FS_CardinalityType

\* A set of naturals has a least element.
LEMMA NatMin ==
    ASSUME NEW T, T \subseteq Nat, T # {}
    PROVE  \E x \in T : \A y \in T : x <= y
<1>. DEFINE R == OpToRel(<, Nat)
<1>1. PICK x \in T : \A y \in T : ~ (<<y, x>> \in R)
  <2>1. IsWellFoundedOn(R, Nat)
    BY ZenonT(60), NatLessThanWellFounded
  <2>. HIDE DEF R
  <2>. QED
    BY ZenonT(60), <2>1, WFMin
<1>2. ASSUME NEW y \in T PROVE x <= y
  <2>1. ASSUME y < x PROVE <<y, x>> \in R
    BY ZenonT(60), <2>1 DEF OpToRel
  <2>2. ~ (y < x)
    <3>. HIDE DEF R
    <3>. QED
      BY ZenonT(60), <2>1, <1>1
  <2>. QED
    BY <2>2
<1>. QED
  BY ZenonT(60), <1>2

\* The smaller number is the one farther below a bound.
LEMMA FartherBelow ==
    ASSUME NEW bound \in Nat, NEW x \in Nat, NEW y \in Nat, bound - x <= bound - y
    PROVE  y <= x
OBVIOUS

\* A bounded set of naturals has a greatest element.
LEMMA NatMax ==
    ASSUME NEW T, T \subseteq Nat, T # {}, NEW bound \in Nat, \A x \in T : x <= bound
    PROVE  \E x \in T : \A y \in T : y <= x
<1>. DEFINE D == {bound - x : x \in T}
<1>1. D \subseteq Nat /\ D # {}
  <2>1. ASSUME NEW x \in T PROVE bound - x \in Nat
    OBVIOUS
  <2>. QED
    BY ZenonT(60), <2>1
<1>2. PICK d \in D : \A e \in D : d <= e
  <2>. HIDE DEF D
  <2>. QED
    BY ZenonT(60), <1>1, NatMin
<1>3. PICK x \in T : d = bound - x
  BY ZenonT(60)
<1>4. ASSUME NEW y \in T PROVE y <= x
  <2>1. bound - y \in D
    BY ZenonT(60)
  <2>2. bound - x <= bound - y
    BY ZenonT(60), <2>1, <1>2, <1>3
  <2>3. x \in Nat /\ y \in Nat
    BY ZenonT(60)
  <2>. QED
    BY ZenonT(60), <2>2, <2>3, FartherBelow
<1>. QED
  BY ZenonT(60), <1>4

\* The end of RAM, and so of the identity map, is a page number.
LEMMA LimitType ==
    ASSUME NEW m \in Seq(Region), FromBytesOk(m)
    PROVE  IdentityLimit(m) \in Nat
<1>. DEFINE ends == {RegionEnd(m[i]) : i \in {j \in DOMAIN m : IsRam(m[j].kind)}}
<1>1. ASSUME NEW e \in ends PROVE e \in Nat /\ e <= ADDRESS_SPACE
  <2>1. PICK i \in DOMAIN m : e = RegionEnd(m[i])
    BY ZenonT(60)
  <2>2. m[i] \in Region
    OBVIOUS
  <2>3. e \in Nat
    BY <2>1, <2>2 DEF Region, RegionEnd
  <2>4. e < ADDRESS_SPACE
    BY ZenonT(60), <2>1 DEF FromBytesOk
  <2>. QED
    BY <2>3, <2>4, AddressSpaceAssumption
<1>2. RamTop(m) = IF ends = {} THEN 0 ELSE CHOOSE top \in ends : \A end \in ends : end <= top
  BY ZenonT(60) DEF RamTop
<1>3. RamTop(m) \in Nat
  <2>. HIDE DEF ends
  <2>1. CASE ends = {}
    BY <2>1, <1>2
  <2>2. CASE ends # {}
    <3>1. \E top \in ends : \A end \in ends : end <= top
      BY ZenonT(60), <2>2, <1>1, NatMax, AddressSpaceAssumption
    <3>2. RamTop(m) \in ends
      BY ZenonT(60), <2>2, <1>2, <3>1
    <3>. QED
      BY ZenonT(60), <3>2, <1>1
  <2>. QED
    BY ZenonT(60), <2>1, <2>2
<1>4. MAX_IDENTITY \in Nat
  BY PagingAssumption DEF MAX_IDENTITY, PD_COVERAGE, BLOCK_SIZE
<1>. QED
  BY ZenonT(60), <1>3, <1>4 DEF IdentityLimit

-----------------------------------------------------------------------------
(* One lemma per operation of the allocator *)

\* mark_available meets no frame twice, because no two regions overlap.
LEMMA MarkRegionInv ==
    ASSUME FrameInv, MarkNextRegion
    PROVE  FrameInv'
<1>. DEFINE region == map[marked + 1]
            A == Available(region)
<1>1. /\ stage = "marking" /\ stage' = stage /\ marked < Len(map) /\ marked' = marked + 1
      /\ allocatable' = allocatable \cup A /\ used' = used \ A
      /\ freeFrames' = freeFrames + Cardinality(A)
      /\ UNCHANGED <<map, reserved, limit, held, heap, arena, service>>
  BY ZenonT(60) DEF MarkNextRegion, MarkRegion
<1>2. /\ map \in Maps /\ map \in Seq(Region) /\ DisjointRegions(map)
      /\ limit \in Nat /\ marked \in Nat /\ Len(map) \in Nat
      /\ allocatable \subseteq Managed /\ used \subseteq Managed /\ freeFrames \in Nat
      /\ held = {} /\ heap = {}
  BY <1>1, MapsAssumption DEF FrameInv, TypeOK, MarkedSoFar
<1>3. /\ region \in Region
      /\ marked + 1 \in DOMAIN map
      /\ \A i \in 1 .. marked : i \in DOMAIN map /\ map[i] \in Region /\ i # marked + 1
  BY <1>1, <1>2
<1>4. A \subseteq Managed /\ Managed' = Managed
  BY ZenonT(60), <1>1 DEF Available, Managed
<1>5. A \cap allocatable = {}
  <2>1. SUFFICES ASSUME NEW f \in A, f \in allocatable PROVE FALSE
    BY ZenonT(60)
  <2>2. region.base <= f /\ f < RegionEnd(region) /\ f \in Nat
    BY ZenonT(60), <2>1, <1>2, <1>4, ManagedFinite DEF Available
  <2>3. PICK i \in 1 .. marked : map[i].base <= f /\ f < RegionEnd(map[i])
    BY ZenonT(60), <2>1 DEF FrameInv, MarkedSoFar
  <2>4. RegionEnd(map[i]) <= region.base \/ RegionEnd(region) <= map[i].base
    BY ZenonT(60), <1>2, <1>3, <2>3 DEF DisjointRegions
  <2>. QED
    BY <2>2, <2>3, <2>4, <1>3 DEF Region, RegionEnd
<1>6. allocatable \cap used = {}
  BY ZenonT(60), <1>2 DEF FrameInv, HeldFramesAreUsed
<1>7. TypeOK'
  <2>1. Cardinality(A) \in Nat
    BY ZenonT(60), <1>2, <1>4, ManagedFinite, FS_Subset, FS_CardinalityType
  <2>2. /\ map' \in Maps /\ reserved' \in ReservedSets /\ limit' \in Nat
        /\ stage' \in Stage /\ heap' \subseteq held' /\ held' \subseteq Managed'
    BY ZenonT(60), <1>1, <1>4 DEF FrameInv, TypeOK
  <2>3. marked' \in 0 .. Len(map')
    BY <1>1, <1>2
  <2>4. allocatable' \subseteq Managed' /\ used' \subseteq Managed'
    BY ZenonT(60), <1>1, <1>2, <1>4
  <2>5. freeFrames' \in Nat
    BY <1>1, <1>2, <2>1
  <2>. QED
    BY ZenonT(60), <2>2, <2>3, <2>4, <2>5 DEF TypeOK
<1>8. FreeCountIsExact'
  <2>1. allocatable' \ used' = allocatable \cup A
    BY ZenonT(60), <1>1, <1>6
  <2>2. allocatable \ used = allocatable
    BY ZenonT(60), <1>6
  <2>3. IsFiniteSet(A) /\ IsFiniteSet(allocatable)
    BY ZenonT(60), <1>2, <1>4, ManagedFinite, FS_Subset
  <2>4. Cardinality(allocatable \cup A) = Cardinality(allocatable) + Cardinality(A)
    BY ZenonT(60), <1>5, <2>3, DisjointUnion
  <2>. QED
    BY ZenonT(60), <1>1, <2>1, <2>2, <2>4 DEF FreeCountIsExact, FrameInv
<1>9. HeldFramesAreUsed'
  BY ZenonT(60), <1>1, <1>2, <1>6, <1>5 DEF HeldFramesAreUsed
<1>10. MarkedSoFar'
  <2>1. \A f \in allocatable' : ~ IsReserved(f)'
    BY ZenonT(60), <1>1 DEF FrameInv, MarkedSoFar, Available, IsReserved
  <2>2. ASSUME NEW f \in allocatable'
        PROVE \E i \in 1 .. marked' :
                 map[i].kind = "Conventional" /\ map[i].base <= f /\ f < RegionEnd(map[i])
    <3>1. CASE f \in allocatable
      BY <3>1, <1>1, <1>2 DEF FrameInv, MarkedSoFar
    <3>2. CASE f \in A
      <4>1. region.kind = "Conventional" /\ region.base <= f /\ f < RegionEnd(region)
        BY ZenonT(60), <3>2 DEF Available
      <4>. QED
        BY <4>1, <1>1, <1>2
    <3>. QED
      BY ZenonT(60), <2>2, <3>1, <3>2, <1>1
  <2>. QED
    BY ZenonT(60), <1>1, <1>2, <2>1, <2>2 DEF MarkedSoFar, RegionEnd
<1>. QED
  BY ZenonT(60), <1>7, <1>8, <1>9, <1>10 DEF FrameInv

\* Taking a run of free frames keeps the bitmaps and the counter in step.
LEMMA TakeRunInv ==
    ASSUME FrameInv, NEW count \in Nat \ {0}, NEW start \in Managed,
           FoundRun(start, count), TakeRun(start, count),
           stage \notin {"firmware", "paged", "marking"},
           stage' \in Stage, stage' \notin {"firmware", "paged", "marking", "heap"},
           heap' \subseteq held'
    PROVE  FrameInv'
<1>. DEFINE R == Run(start, count)
<1>1. /\ used' = used \cup R /\ held' = held \cup R /\ freeFrames' = freeFrames - count
      /\ UNCHANGED <<map, reserved, limit, marked, allocatable>>
  BY ZenonT(60) DEF TakeRun
<1>2. /\ limit \in Nat /\ allocatable \subseteq Managed /\ used \subseteq Managed
      /\ held \subseteq Managed /\ freeFrames \in Nat /\ Managed' = Managed
  BY ZenonT(60), <1>1 DEF FrameInv, TypeOK, Managed
<1>3. R \subseteq allocatable \ used /\ R \subseteq Managed
  BY ZenonT(60) DEF FoundRun, FreeRuns, IsFree
<1>4. start \in Nat /\ IsFiniteSet(allocatable \ used)
  BY ZenonT(60), <1>2, ManagedFinite, FS_Subset
<1>5. Cardinality(R) = count
  BY ZenonT(60), <1>4, RunSize
<1>6. allocatable' \ used' = (allocatable \ used) \ R
  BY ZenonT(60), <1>1
<1>7. /\ Cardinality((allocatable \ used) \ R) = Cardinality(allocatable \ used) - count
      /\ Cardinality((allocatable \ used) \ R) \in Nat
  BY ZenonT(60), <1>3, <1>4, <1>5, TakeOut
<1>8. FreeCountIsExact' /\ freeFrames' \in Nat
  BY ZenonT(60), <1>1, <1>6, <1>7 DEF FreeCountIsExact, FrameInv
<1>9. HeldFramesAreUsed'
  BY ZenonT(60), <1>1, <1>3 DEF HeldFramesAreUsed, FrameInv
<1>10. TypeOK'
  BY ZenonT(60), <1>1, <1>2, <1>3, <1>8 DEF FrameInv, TypeOK
<1>11. MarkedSoFar'
  BY ZenonT(60), <1>1 DEF FrameInv, MarkedSoFar, IsReserved, RegionEnd
<1>. QED
  BY ZenonT(60), <1>8, <1>9, <1>10, <1>11 DEF FrameInv

\* Whatever range is given back, held or not, only held frames become free.
LEMMA FreeFramesInv ==
    ASSUME FrameInv, NEW start, NEW count, FreeFrames(start, count),
           Run(start, count) \cap heap = {}, heap' = heap,
           stage \notin {"firmware", "paged", "marking", "heap"},
           stage' \in Stage, stage' \notin {"firmware", "paged", "marking", "heap"}
    PROVE  FrameInv'
<1>. DEFINE F == FreedBy(start, count)
<1>1. /\ used' = used \ F /\ held' = held \ F /\ freeFrames' = freeFrames + Cardinality(F)
      /\ UNCHANGED <<map, reserved, limit, marked, allocatable, heap>>
  BY ZenonT(60) DEF FreeFrames
<1>2. /\ limit \in Nat /\ allocatable \subseteq Managed /\ used \subseteq Managed
      /\ held \subseteq Managed /\ freeFrames \in Nat /\ Managed' = Managed
      /\ F \subseteq Run(start, count) /\ heap \subseteq held
  BY ZenonT(60), <1>1 DEF FrameInv, TypeOK, Managed, FreedBy
<1>3. F \subseteq allocatable \cap used
  <2>1. ASSUME NEW f \in F PROVE Freeable(f)
    <3>1. f \in Run(start, count) /\ \A g \in Run(start, count) : g <= f => Freeable(g)
      BY ZenonT(60) DEF FreedBy
    <3>2. f <= f
      BY <3>1 DEF Run
    <3>. QED
      BY ZenonT(60), <3>1, <3>2
  <2>. QED
    BY ZenonT(60), <2>1 DEF Freeable
<1>4. IsFiniteSet(F) /\ Cardinality(F) \in Nat /\ IsFiniteSet(allocatable \ used)
  BY ZenonT(60), <1>2, <1>3, ManagedFinite, FS_Subset, FS_CardinalityType
<1>5. allocatable' \ used' = (allocatable \ used) \cup F
  BY ZenonT(60), <1>1, <1>3
<1>6. Cardinality((allocatable \ used) \cup F) = Cardinality(allocatable \ used) + Cardinality(F)
  BY ZenonT(60), <1>3, <1>4, DisjointUnion
<1>7. FreeCountIsExact' /\ freeFrames' \in Nat
  <2>1. freeFrames = Cardinality(allocatable \ used)
    BY ZenonT(60) DEF FreeCountIsExact, FrameInv
  <2>2. freeFrames' = Cardinality((allocatable \ used) \cup F)
    BY ZenonT(60), <1>1, <1>6, <2>1
  <2>3. freeFrames' \in Nat
    BY <1>1, <1>2, <1>4
  <2>. QED
    BY ZenonT(60), <1>5, <2>2, <2>3 DEF FreeCountIsExact
<1>8. HeldFramesAreUsed'
  BY ZenonT(60), <1>1 DEF HeldFramesAreUsed, FrameInv
<1>9. heap' \subseteq held'
  BY ZenonT(60), <1>1, <1>2
<1>10. TypeOK'
  BY ZenonT(60), <1>1, <1>2, <1>7, <1>9 DEF FrameInv, TypeOK
<1>11. MarkedSoFar'
  BY ZenonT(60), <1>1 DEF FrameInv, MarkedSoFar, IsReserved, RegionEnd
<1>. QED
  BY ZenonT(60), <1>7, <1>8, <1>10, <1>11 DEF FrameInv

-----------------------------------------------------------------------------
(* The invariant *)

\* Nothing is out and nothing is free before init.
LEMMA FrameInvInit == Init => FrameInv
<1>. SUFFICES ASSUME Init PROVE FrameInv
  BY ZenonT(60)
<1>1. TypeOK
  <2>1. map \in Seq(Region) /\ Len(map) \in Nat
    BY MapsAssumption DEF Init
  <2>. QED
    BY <2>1 DEF Init, TypeOK, Stage, CheckStage
<1>2. FreeCountIsExact
  BY ZenonT(60), FS_EmptySet DEF Init, FreeCountIsExact
<1>. QED
  BY ZenonT(60), <1>1, <1>2 DEF Init, FrameInv, HeldFramesAreUsed, MarkedSoFar

\* install: the end of the identity map is set while the bitmaps are empty.
LEMMA InstallInv ==
    ASSUME FrameInv, Install
    PROVE  FrameInv'
<1>1. /\ stage = "firmware" /\ stage' \in {"paged", "failed"}
      /\ limit' \in {limit, IdentityLimit(map)}
      /\ limit' # limit => FromBytesOk(map)
      /\ UNCHANGED <<map, reserved, marked, allocatable, used, freeFrames, held, heap>>
  BY ZenonT(60) DEF Install
<1>2. limit' \in Nat
  <2>1. CASE limit' = limit
    BY ZenonT(60), <2>1 DEF FrameInv, TypeOK
  <2>2. CASE limit' # limit
    <3>1. map \in Seq(Region)
      BY ZenonT(60), MapsAssumption DEF FrameInv, TypeOK
    <3>. QED
      BY ZenonT(60), <3>1, <2>2, <1>1, LimitType
  <2>. QED
    BY ZenonT(60), <2>1, <2>2
<1>3. allocatable = {} /\ used = {} /\ held = {} /\ heap = {}
  BY ZenonT(60), <1>1 DEF FrameInv, MarkedSoFar
<1>4. TypeOK'
  BY ZenonT(60), <1>1, <1>2, <1>3 DEF FrameInv, TypeOK, Stage, CheckStage, CheckStage
<1>. QED
  BY ZenonT(60), <1>1, <1>3, <1>4 DEF FrameInv, FreeCountIsExact, HeldFramesAreUsed, MarkedSoFar

\* init starts from "everything used, nothing allocatable".
LEMMA BeginInv ==
    ASSUME FrameInv, InitAllocators
    PROVE  FrameInv'
<1>1. stage = "paged" /\ heap' = heap
  BY ZenonT(60) DEF InitAllocators
<1>2. allocatable = {} /\ used = {} /\ held = {} /\ heap = {} /\ freeFrames = 0
  BY ZenonT(60), <1>1, FS_EmptySet DEF FrameInv, MarkedSoFar, FreeCountIsExact
<1>3. CASE stage' = "failed" /\ UNCHANGED frameVars
  BY ZenonT(60), <1>1, <1>2, <1>3
     DEF FrameInv, TypeOK, Stage, CheckStage, FreeCountIsExact, HeldFramesAreUsed, MarkedSoFar, frameVars,
         Managed
<1>4. CASE stage' = "marking" /\ BeginInit
  <2>1. /\ marked' = 0 /\ allocatable' = {} /\ used' = Managed /\ freeFrames' = 0
        /\ UNCHANGED <<map, reserved, limit, held, heap>> /\ Managed' = Managed
    BY ZenonT(60), <1>1, <1>4 DEF BeginInit, Managed
  <2>2. TypeOK'
    <3>1. 0 \in 0 .. Len(map)
      BY DEF FrameInv, TypeOK
    <3>. QED
      BY ZenonT(60), <1>2, <1>4, <2>1, <3>1 DEF FrameInv, TypeOK, Stage, CheckStage, CheckStage
  <2>3. FreeCountIsExact'
    BY ZenonT(60), <2>1, FS_EmptySet DEF FreeCountIsExact
  <2>. QED
    BY ZenonT(60), <1>2, <1>4, <2>1, <2>2, <2>3 DEF FrameInv, HeldFramesAreUsed, MarkedSoFar
<1>. QED
  BY ZenonT(60), <1>3, <1>4 DEF InitAllocators

\* Every step preserves the invariant.
LEMMA FrameInvNext == FrameInv /\ CheckIsAway /\ [Next]_vars => FrameInv'
<1>. SUFFICES ASSUME FrameInv, CheckIsAway, [Next]_vars PROVE FrameInv'
  BY ZenonT(60)
<1>0. stage \in Stage /\ heap \subseteq held
  BY ZenonT(60) DEF FrameInv, TypeOK
<1>1. CASE Install
  BY ZenonT(60), <1>1, InstallInv
<1>2. CASE InitAllocators
  BY ZenonT(60), <1>2, BeginInv
<1>3. CASE MarkNextRegion
  BY ZenonT(60), <1>3, MarkRegionInv
<1>4. CASE FinishMarking
  <2>1. /\ heap = {} /\ UNCHANGED <<frameVars, heap>> /\ stage' \in {"failed", "heap"}
    BY ZenonT(60), <1>4 DEF FinishMarking, FrameInv, MarkedSoFar
  <2>. QED
    BY ZenonT(60), <2>1, SameFramesInv DEF Stage, CheckStage
<1>5. CASE TakeHeap
  <2>1. /\ stage = "heap" /\ stage' \in {"failed", "first"} /\ heap' = held' \ held
    BY ZenonT(60), <1>5 DEF TakeHeap
  <2>2. CASE UNCHANGED frameVars
    <3>1. UNCHANGED heap
      BY ZenonT(60), <2>1, <2>2 DEF frameVars, FrameInv, MarkedSoFar
    <3>. QED
      BY ZenonT(60), <2>1, <2>2, <3>1, SameFramesInv DEF Stage, CheckStage
  <2>3. CASE \E start \in Managed : FoundRun(start, HEAP_FRAMES) /\ TakeRun(start, HEAP_FRAMES)
    BY ZenonT(60), <2>1, <2>3, TakeRunInv, SizesAssumption DEF Stage, CheckStage
  <2>. QED
    BY ZenonT(60), <1>5, <2>2, <2>3 DEF TakeHeap, AllocFrames
<1>6. ASSUME NEW count \in Counts, Alloc(count) PROVE FrameInv'
  <2>1. stage = "ready" /\ stage' = stage /\ heap' = heap /\ AllocFrames(count)
    BY ZenonT(60), <1>6 DEF Alloc
  <2>2. CASE UNCHANGED frameVars
    BY ZenonT(60), <2>1, <2>2, <1>0, SameFramesInv
  <2>3. ASSUME NEW start \in Managed, FoundRun(start, count), TakeRun(start, count)
        PROVE  FrameInv'
    <3>1. count \in Nat \ {0}
      BY <2>3, SizesAssumption DEF FoundRun
    <3>2. heap' \subseteq held'
      BY ZenonT(60), <2>1, <2>3, <1>0 DEF TakeRun
    <3>. QED
      BY ZenonT(60), <2>1, <2>3, <3>1, <3>2, <1>0, TakeRunInv
  <2>. QED
    BY ZenonT(60), <2>1, <2>2, <2>3 DEF AllocFrames
<1>7. ASSUME NEW start \in 0 .. limit, NEW count \in Counts, Free(start, count) PROVE FrameInv'
  <2>1. /\ FreeFrames(start, count) /\ heap' = heap /\ stage = "ready" /\ stage' = stage
        /\ Run(start, count) \cap heap = {}
    BY ZenonT(60), <1>7 DEF Free
  <2>. QED
    BY ZenonT(60), <2>1, <1>0, FreeFramesInv
<1>8. ASSUME NEW page, NEW image, InitUser(page, image) PROVE FrameInv'
  <2>1. stage = "ready" /\ stage' \in {"ready", "failed"} /\ heap' = heap
    BY ZenonT(60), <1>8 DEF InitUser
  <2>2. CASE UNCHANGED frameVars
    BY ZenonT(60), <2>1, <2>2, SameFramesInv DEF Stage, CheckStage
  <2>3. ASSUME NEW start \in Managed, FoundRun(start, USER_STACK_PAGES),
               TakeRun(start, USER_STACK_PAGES)
        PROVE  FrameInv'
    <3>1. heap' \subseteq held'
      BY ZenonT(60), <2>1, <2>3, <1>0 DEF TakeRun
    <3>. QED
      BY ZenonT(60), <2>1, <2>3, <3>1, TakeRunInv, SizesAssumption DEF Stage, CheckStage
  <2>. QED
    BY ZenonT(60), <1>8, <2>2, <2>3 DEF InitUser
<1>9. CASE CheckAlloc
  <2>1. /\ stage \in {"first", "second", "again"} /\ AllocFrames(1) /\ heap' = heap
        /\ stage' \in {"rejected", "second", "return_first", "return_again"}
    BY ZenonT(60), <1>9 DEF CheckAlloc
  <2>2. CASE UNCHANGED frameVars
    BY ZenonT(60), <2>1, <2>2, SameFramesInv DEF Stage, CheckStage
  <2>3. ASSUME NEW count, count = 1,
               NEW start \in Managed, FoundRun(start, count), TakeRun(start, count)
        PROVE  FrameInv'
    <3>1. heap' \subseteq held'
      BY ZenonT(60), <2>1, <2>3, <1>0 DEF TakeRun
    <3>2. count \in Nat \ {0}
      BY <2>3
    <3>3. stage' \in Stage
      BY ZenonT(60), <2>1 DEF Stage, CheckStage
    <3>4. /\ stage \notin {"firmware", "paged", "marking"}
          /\ stage' \notin {"firmware", "paged", "marking", "heap"}
      BY ZenonT(60), <2>1
    <3>. QED
      BY ZenonT(60), <2>3, <3>1, <3>2, <3>3, <3>4, TakeRunInv
  <2>. QED
    BY ZenonT(60), <2>1, <2>2, <2>3 DEF AllocFrames
<1>10. ASSUME NEW i \in DOMAIN check, FreeFrames(check[i], 1), heap' = heap,
              stage \in CheckStage, stage' \in CheckStage \cup {"rejected"}
       PROVE  FrameInv'
  <2>1. Run(check[i], 1) = {check[i]}
    BY DEF CheckIsAway, Run
  <2>2. Run(check[i], 1) \cap heap = {}
    BY ZenonT(60), <2>1 DEF CheckIsAway
  <2>. QED
    BY ZenonT(60), <2>2, <1>10, FreeFramesInv DEF Stage, CheckStage
<1>11. CASE CheckFree
  BY ZenonT(60), <1>11, <1>10 DEF CheckFree, CheckReturn, CheckStage
<1>12. CASE CheckDoubleFree
  BY ZenonT(60), <1>12, <1>10 DEF CheckDoubleFree, CheckStage
<1>13. CASE Inspect
  <2>1. UNCHANGED <<frameVars, heap>> /\ stage' \in {"ready", "rejected"}
    BY ZenonT(60), <1>13 DEF Inspect
  <2>. QED
    BY ZenonT(60), <2>1, SameFramesInv DEF Stage
<1>14. CASE Failed \/ UNCHANGED vars
  <2>1. UNCHANGED <<frameVars, heap>> /\ stage' = stage /\ (stage = "heap" => heap = {})
    BY ZenonT(60), <1>14 DEF Failed, vars, frameVars, FrameInv, MarkedSoFar
  <2>. QED
    BY ZenonT(60), <2>1, <1>0, SameFramesInv
<1>. QED
  BY ZenonT(60), <1>1, <1>2, <1>3, <1>4, <1>5, <1>6, <1>7, <1>8, <1>9, <1>11, <1>12, <1>13,
     <1>14
  DEF Next

\* The inductive invariant of the frame allocator holds from Init on, whatever
\* init, alloc_contiguous, free and the boot sequence do.
THEOREM FrameInvariance == Spec => []FrameInv
<1>1. Init => CheckIsAway
  BY DEF Init, CheckIsAway
<1>. QED
  BY <1>1, FrameInvInit, FrameInvNext, CheckIsAwayNext, PTL DEF Spec

\* The state of the boot and of the allocator keeps its type; in particular no
\* bit is ever set outside the managed frames and the counter never underflows.
THEOREM MemoryTypeCorrect == Spec => []TypeOK
<1>1. FrameInv => TypeOK
  BY ZenonT(60) DEF FrameInv
<1>. QED
  BY <1>1, FrameInvariance, PTL

\* stats().free_frames always is the number of free frames in the bitmaps.
THEOREM FreeCountCorrect == Spec => []FreeCountIsExact
<1>1. FrameInv => FreeCountIsExact
  BY ZenonT(60) DEF FrameInv
<1>. QED
  BY <1>1, FrameInvariance, PTL

\* No frame is handed out twice, and none is lost.
THEOREM NoFrameTwice == Spec => []HeldFramesAreUsed
<1>1. FrameInv => HeldFramesAreUsed
  BY ZenonT(60) DEF FrameInv
<1>. QED
  BY <1>1, FrameInvariance, PTL

\* Only conventional memory outside the reserved ranges is ever handed out.
THEOREM OwnFramesOnly == Spec => []OnlyOwnFrames
  BY OwnFrames, FrameInvariance, PTL

\* The tables are in order from install on, whatever becomes of user::init.
THEOREM MapInvariance == Spec => []MapInv
<1>1. Init => MapInv
  BY ZenonT(60) DEF Init, MapInv
<1> QED
  BY <1>1, FrameInvariance, MapInvNext, PTL DEF Spec

\* The identity map is what build promises, for every memory map and every size
\* of the tables: no page below the limit that is RAM is left out but page 0,
\* no page is mapped anywhere but to itself, and map_user_region changes none.
THEOREM IdentityMapCorrect == Spec => []IdentityMap
  BY IdentityHolds, FrameInvariance, MapInvariance, PTL

\* Every frame that alloc may hand out is mapped to itself, writable, although
\* build and init read the memory map on their own.
THEOREM FramesMapped == Spec => []FramesAreMapped
  BY FramesHold, FrameInvariance, MapInvariance, PTL

\* CPL 3 reaches the service's pages, with their permissions, and no other, for
\* every memory map, every size of the tables and every order of allocations;
\* a failed user::init leaves it nothing.  The image must be linked apart from
\* the stack; neither the loader nor user::init checks that.
THEOREM UserIsConfined == Spec => [](ImageMissesStack => UserSeesOnlyItself)
  BY UserHolds, FrameInvariance, MapInvariance, PTL

-----------------------------------------------------------------------------
(* The self-check *)

\* Where frame_self_check is: how many frames it has out beside the heap, which
\* they are, and that the first it got is the lowest of all that were free.
CheckedSoFar ==
    /\ atInit \in Nat
    /\ stage = "heap" => freeFrames = atInit
    /\ stage = "first" => freeFrames + HEAP_FRAMES = atInit /\ check = <<>>
    /\ stage = "second" =>
          /\ freeFrames + HEAP_FRAMES + 1 = atInit
          /\ Len(check) = 1 /\ check[1] \in held
          /\ \A f \in allocatable : IsFree(f) => check[1] < f
    /\ stage = "return_first" =>
          /\ freeFrames + HEAP_FRAMES + 2 = atInit
          /\ Len(check) = 2 /\ check[1] \in held /\ check[2] \in held
          /\ check[1] < check[2]
          /\ \A f \in allocatable : IsFree(f) => check[1] < f
    /\ stage = "return_second" =>
          /\ freeFrames + HEAP_FRAMES + 1 = atInit
          /\ Len(check) = 2 /\ IsFree(check[1]) /\ check[2] \in held
          /\ check[1] < check[2]
          /\ \A f \in allocatable : IsFree(f) => check[1] <= f
    /\ stage = "again" =>
          /\ freeFrames + HEAP_FRAMES = atInit
          /\ Len(check) = 2 /\ IsFree(check[1])
          /\ \A f \in allocatable : IsFree(f) => check[1] <= f
    /\ stage = "return_again" =>
          /\ freeFrames + HEAP_FRAMES + 1 = atInit
          /\ Len(check) = 3 /\ check[3] \in held
    /\ stage = "return_twice" =>
          /\ freeFrames + HEAP_FRAMES = atInit
          /\ Len(check) = 3 /\ IsFree(check[3])
    /\ stage = "inspect" => freeFrames + HEAP_FRAMES = atInit
    /\ SelfCheckPasses

\* ... if there is one.
LEMMA NoneFree ==
    ASSUME FrameInv, NotFound(1)
    PROVE  freeFrames = 0 /\ \A f : ~ IsFree(f)
<1>1. FreeRuns(1) = {}
  BY DEF NotFound
<1>2. ASSUME NEW f, IsFree(f) PROVE FALSE
  <2>1. f \in Managed /\ f \in Nat
    BY ZenonT(60), <1>2, ManagedFinite DEF FrameInv, TypeOK, IsFree
  <2>2. f \in FreeRuns(1)
    BY ZenonT(60), <1>2, <2>1, RunOfOne DEF FreeRuns
  <2> QED
    BY ZenonT(60), <1>1, <2>2
<1>3. allocatable \ used = {}
  BY ZenonT(60), <1>2 DEF IsFree
<1> QED
  BY ZenonT(60), <1>2, <1>3, FS_EmptySet DEF FrameInv, FreeCountIsExact

\* free() of a frame that is out gives it back ...
LEMMA ReturnOne ==
    ASSUME FrameInv, NEW f \in held, FreeFrames(f, 1)
    PROVE  /\ Freeable(f)
           /\ used' = used \ {f} /\ held' = held \ {f}
           /\ freeFrames' = freeFrames + 1 /\ UNCHANGED allocatable
<1>1. f \in Managed /\ f \in allocatable /\ f \in used /\ ~ IsReserved(f) /\ f \in Nat
  BY ZenonT(60), ManagedFinite DEF FrameInv, TypeOK, HeldFramesAreUsed, MarkedSoFar
<1>2. Freeable(f)
  BY ZenonT(60), <1>1 DEF Freeable
<1>3. FreedBy(f, 1) = {f}
  BY ZenonT(60), <1>1, <1>2, RunOfOne DEF FreedBy
<1>4. Cardinality({f}) = 1
  BY ZenonT(60), FS_Singleton
<1> QED
  BY ZenonT(60), <1>2, <1>3, <1>4 DEF FreeFrames

\* ... and of a free one nothing.
LEMMA RefuseOne ==
    ASSUME FrameInv, NEW f, IsFree(f), FreeFrames(f, 1)
    PROVE  ~ Freeable(f) /\ UNCHANGED freeFrames
<1>1. ~ Freeable(f) /\ f \in Nat
  BY ZenonT(60), ManagedFinite DEF FrameInv, TypeOK, Freeable, IsFree
<1>2. FreedBy(f, 1) = {}
  BY <1>1, RunOfOne DEF FreedBy
<1>3. Cardinality({}) = 0
  BY ZenonT(60), FS_EmptySet
<1>4. freeFrames' = freeFrames + 0
  BY ZenonT(60), <1>2, <1>3 DEF FreeFrames
<1> QED
  BY <1>1, <1>4 DEF FrameInv, TypeOK

\* An allocation of the self-check.
LEMMA CheckAllocStep ==
    ASSUME FrameInv, CheckIsAway, CheckedSoFar, CheckAlloc
    PROVE  CheckedSoFar'
<1>1. /\ stage \in {"first", "second", "again"} /\ AllocFrames(1) /\ UNCHANGED atInit
      /\ atInit \in Nat /\ freeFrames \in Nat /\ HEAP_FRAMES \in Nat /\ check \in Seq(Nat)
  BY ZenonT(60), SizesAssumption DEF CheckAlloc, CheckedSoFar, CheckIsAway, FrameInv, TypeOK
<1>2. CASE NotFound(1) /\ stage' = "rejected"
  <2>1. freeFrames = 0 /\ stage # "again"
    BY ZenonT(60), <1>2, NoneFree DEF CheckedSoFar
  <2>2. atInit < HEAP_FRAMES + 2
    BY <1>1, <2>1 DEF CheckedSoFar
  <2> QED
    BY ZenonT(60), <1>1, <1>2, <2>2 DEF CheckedSoFar, SelfCheckPasses
<1>3. ASSUME NEW f \in Managed, FoundRun(f, 1), check' = Append(check, f),
             stage' = CASE stage = "first" -> "second"
                        [] stage = "second" -> IF f = check[1] THEN "rejected" ELSE "return_first"
                        [] stage = "again" -> IF f = check[1] THEN "return_again" ELSE "rejected"
      PROVE  CheckedSoFar'
  <2>1. f \in Nat /\ IsFree(f) /\ \A g \in allocatable : IsFree(g) => f <= g
    BY ZenonT(60), <1>3, LowestFree
  <2>2. /\ used' = used \cup {f} /\ held' = held \cup {f}
        /\ freeFrames' = freeFrames - 1 /\ UNCHANGED allocatable
    BY ZenonT(60), <1>1, <1>3, TakeOne
  <2>3. \A g \in allocatable : IsFree(g)' <=> IsFree(g) /\ g # f
    BY ZenonT(60), <2>2 DEF IsFree
  <2>4. allocatable \subseteq Nat
    BY ZenonT(60), ManagedFinite DEF FrameInv, TypeOK
  <2>5. /\ Len(check') = Len(check) + 1 /\ check'[Len(check) + 1] = f
        /\ \A i \in 1 .. Len(check) : check'[i] = check[i]
    BY <1>1, <1>3, <2>1
  <2>6. CASE stage = "first"
    <3>1. stage' = "second" /\ Len(check') = 1 /\ check'[1] = f
      BY <1>3, <2>5, <2>6 DEF CheckedSoFar
    <3>2. freeFrames' + HEAP_FRAMES + 1 = atInit
      BY <1>1, <2>2, <2>6 DEF CheckedSoFar
    <3>3. \A g \in allocatable' : IsFree(g)' => check'[1] < g
      BY <2>1, <2>2, <2>3, <2>4, <3>1
    <3> QED
      BY ZenonT(60), <1>1, <2>2, <3>1, <3>2, <3>3 DEF CheckedSoFar, SelfCheckPasses
  <2>7. CASE stage = "second"
    <3>1. /\ Len(check) = 1 /\ check[1] \in held /\ check[1] < f
          /\ \A g \in allocatable : IsFree(g) => check[1] < g
      BY ZenonT(60), <2>1, <2>7 DEF CheckedSoFar, IsFree
    <3>2. check'[1] = check[1] /\ check'[2] = f /\ Len(check') = 2
      BY <2>5, <3>1
    <3>3. stage' = "return_first"
      <4>1. check[1] \in used
        BY ZenonT(60), <3>1 DEF FrameInv, HeldFramesAreUsed
      <4>2. f # check[1]
        BY ZenonT(60), <2>1, <4>1 DEF IsFree
      <4> QED
        BY ZenonT(60), <1>3, <2>7, <4>2
    <3>4. freeFrames' + HEAP_FRAMES + 2 = atInit
      BY <1>1, <2>2, <2>7 DEF CheckedSoFar
    <3>5. \A g \in allocatable' : IsFree(g)' => check'[1] < g
      BY ZenonT(60), <2>2, <2>3, <3>1, <3>2
    <3> QED
      BY ZenonT(60), <1>1, <2>2, <3>1, <3>2, <3>3, <3>4, <3>5 DEF CheckedSoFar, SelfCheckPasses
  <2>8. CASE stage = "again"
    <3>1. Len(check) = 2 /\ IsFree(check[1]) /\ \A g \in allocatable : IsFree(g) => check[1] <= g
      BY ZenonT(60), <2>8 DEF CheckedSoFar
    <3>2. f = check[1]
      <4>1. check[1] \in Nat /\ f <= check[1] /\ check[1] <= f
        BY ZenonT(60), <2>1, <2>4, <3>1 DEF IsFree
      <4> QED
        BY <2>1, <4>1
    <3>3. stage' = "return_again"
      BY ZenonT(60), <1>3, <2>8, <3>2
    <3>4. Len(check') = 3 /\ check'[3] = f
      BY <2>5, <3>1
    <3>5. freeFrames' + HEAP_FRAMES + 1 = atInit
      BY <1>1, <2>2, <2>8 DEF CheckedSoFar
    <3> QED
      BY ZenonT(60), <1>1, <2>2, <3>3, <3>4, <3>5 DEF CheckedSoFar, SelfCheckPasses
  <2> QED
    BY ZenonT(60), <1>1, <2>6, <2>7, <2>8
<1> QED
  BY ZenonT(60), <1>2, <1>3 DEF CheckAlloc

\* A return of the self-check.
LEMMA CheckReturnStep ==
    ASSUME FrameInv, CheckIsAway, CheckedSoFar, CheckFree \/ CheckDoubleFree \/ Inspect
    PROVE  CheckedSoFar'
<1>1. /\ UNCHANGED <<atInit, check>>
      /\ atInit \in Nat /\ freeFrames \in Nat /\ HEAP_FRAMES \in Nat /\ check \in Seq(Nat)
      /\ allocatable \subseteq Nat
  BY ZenonT(60), SizesAssumption, ManagedFinite
     DEF CheckFree, CheckReturn, CheckDoubleFree, Inspect, CheckedSoFar, CheckIsAway, FrameInv, TypeOK
<1>2. CASE stage = "return_first" /\ CheckReturn(1, "return_second")
  <2>1. check[1] \in held /\ FreeFrames(check[1], 1)
    BY ZenonT(60), <1>2 DEF CheckedSoFar, CheckReturn
  <2>2. /\ stage' = "return_second" /\ used' = used \ {check[1]} /\ held' = held \ {check[1]}
        /\ freeFrames' = freeFrames + 1 /\ UNCHANGED allocatable
    BY ZenonT(60), <1>2, <2>1, ReturnOne DEF CheckReturn
  <2>3. check[1] \in allocatable /\ check[1] \in Nat
    BY ZenonT(60), <1>1, <2>1 DEF FrameInv, HeldFramesAreUsed
  <2>4. \A g \in allocatable : IsFree(g)' <=> IsFree(g) \/ g = check[1]
    BY ZenonT(60), <2>2 DEF IsFree
  <2>5. \A g \in allocatable' : IsFree(g)' => check'[1] <= g
    BY <1>1, <1>2, <2>2, <2>3, <2>4 DEF CheckedSoFar
  <2>6. IsFree(check[1])'
    BY ZenonT(60), <1>1, <2>2, <2>3, <2>4 DEF IsFree
  <2>7. Len(check) = 2 /\ check[2] \in held /\ check[2] \in Nat /\ check[1] < check[2]
    BY <1>1, <1>2 DEF CheckedSoFar
  <2>8. check[2] \in held'
    BY <2>2, <2>3, <2>7
  <2>9. freeFrames' + HEAP_FRAMES + 1 = atInit
    BY <1>1, <1>2, <2>2 DEF CheckedSoFar
  <2> QED
    BY ZenonT(60), <1>1, <2>2, <2>5, <2>6, <2>7, <2>8, <2>9 DEF CheckedSoFar, SelfCheckPasses
<1>3. CASE stage = "return_second" /\ CheckReturn(2, "again")
  <2>1. check[2] \in held /\ FreeFrames(check[2], 1)
    BY ZenonT(60), <1>3 DEF CheckedSoFar, CheckReturn
  <2>2. /\ stage' = "again" /\ used' = used \ {check[2]}
        /\ freeFrames' = freeFrames + 1 /\ UNCHANGED allocatable
    BY ZenonT(60), <1>3, <2>1, ReturnOne DEF CheckReturn
  <2>3. \A g \in allocatable : IsFree(g)' <=> IsFree(g) \/ g = check[2]
    BY ZenonT(60), <2>2 DEF IsFree
  <2>4. Len(check) = 2 /\ IsFree(check[1]) /\ check[1] < check[2] /\ check[1] \in Nat /\ check[2] \in Nat
    <3>1. Len(check) = 2 /\ IsFree(check[1]) /\ check[1] < check[2]
      BY ZenonT(60), <1>3 DEF CheckedSoFar
    <3>2. check[1] \in Nat /\ check[2] \in Nat
      BY <1>1, <3>1
    <3> QED
      BY ZenonT(60), <3>1, <3>2
  <2>5. \A g \in allocatable' : IsFree(g)' => check'[1] <= g
    BY <1>1, <1>3, <2>2, <2>3, <2>4 DEF CheckedSoFar
  <2>6. IsFree(check[1])'
    BY ZenonT(60), <1>1, <2>2, <2>4 DEF IsFree
  <2>7. freeFrames' + HEAP_FRAMES = atInit
    BY <1>1, <1>3, <2>2 DEF CheckedSoFar
  <2> QED
    BY ZenonT(60), <1>1, <2>2, <2>4, <2>5, <2>6, <2>7 DEF CheckedSoFar, SelfCheckPasses
<1>4. CASE stage = "return_again" /\ CheckReturn(3, "return_twice")
  <2>1. check[3] \in held /\ FreeFrames(check[3], 1) /\ Len(check) = 3
    BY ZenonT(60), <1>4 DEF CheckedSoFar, CheckReturn
  <2>2. /\ stage' = "return_twice" /\ used' = used \ {check[3]}
        /\ freeFrames' = freeFrames + 1 /\ UNCHANGED allocatable
    BY ZenonT(60), <1>4, <2>1, ReturnOne DEF CheckReturn
  <2>3. IsFree(check[3])'
    BY ZenonT(60), <1>1, <2>1, <2>2 DEF IsFree, FrameInv, HeldFramesAreUsed
  <2>4. freeFrames' + HEAP_FRAMES = atInit
    BY <1>1, <1>4, <2>2 DEF CheckedSoFar
  <2> QED
    BY ZenonT(60), <1>1, <2>1, <2>2, <2>3, <2>4 DEF CheckedSoFar, SelfCheckPasses
<1>5. CASE CheckDoubleFree
  <2>1. /\ stage = "return_twice" /\ IsFree(check[3]) /\ FreeFrames(check[3], 1)
        /\ freeFrames + HEAP_FRAMES = atInit
    BY ZenonT(60), <1>5 DEF CheckedSoFar, CheckDoubleFree
  <2>2. stage' = "inspect" /\ UNCHANGED freeFrames
    BY ZenonT(60), <1>5, <2>1, RefuseOne DEF CheckDoubleFree
  <2> QED
    BY ZenonT(60), <1>1, <2>1, <2>2 DEF CheckedSoFar, SelfCheckPasses
<1>6. CASE Inspect
  <2>1. \A f \in Managed : IsReserved(f) => ~ IsFree(f)
    BY ZenonT(60) DEF FrameInv, MarkedSoFar, IsFree
  <2>2. freeFrames + HEAP_FRAMES = atInit
    BY ZenonT(60), <1>6 DEF Inspect, CheckedSoFar
  <2>3. stage' = "ready"
    BY ZenonT(60), <1>6, <2>1, <2>2 DEF Inspect
  <2> QED
    BY ZenonT(60), <1>1, <2>3 DEF CheckedSoFar, SelfCheckPasses
<1> QED
  BY ZenonT(60), <1>2, <1>3, <1>4, <1>5, <1>6 DEF CheckFree

\* Every step keeps the self-check's account.
LEMMA CheckedSoFarNext == FrameInv /\ CheckIsAway /\ CheckedSoFar /\ [Next]_vars => CheckedSoFar'
<1> SUFFICES ASSUME FrameInv, CheckIsAway, CheckedSoFar, [Next]_vars PROVE CheckedSoFar'
  BY ZenonT(60)
<1>1. atInit \in Nat /\ freeFrames \in Nat /\ HEAP_FRAMES \in Nat
  BY ZenonT(60), SizesAssumption DEF CheckedSoFar, FrameInv, TypeOK
<1>2. CASE UNCHANGED atInit /\ stage' \in {"firmware", "paged", "marking", "ready", "failed"}
  BY ZenonT(60), <1>1, <1>2 DEF CheckedSoFar, SelfCheckPasses
<1>3. CASE Install \/ InitAllocators \/ MarkNextRegion
  BY ZenonT(60), <1>2, <1>3 DEF Install, InitAllocators, MarkNextRegion
<1>4. CASE FinishMarking
  <2>1. stage' \in {"failed", "heap"} /\ atInit' = freeFrames /\ UNCHANGED freeFrames
    BY ZenonT(60), <1>4 DEF FinishMarking, frameVars
  <2> QED
    BY ZenonT(60), <1>1, <2>1 DEF CheckedSoFar, SelfCheckPasses
<1>5. CASE TakeHeap
  <2>1. stage = "heap" /\ stage' \in {"failed", "first"} /\ UNCHANGED <<atInit, check>>
    BY ZenonT(60), <1>5 DEF TakeHeap
  <2>2. CASE stage' = "failed"
    BY ZenonT(60), <1>2, <2>1, <2>2
  <2>3. CASE stage' = "first"
    <3>1. ~ NotFound(HEAP_FRAMES)
      BY ZenonT(60), <1>5, <2>3 DEF TakeHeap
    <3>2. PICK start \in Managed : TakeRun(start, HEAP_FRAMES)
      BY ZenonT(60), <1>5, <3>1 DEF TakeHeap, AllocFrames
    <3>3. freeFrames' = freeFrames - HEAP_FRAMES /\ freeFrames = atInit /\ check = <<>>
      BY ZenonT(60), <2>1, <3>2 DEF TakeRun, CheckedSoFar, CheckIsAway
    <3>4. freeFrames' + HEAP_FRAMES = atInit
      BY <1>1, <3>3
    <3> QED
      BY ZenonT(60), <1>1, <2>1, <2>3, <3>3, <3>4 DEF CheckedSoFar, SelfCheckPasses
  <2> QED
    BY ZenonT(60), <2>1, <2>2, <2>3
<1>6. CASE CheckAlloc
  BY ZenonT(60), <1>6, CheckAllocStep
<1>7. CASE CheckFree \/ CheckDoubleFree \/ Inspect
  BY ZenonT(60), <1>7, CheckReturnStep
<1>8. ASSUME NEW count, Alloc(count) \/ \E start : Free(start, count) PROVE CheckedSoFar'
  BY ZenonT(60), <1>2, <1>8 DEF Alloc, Free
<1>9. ASSUME NEW page, NEW image, InitUser(page, image) PROVE CheckedSoFar'
  BY ZenonT(60), <1>2, <1>9 DEF InitUser
<1>10. CASE Failed \/ UNCHANGED vars
  BY <1>10 DEF Failed, vars, CheckedSoFar, SelfCheckPasses, IsFree
<1> QED
  BY ZenonT(60), <1>3, <1>4, <1>5, <1>6, <1>7, <1>8, <1>9, <1>10 DEF Next

\* frame_self_check stops no kernel that has two frames beside its heap,
\* whatever the memory map: the lowest frame comes back first, a frame is not
\* handed out twice, and a second free is refused.
THEOREM SelfCheckCorrect == Spec => []SelfCheckPasses
<1>1. Init => CheckIsAway
  BY DEF Init, CheckIsAway
<1>2. Init => CheckedSoFar
  BY DEF Init, CheckedSoFar, SelfCheckPasses
<1>3. Spec => []CheckIsAway
  BY <1>1, FrameInvariance, CheckIsAwayNext, PTL DEF Spec
<1>4. Spec => []CheckedSoFar
  BY <1>2, <1>3, FrameInvariance, CheckedSoFarNext, PTL DEF Spec
<1>5. CheckedSoFar => SelfCheckPasses
  BY ZenonT(60) DEF CheckedSoFar
<1> QED
  BY <1>4, <1>5, PTL

-----------------------------------------------------------------------------
(* find_free_run *)

\* A scan of the frames from MIN_FREE_ADDR up to n, the records of the single
\* pass after each frame.
IsScan(g, count, n) ==
    g = [f \in MIN_FREE_ADDR .. n |->
            IF f = MIN_FREE_ADDR
            THEN [start |-> MIN_FREE_ADDR, run |-> 0]
            ELSE Scan(g[f - 1], f - 1, count)]

\* There is one for every n: were there a least n without, the scan up to n - 1
\* and one more step would be a scan up to n.
LEMMA ScanExists ==
    ASSUME NEW count, NEW n \in Nat, MIN_FREE_ADDR <= n
    PROVE  \E g : IsScan(g, count, n)
<1> DEFINE M == MIN_FREE_ADDR
           T == {k \in Nat : ~ \E g : IsScan(g, count, M + k)}
<1>1. M \in Nat
  BY ZenonT(60), MinFreeAssumption
<1>2. ASSUME T # {} PROVE FALSE
  <2>1. PICK k \in T : \A l \in T : k <= l
    <3> HIDE DEF T
    <3>1. T \subseteq Nat
      BY ZenonT(60) DEF T
    <3> QED
      BY ZenonT(60), <1>2, <3>1, NatMin
  <2>2. k \in Nat /\ ~ \E g : IsScan(g, count, M + k)
    BY ZenonT(60), <2>1
  <2>3. CASE k = 0
    <3> DEFINE g == [f \in M .. (M + k) |-> [start |-> M, run |-> 0]]
    <3>1. \A f \in M .. (M + k) : f = M
      BY <1>1, <2>3
    <3>2. IsScan(g, count, M + k)
      BY ZenonT(60), <3>1 DEF IsScan
    <3> QED
      BY ZenonT(60), <2>2, <3>2
  <2>4. CASE k # 0
    <3>1. k - 1 \in Nat /\ k - 1 \notin T
      BY <2>1, <2>2, <2>4
    <3>2. PICK h : IsScan(h, count, M + (k - 1))
      BY ZenonT(60), <3>1
    <3> DEFINE n1 == M + k
               g == [f \in M .. n1 |-> IF f = n1 THEN Scan(h[f - 1], f - 1, count) ELSE h[f]]
    <3>3. /\ n1 \in Nat /\ n1 # M /\ M + (k - 1) = n1 - 1
          /\ \A f \in M .. n1 : f # n1 => f \in M .. (n1 - 1)
          /\ \A f \in M .. n1 : f # M => f - 1 \in M .. n1 /\ f - 1 # n1
      BY <1>1, <2>2, <2>4
    <3> HIDE DEF n1
    <3>4. ASSUME NEW f \in M .. n1
          PROVE  g[f] = IF f = M THEN [start |-> M, run |-> 0] ELSE Scan(g[f - 1], f - 1, count)
      <4>1. h = [e \in M .. (n1 - 1) |->
                    IF e = M THEN [start |-> M, run |-> 0] ELSE Scan(h[e - 1], e - 1, count)]
        BY ZenonT(60), <3>2, <3>3 DEF IsScan
      <4>2. f # M => g[f - 1] = h[f - 1]
        BY ZenonT(60), <3>3
      <4>3. CASE f = n1
        BY ZenonT(60), <3>3, <4>2, <4>3
      <4>4. CASE f # n1
        <5>1. g[f] = h[f] /\ f \in M .. (n1 - 1)
          BY ZenonT(60), <3>3, <4>4
        <5>2. h[f] = IF f = M THEN [start |-> M, run |-> 0] ELSE Scan(h[f - 1], f - 1, count)
          BY ZenonT(60), <4>1, <5>1
        <5> QED
          BY ZenonT(60), <4>2, <5>1, <5>2
      <4> QED
        BY ZenonT(60), <4>3, <4>4
    <3>5. g = [f \in M .. n1 |-> g[f]]
      BY ZenonT(60)
    <3> HIDE DEF g
    <3>6. IsScan(g, count, n1)
      <4>1. [f \in M .. n1 |-> g[f]] =
            [f \in M .. n1 |-> IF f = M THEN [start |-> M, run |-> 0] ELSE Scan(g[f - 1], f - 1, count)]
        BY ZenonT(60), <3>4
      <4> QED
        BY ZenonT(60), <3>5, <4>1 DEF IsScan
    <3> QED
      BY ZenonT(60), <2>2, <3>6 DEF n1
  <2> QED
    BY ZenonT(60), <2>3, <2>4
<1>3. n - M \in Nat /\ M + (n - M) = n
  BY <1>1
<1>4. n - M \notin T
  BY ZenonT(60), <1>2
<1>5. \E g : IsScan(g, count, M + (n - M))
  BY ZenonT(60), <1>3, <1>4
<1> QED
  BY ZenonT(60), <1>3, <1>5

\* find_free_run, for any number of frames: it ends with a run exactly when
\* there is one, and then with the lowest.
LEMMA FirstFit ==
    ASSUME limit \in Nat, Managed # {}, NEW count \in Nat \ {0}
    PROVE  \E found \in {FindFreeRun(count)} :
              /\ found.run = count <=> FreeRuns(count) # {}
              /\ found.run = count => FoundRun(found.start, count)
<1> DEFINE M == MIN_FREE_ADDR
           scanned == CHOOSE g : IsScan(g, count, limit)
<1>1. M \in Nat /\ M < limit /\ M <= limit
  BY MinFreeAssumption DEF Managed
<1>2. IsScan(scanned, count, limit)
  BY ZenonT(60), <1>1, ScanExists
<1>3. FindFreeRun(count) = scanned[limit]
  BY ZenonT(60) DEF FindFreeRun, IsScan
<1> HIDE DEF scanned
<1>4. \A f \in M .. limit :
         scanned[f] = IF f = M THEN [start |-> M, run |-> 0] ELSE Scan(scanned[f - 1], f - 1, count)
  BY ZenonT(60), <1>2 DEF IsScan
<1> DEFINE T == {f \in M .. limit : ~ ScannedTo(scanned[f], f, count)}
<1>5. T = {}
  <2> SUFFICES ASSUME T # {} PROVE FALSE
    BY ZenonT(60)
  <2>1. PICK f \in T : \A e \in T : f <= e
    <3> HIDE DEF T
    <3>1. T \subseteq Nat
      BY <1>1 DEF T
    <3> QED
      BY ZenonT(60), <3>1, NatMin
  <2>2. f \in M .. limit /\ ~ ScannedTo(scanned[f], f, count)
    BY ZenonT(60), <2>1
  <2>3. CASE f = M
    <3>1. scanned[f] = [start |-> M, run |-> 0]
      BY ZenonT(60), <1>4, <2>2, <2>3
    <3>2. \A h \in FreeRuns(count) : h \in Nat /\ M <= h
      BY <1>1 DEF FreeRuns, Managed
    <3>3. \A h \in FreeRuns(count) : h + count > f
      BY <1>1, <2>3, <3>2
    <3>4. /\ f \in Nat /\ 0 <= f - M /\ 0 < count /\ 0 # count /\ ~ (0 > 0)
          /\ \A e \in Nat : ~ (e + 1 = f - 0 /\ M <= e)
          /\ \A e \in Nat : ~ (f - 0 <= e /\ e < f)
      BY <1>1, <2>3
    <3>5. Scanned(M, 0, f, count)
      BY ZenonT(60), <3>3, <3>4 DEF Scanned
    <3>6. scanned[f].start = M /\ scanned[f].run = 0 /\ scanned[f] \in [start : Nat, run : 0 .. count]
      <4> HIDE DEF M
      <4>1. 0 \in 0 .. count
        OBVIOUS
      <4>2. scanned[f] \in [start : Nat, run : 0 .. count]
        BY <1>1, <3>1, <4>1
      <4>3. scanned[f].start = M /\ scanned[f].run = 0
        BY <3>1
      <4> QED
        BY ZenonT(60), <4>2, <4>3
    <3> QED
      BY ZenonT(60), <2>2, <3>5, <3>6 DEF ScannedTo
  <2>4. CASE f # M
    <3>1. f - 1 \in M .. limit /\ f - 1 \in Managed /\ f - 1 + 1 = f /\ ~ (f <= f - 1)
      BY <1>1, <2>2, <2>4 DEF Managed
    <3>2. f - 1 \notin T
      BY ZenonT(60), <2>1, <3>1
    <3>3. ScannedTo(scanned[f - 1], f - 1, count)
      BY ZenonT(60), <3>1, <3>2
    <3>4. ScannedTo(Scan(scanned[f - 1], f - 1, count), f - 1 + 1, count)
      BY ZenonT(60), <3>1, <3>3, ScanStep
    <3> QED
      BY ZenonT(60), <1>4, <2>2, <2>4, <3>1, <3>4
  <2> QED
    BY ZenonT(60), <2>3, <2>4
<1>6. ScannedTo(scanned[limit], limit, count)
  BY <1>1, <1>5
<1> DEFINE found == scanned[limit]
<1>7. \A h \in FreeRuns(count) : h \in Nat /\ h + count <= limit
  <2> TAKE h \in FreeRuns(count)
  <2>1. h \in Nat /\ h + count - 1 \in Run(h, count)
    BY <1>1 DEF FreeRuns, Managed, Run
  <2>2. h + count - 1 \in Managed
    BY ZenonT(60), <2>1 DEF FreeRuns
  <2> QED
    BY <1>1, <2>1, <2>2 DEF Managed
<1> HIDE DEF found
<1>8. found.start \in Nat /\ found.run \in 0 .. count /\ Scanned(found.start, found.run, limit, count)
  BY ZenonT(60), <1>6 DEF found, ScannedTo
<1>9. CASE found.run = count
  <2>1. /\ M <= found.start /\ found.start + count <= limit
        /\ \A e \in Run(found.start, count) : IsFree(e)
        /\ \A h \in FreeRuns(count) : found.start <= h
    BY ZenonT(60), <1>8, <1>9 DEF Scanned
  <2>2. found.start \in Managed /\ Run(found.start, count) \subseteq Managed
    BY <1>1, <1>8, <2>1 DEF Managed, Run
  <2>3. found.start \in FreeRuns(count)
    BY ZenonT(60), <2>1, <2>2 DEF FreeRuns
  <2> QED
    BY <1>3, <1>9, <2>1, <2>3 DEF FoundRun, found
<1>10. CASE found.run # count
  <2>1. \A h \in FreeRuns(count) : h + count > limit
    BY <1>8, <1>10 DEF Scanned
  <2>2. FreeRuns(count) = {}
    BY <1>7, <2>1
  <2> QED
    BY ZenonT(60), <1>3, <1>10, <2>2 DEF found
<1> QED
  BY ZenonT(60), <1>9, <1>10

\* The single pass of find_free_run is first fit, in every state of the frame
\* allocator.
THEOREM ScanFindsFirstFit == Spec => []ScanIsFirstFit
<1>1. FrameInv => ScanIsFirstFit
  <2> SUFFICES ASSUME FrameInv, Managed # {}, NEW count \in {1, 2, 3}
               PROVE  \E found \in {FindFreeRun(count)} :
                         /\ found.run = count <=> FreeRuns(count) # {}
                         /\ found.run = count => FoundRun(found.start, count)
    BY ZenonT(60) DEF ScanIsFirstFit
  <2>1. limit \in Nat
    BY ZenonT(60) DEF FrameInv, TypeOK
  <2>2. count \in Nat \ {0}
    OBVIOUS
  <2> QED
    BY ZenonT(60), <2>1, <2>2, FirstFit
<1> QED
  BY <1>1, FrameInvariance, PTL

=============================================================================
