---------------------------- MODULE LoaderProofs ----------------------------
(***************************************************************************)
(* The bootloader for every size of a page and of the address space, every *)
(* pair of images and everything the firmware may already have allocated.  *)
(***************************************************************************)
EXTENDS Loader, FiniteSetTheorems, WellFoundedInduction, TLAPS

\* A leaf that names no prover goes to the SMT solver, with time to spare.
USE SMTT(60)

\* What the proofs assume of the volume besides LinkedAssumption: no segment
\* reaches into the last page of the address space, where page_range wraps.
BelowLastPage(image) ==
    \A i \in DOMAIN image.segs :
        image.segs[i].paddr + image.segs[i].memsz <= ADDRESS_SPACE - PAGE_SIZE

NoWrapAround == \A d \in Disks : BelowLastPage(d.kernel) /\ BelowLastPage(d.user)

-----------------------------------------------------------------------------
(* Pages *)

\* A product grows with its factors.
LEMMA Monotone ==
    ASSUME NEW a \in Nat, NEW b \in Nat, NEW c \in Nat, a <= b
    PROVE  a * c <= b * c /\ a * c \in Nat /\ b * c \in Nat
<1>1. PICK k \in Nat : b = a + k
  BY b - a \in Nat
<1>2. (a + k) * c = a * c + k * c /\ k * c \in Nat /\ a * c \in Nat
  OBVIOUS
<1> QED
  BY <1>1, <1>2

\* Quotient and remainder are the only ones there are.
LEMMA Quotient ==
    ASSUME NEW d \in Nat \ {0}, NEW q \in Nat, NEW r \in Nat, r < d, NEW n, n = q * d + r
    PROVE  n \in Nat /\ n \div d = q /\ n % d = r
  OBVIOUS

\* There are such.
LEMMA Division ==
    ASSUME NEW d \in Nat \ {0}, NEW n \in Nat
    PROVE  n \div d \in Nat /\ n % d \in Nat /\ n % d < d /\ n = (n \div d) * d + (n % d)
  OBVIOUS

\* Multiples that are less than one step apart are in order.
LEMMA Step ==
    ASSUME NEW a \in Nat, NEW b \in Nat, NEW c \in Nat, a * c < b * c + c
    PROVE  a <= b
<1>1. ASSUME b + 1 <= a PROVE FALSE
  <2>1. (b + 1) * c <= a * c /\ a * c \in Nat
    BY <1>1, Monotone
  <2>2. (b + 1) * c = b * c + c /\ b * c \in Nat
    OBVIOUS
  <2> QED
    BY <2>1, <2>2
<1> QED
  BY <1>1

\* The page of an address.
LEMMA PageOf ==
    ASSUME NEW addr \in Nat
    PROVE  \E q \in Nat, r \in Nat : /\ PageStart(addr) = q * PAGE_SIZE /\ q * PAGE_SIZE \in Nat
                                     /\ r < PAGE_SIZE /\ addr = q * PAGE_SIZE + r
<1>1. PAGE_SIZE \in Nat \ {0}
  BY ZenonT(60), SizesAssumption
<1>2. PICK q \in Nat, r \in Nat : q = addr \div PAGE_SIZE /\ r = addr % PAGE_SIZE
                                  /\ r < PAGE_SIZE /\ addr = q * PAGE_SIZE + r
  BY ZenonT(60), <1>1, Division
<1>3. q * PAGE_SIZE \in Nat
  BY <1>1, Monotone
<1>4. PageStart(addr) = addr - r
  BY ZenonT(60), <1>2 DEF PageStart
<1>5. addr - r = q * PAGE_SIZE
  BY <1>2, <1>3
<1> QED
  BY ZenonT(60), <1>2, <1>3, <1>4, <1>5

\* The address space is a whole number of pages.
LEMMA Space ==
    \E q \in Nat : ADDRESS_SPACE = q * PAGE_SIZE /\ ADDRESS_SPACE \in Nat /\ PAGE_SIZE \in Nat \ {0}
<1>1. PAGE_SIZE \in Nat \ {0} /\ ADDRESS_SPACE \in Nat /\ ADDRESS_SPACE % PAGE_SIZE = 0
  BY ZenonT(60), SizesAssumption
<1>2. PICK q \in Nat : ADDRESS_SPACE = q * PAGE_SIZE + 0
  BY ZenonT(60), <1>1, Division
<1>3. q * PAGE_SIZE \in Nat
  BY <1>1, Monotone
<1> QED
  BY <1>1, <1>2, <1>3

\* The start of a page is its own page.
LEMMA PageAligned ==
    ASSUME NEW q \in Nat
    PROVE  q * PAGE_SIZE \in Nat /\ PageStart(q * PAGE_SIZE) = q * PAGE_SIZE
<1>1. PAGE_SIZE \in Nat \ {0} /\ q * PAGE_SIZE \in Nat
  BY SizesAssumption, Monotone
<1>2. PICK n : n = q * PAGE_SIZE
  BY ZenonT(60)
<1>3. n = q * PAGE_SIZE + 0
  BY <1>1, <1>2
<1>4. n % PAGE_SIZE = 0
  BY <1>1, <1>3, Quotient
<1> QED
  BY <1>1, <1>2, <1>4 DEF PageStart

\* The pages are the multiples of PAGE_SIZE in the address space.
LEMMA PagesAre ==
    /\ \A p \in Pages : p \in Nat /\ p < ADDRESS_SPACE /\ \E q \in Nat : p = q * PAGE_SIZE
    /\ \A q \in Nat : q * PAGE_SIZE < ADDRESS_SPACE => q * PAGE_SIZE \in Pages
<1>0. ADDRESS_SPACE \in Nat
  BY ZenonT(60), Space
<1>1. ASSUME NEW p \in Pages PROVE p \in Nat /\ p < ADDRESS_SPACE /\ \E q \in Nat : p = q * PAGE_SIZE
  <2>1. PICK a \in Addresses : p = PageStart(a)
    BY ZenonT(60) DEF Pages
  <2>2. a \in Nat /\ a < ADDRESS_SPACE
    BY <1>0 DEF Addresses
  <2>3. PICK q \in Nat, r \in Nat : /\ PageStart(a) = q * PAGE_SIZE /\ q * PAGE_SIZE \in Nat
                                    /\ a = q * PAGE_SIZE + r
    BY ZenonT(60), <2>2, PageOf
  <2>4. q * PAGE_SIZE < ADDRESS_SPACE
    BY <1>0, <2>2, <2>3
  <2> QED
    BY ZenonT(60), <2>1, <2>3, <2>4
<1>2. ASSUME NEW q \in Nat, q * PAGE_SIZE < ADDRESS_SPACE PROVE q * PAGE_SIZE \in Pages
  <2>1. q * PAGE_SIZE \in Nat /\ PageStart(q * PAGE_SIZE) = q * PAGE_SIZE
    BY ZenonT(60), PageAligned
  <2>2. q * PAGE_SIZE \in Addresses
    BY <1>0, <1>2, <2>1 DEF Addresses
  <2> QED
    BY ZenonT(60), <2>1, <2>2 DEF Pages
<1> QED
  BY ZenonT(60), <1>1, <1>2

\* An address lies in its page and in no other.
LEMMA InPage ==
    ASSUME NEW a \in Addresses
    PROVE  /\ a \in Nat /\ a < ADDRESS_SPACE
           /\ PageStart(a) \in Pages /\ PageStart(a) \in Nat
           /\ PageStart(a) <= a /\ a < PageStart(a) + PAGE_SIZE
           /\ \A p \in Pages : p <= a => p <= PageStart(a)
           /\ \A p \in Pages : a < p + PAGE_SIZE => PageStart(a) <= p
           /\ \A p \in Pages : p \in Addresses /\ PageStart(p) = p
<1>1. a \in Nat /\ a < ADDRESS_SPACE /\ ADDRESS_SPACE \in Nat /\ PAGE_SIZE \in Nat \ {0}
  BY Space DEF Addresses
<1>2. PageStart(a) \in Pages
  BY ZenonT(60) DEF Pages
<1>3. PICK q \in Nat, r \in Nat : /\ PageStart(a) = q * PAGE_SIZE /\ q * PAGE_SIZE \in Nat
                                  /\ r < PAGE_SIZE /\ a = q * PAGE_SIZE + r
  BY ZenonT(60), <1>1, PageOf
<1>4. PageStart(a) \in Nat /\ PageStart(a) <= a /\ a < PageStart(a) + PAGE_SIZE
  BY <1>1, <1>3
<1>5. ASSUME NEW p \in Pages
      PROVE  /\ p <= a => p <= PageStart(a)
             /\ a < p + PAGE_SIZE => PageStart(a) <= p
             /\ p \in Addresses /\ PageStart(p) = p
  <2>1. PICK k \in Nat : p = k * PAGE_SIZE /\ p \in Nat /\ p < ADDRESS_SPACE
    BY ZenonT(60), PagesAre
  <2>2. ASSUME p <= a PROVE p <= PageStart(a)
    <3>1. k * PAGE_SIZE < q * PAGE_SIZE + PAGE_SIZE
      BY <1>1, <1>3, <2>1, <2>2
    <3>2. k <= q
      BY ZenonT(60), <1>1, <3>1, Step
    <3> QED
      BY <1>1, <1>3, <2>1, <3>2, Monotone
  <2>3. ASSUME a < p + PAGE_SIZE PROVE PageStart(a) <= p
    <3>1. q * PAGE_SIZE < k * PAGE_SIZE + PAGE_SIZE
      BY <1>1, <1>3, <2>1, <2>3
    <3>2. q <= k
      BY ZenonT(60), <1>1, <3>1, Step
    <3> QED
      BY <1>1, <1>3, <2>1, <3>2, Monotone
  <2>4. p \in Addresses /\ PageStart(p) = p
    BY <1>1, <2>1, PageAligned DEF Addresses
  <2> QED
    BY ZenonT(60), <2>2, <2>3, <2>4
<1> QED
  BY ZenonT(60), <1>1, <1>2, <1>4, <1>5

\* From one page to the next there is none.
LEMMA NextPage ==
    ASSUME NEW p \in Pages, NEW end \in Pages, p < end
    PROVE  /\ p + PAGE_SIZE \in Pages /\ p + PAGE_SIZE <= end
           /\ \A other \in Pages : other < p + PAGE_SIZE => other <= p
<1>1. ADDRESS_SPACE \in Nat /\ PAGE_SIZE \in Nat \ {0}
  BY ZenonT(60), Space
<1>2. PICK k \in Nat : p = k * PAGE_SIZE /\ p \in Nat /\ p < ADDRESS_SPACE
  BY ZenonT(60), PagesAre
<1>3. PICK e \in Nat : end = e * PAGE_SIZE /\ end \in Nat /\ end < ADDRESS_SPACE
  BY ZenonT(60), PagesAre
<1>4. k + 1 <= e
  <2> SUFFICES ASSUME e <= k PROVE FALSE
    OBVIOUS
  <2>1. e * PAGE_SIZE <= k * PAGE_SIZE
    BY ZenonT(60), <1>1, Monotone
  <2> QED
    BY <1>2, <1>3, <2>1
<1>5. (k + 1) * PAGE_SIZE <= e * PAGE_SIZE /\ (k + 1) * PAGE_SIZE = k * PAGE_SIZE + PAGE_SIZE
  BY <1>1, <1>4, Monotone
<1>6. (k + 1) * PAGE_SIZE = p + PAGE_SIZE /\ p + PAGE_SIZE <= end /\ p + PAGE_SIZE < ADDRESS_SPACE
  BY <1>1, <1>2, <1>3, <1>5
<1>7. p + PAGE_SIZE \in Pages
  <2>1. k + 1 \in Nat /\ (k + 1) * PAGE_SIZE < ADDRESS_SPACE
    BY <1>6
  <2>2. (k + 1) * PAGE_SIZE \in Pages
    BY ZenonT(60), <2>1, PagesAre
  <2> QED
    BY ZenonT(60), <1>6, <2>2
<1>8. ASSUME NEW other \in Pages, other < p + PAGE_SIZE PROVE other <= p
  <2>1. PICK o \in Nat : other = o * PAGE_SIZE
    BY ZenonT(60), PagesAre
  <2>2. o * PAGE_SIZE < k * PAGE_SIZE + PAGE_SIZE
    BY ZenonT(60), <1>2, <1>8, <2>1
  <2>3. o <= k
    BY ZenonT(60), <1>1, <2>2, Step
  <2> QED
    BY ZenonT(60), <1>1, <1>2, <2>1, <2>3, Monotone
<1> QED
  BY ZenonT(60), <1>6, <1>7, <1>8

\* A segment that check_segments accepts and that ends below the last page.
GoodSegment(s) ==
    /\ s \in Segment /\ s.memsz # 0
    /\ s.paddr + s.memsz <= ADDRESS_SPACE - PAGE_SIZE

\* page_range rounds up without wrapping.
LEMMA RoundedUp ==
    ASSUME NEW x \in Nat, x <= ADDRESS_SPACE - PAGE_SIZE
    PROVE  PageEnd(x) \in Pages /\ PageEnd(x) \in Nat /\ x <= PageEnd(x) /\ PageEnd(x) < x + PAGE_SIZE
<1>1. ADDRESS_SPACE \in Nat /\ PAGE_SIZE \in Nat \ {0}
  BY ZenonT(60), Space
<1>2. PICK y : y = x + PAGE_SIZE - 1
  BY ZenonT(60)
<1>3. y \in Nat
  BY <1>1, <1>2
<1>4. PICK k \in Nat, r \in Nat : k = y \div PAGE_SIZE /\ r < PAGE_SIZE /\ y = k * PAGE_SIZE + r
  BY <1>1, <1>3, Division
<1>5. PICK e : e = k * PAGE_SIZE
  BY ZenonT(60)
<1>6. e \in Nat
  BY <1>1, <1>5, Monotone
<1>7. x <= e /\ e < x + PAGE_SIZE /\ e < ADDRESS_SPACE /\ ADDRESS_SPACE \in Nat \ {0}
  BY <1>1, <1>2, <1>4, <1>5, <1>6
<1>8. e = 0 * ADDRESS_SPACE + e
  BY <1>6, <1>7
<1>9. e % ADDRESS_SPACE = e
  BY <1>6, <1>7
<1>10. PageEnd(x) = e
  BY ZenonT(60), <1>2, <1>4, <1>5, <1>9 DEF PageEnd
<1>11. e \in Pages
  BY ZenonT(60), <1>5, <1>7, PagesAre
<1> QED
  BY ZenonT(60), <1>6, <1>7, <1>10, <1>11

\* The page range of a segment is made of the pages of its bytes.
LEMMA SegmentPages ==
    ASSUME NEW s, GoodSegment(s)
    PROVE  /\ PageRange(s).start \in Pages /\ PageRange(s).end \in Pages
           /\ PageRange(s).start <= s.paddr /\ s.paddr + s.memsz <= PageRange(s).end
           /\ PageRange(s).start < PageRange(s).end
           /\ \A a \in Bytes(s) : /\ PageRange(s).start <= PageStart(a)
                                  /\ PageStart(a) < PageRange(s).end
           /\ \A p \in Pages : PageRange(s).start <= p /\ p < PageRange(s).end =>
                                  \E a \in Bytes(s) : PageStart(a) = p
<1>1. ADDRESS_SPACE \in Nat /\ PAGE_SIZE \in Nat \ {0}
  BY ZenonT(60), Space
<1>2. s.paddr \in Nat /\ s.memsz \in Nat /\ s.memsz # 0 /\ s.paddr + s.memsz \in Nat
      /\ s.paddr + s.memsz <= ADDRESS_SPACE - PAGE_SIZE
  BY DEF GoodSegment, Segment
<1>3. PICK base, e : base = PageStart(s.paddr) /\ e = PageEnd(s.paddr + s.memsz)
  BY ZenonT(60)
<1>4. PageRange(s).start = base /\ PageRange(s).end = e
  BY ZenonT(60), <1>3 DEF PageRange
<1>5. e \in Pages /\ e \in Nat /\ s.paddr + s.memsz <= e /\ e < s.paddr + s.memsz + PAGE_SIZE
  BY ZenonT(60), <1>2, <1>3, RoundedUp
<1>6. s.paddr \in Addresses /\ s.paddr \in Bytes(s)
  BY <1>1, <1>2 DEF Addresses, Bytes
<1>7. base \in Pages /\ base \in Nat /\ base <= s.paddr /\ s.paddr < base + PAGE_SIZE
  BY ZenonT(60), <1>3, <1>6, InPage
<1>8. ASSUME NEW a \in Bytes(s) PROVE base <= PageStart(a) /\ PageStart(a) < e
  <2>1. a \in Addresses /\ s.paddr <= a /\ a < s.paddr + s.memsz
    BY ZenonT(60) DEF Bytes
  <2>2. a \in Nat /\ PageStart(a) <= a /\ PageStart(a) \in Nat /\ \A p \in Pages : p <= a => p <= PageStart(a)
    BY ZenonT(60), <2>1, InPage
  <2>3. base <= a
    BY <1>2, <1>7, <2>1, <2>2
  <2> QED
    BY <1>2, <1>5, <1>7, <2>1, <2>2, <2>3
<1>9. ASSUME NEW p \in Pages, base <= p, p < e PROVE \E a \in Bytes(s) : PageStart(a) = p
  <2>1. p \in Nat /\ p < ADDRESS_SPACE /\ p \in Addresses /\ PageStart(p) = p
    BY ZenonT(60), <1>6, PagesAre, InPage
  <2>2. CASE p < s.paddr
    <3>1. p <= PageStart(s.paddr)
      BY <1>2, <1>6, <2>1, <2>2, InPage
    <3>2. PageStart(s.paddr) = p
      BY <1>3, <1>7, <1>9, <2>1, <3>1
    <3> QED
      BY ZenonT(60), <1>6, <3>2
  <2>3. CASE s.paddr <= p
    <3>1. p + PAGE_SIZE <= e
      BY ZenonT(60), <1>5, <1>9, NextPage
    <3>2. p < s.paddr + s.memsz
      BY <1>1, <1>2, <1>5, <2>1, <3>1
    <3>3. p \in Bytes(s)
      BY ZenonT(60), <2>1, <2>3, <3>2 DEF Bytes
    <3> QED
      BY ZenonT(60), <2>1, <3>3
  <2> QED
    BY <1>2, <2>1, <2>2, <2>3
<1>10. base < e
  BY <1>2, <1>5, <1>7
<1> QED
  BY ZenonT(60), <1>4, <1>5, <1>7, <1>8, <1>9, <1>10

-----------------------------------------------------------------------------
(* The inductive invariant *)

\* A segment is in memory: the bytes of the file, then zeros.
Copied(image, s) ==
    \A n \in 0 .. (s.memsz - 1) :
        memory[s.paddr + n] = IF n < s.filesz THEN <<image, s.offset + n>> ELSE <<"zero", 0>>

\* An image is in memory that the loader owns.
Whole(image) ==
    /\ Validate(disk[image])
    /\ \A p \in PagesOf(disk[image]) : owner[p] = "loader"
    /\ \A i \in DOMAIN disk[image].segs : Copied(image, disk[image].segs[i])

\* How far `load` is: which pages it has, what it has copied.
Progress ==
    /\ Validate(Current)
    /\ seg \in DOMAIN Current.segs
    /\ page \in Pages
    /\ PageRange(CurrentSegment).start <= page /\ page <= PageRange(CurrentSegment).end
    /\ allocated \subseteq PagesOf(Current)
    /\ \A p \in allocated : owner[p] = "loader"
    /\ loading = "user" => allocated \cap PagesOf(disk.kernel) = {}
    /\ \A i \in 1 .. (seg - 1) : \A a \in Bytes(Current.segs[i]) : PageStart(a) \in allocated
    /\ \A a \in Bytes(CurrentSegment) : PageStart(a) < page => PageStart(a) \in allocated
    /\ \A i \in 1 .. (seg - 1) : Copied(loading, Current.segs[i])

\* Until both images are loaded, the loader has nothing but their pages.
NothingElse ==
    \A p \in Pages :
        owner[p] = "loader" =>
            \/ phase = "load" /\ p \in allocated
            \/ loading = "user" /\ p \in PagesOf(disk.kernel)

\* The stack and the BootInfo page are the loader's and nothing else's.
Apart ==
    LET images == PagesOf(disk.kernel) \cup PagesOf(disk.user)
    IN  /\ prepared.stack \in Pages /\ prepared.page \in Pages
        /\ owner[prepared.page] = "loader" /\ prepared.page \notin images
        /\ \A p \in PageRun(prepared.stack, STACK_PAGES) :
              p \in Pages /\ owner[p] = "loader" /\ p \notin images \cup {prepared.page}

AfterLoad == {"prepare", "exit", "recheck", "jump", "kernel", "rejected"}

LoaderInv ==
    /\ disk \in Disks
    /\ phase \in Phase
    /\ loading \in {"kernel", "user"}
    /\ owner \in [Pages -> {"free", "firmware", "loader"}]
    /\ loaded = [kernel |-> loaded.kernel, user |-> loaded.user]
    /\ phase = "load" => Progress
    /\ phase \in {"validate", "load"} => NothingElse
    /\ loading = "kernel" => loaded.kernel = NotLoaded
    /\ loading = "user" => Whole("kernel") /\ loaded.kernel = LoadedKernel(disk.kernel)
    /\ phase \in {"validate", "load"} => loaded.user = NotLoaded
    /\ phase \in AfterLoad => loading = "user" /\ loaded.user = LoadedKernel(disk.user)
    /\ loaded.user # NotLoaded \/ phase \in AfterLoad => Whole("user")
    /\ phase \in AfterLoad \ {"prepare"} => Apart
    /\ phase \in AfterLoad \ {"prepare", "exit"} =>
          bootInfo = BootInfoOf(loaded.kernel, loaded.user, prepared.stack)
    /\ phase = "jump" => magic \/ late
    /\ phase = "rejected" => late
    /\ OnlyOwnPagesWritten
    /\ GoodImagesLoad

\* Images on the volume and their segments.
LEMMA ImageShape ==
    ASSUME NoWrapAround, disk \in Disks, NEW which \in {"kernel", "user"}
    PROVE  /\ disk[which] \in Image
           /\ disk[which].segs \in Seq(Segment)
           /\ Validate(disk[which]) =>
                /\ 1 \in DOMAIN disk[which].segs
                /\ \A i \in DOMAIN disk[which].segs : GoodSegment(disk[which].segs[i])
<1>1. disk["kernel"] \in Image /\ disk["user"] \in Image
  BY ZenonT(60), LinkedAssumption
<1>2. BelowLastPage(disk["kernel"]) /\ BelowLastPage(disk["user"])
  BY ZenonT(60) DEF NoWrapAround
<1>3. PICK im : im = disk[which]
  BY ZenonT(60)
<1>4. im \in Image /\ BelowLastPage(im)
  BY ZenonT(60), <1>1, <1>2, <1>3
<1>5. im.segs \in Seq(Segment)
  BY ZenonT(60), <1>4 DEF Image
<1>6. ASSUME Validate(im)
      PROVE  1 \in DOMAIN im.segs /\ \A i \in DOMAIN im.segs : GoodSegment(im.segs[i])
  <2>1. im.segs # <<>> /\ \A i \in DOMAIN im.segs : im.segs[i].memsz # 0
    BY ZenonT(60), <1>6 DEF Validate, CheckSegments
  <2>2. 1 \in DOMAIN im.segs
    BY <1>5, <2>1
  <2>3. \A i \in DOMAIN im.segs : im.segs[i] \in Segment
    BY <1>5
  <2> QED
    BY ZenonT(60), <1>4, <2>1, <2>2, <2>3 DEF BelowLastPage, GoodSegment
<1> QED
  BY ZenonT(60), <1>3, <1>4, <1>5, <1>6

\* validate refuses no well-formed image.
LEMMA WellFormedIsValid ==
    ASSUME NEW image \in Image, WellFormed(image)
    PROVE  Validate(image)
<1>1. image.segs \in Seq(Segment) /\ image.len \in Nat /\ image.entry \in Nat
  BY ZenonT(60) DEF Image
<1>2. /\ DOMAIN image.segs = 1 .. Len(image.segs) /\ Len(image.segs) \in Nat
      /\ \A i \in DOMAIN image.segs : image.segs[i] \in Segment
  BY <1>1
<1>3. image.elf /\ image.table /\ Len(image.segs) \in 1 .. MAX_SEGMENTS /\ MAX_SEGMENTS \in Nat
  BY ZenonT(60), SizesAssumption DEF WellFormed
<1>4. ASSUME NEW i \in DOMAIN image.segs
      PROVE  /\ 0 < image.segs[i].memsz /\ image.segs[i].filesz <= image.segs[i].memsz
             /\ image.segs[i].offset + image.segs[i].filesz <= image.len
             /\ image.segs[i].paddr + image.segs[i].memsz < ADDRESS_SPACE
             /\ image.segs[i].vaddr + image.segs[i].memsz < ADDRESS_SPACE
             /\ \A j \in DOMAIN image.segs \ {i} : Bytes(image.segs[i]) \cap Bytes(image.segs[j]) = {}
  BY ZenonT(60) DEF WellFormed
<1>5. CheckSegments(image)
  <2>1. image.segs # <<>>
    BY <1>1, <1>3
  <2>2. \A i \in DOMAIN image.segs : image.segs[i].memsz # 0
    BY <1>2, <1>4
  <2> QED
    BY ZenonT(60), <1>4, <2>1, <2>2 DEF CheckSegments
<1>6. CheckNoOverlap(image)
  <2>1. Len(image.segs) <= MAX_SEGMENTS
    BY <1>2, <1>3
  <2>2. ASSUME NEW i \in DOMAIN image.segs, NEW j \in DOMAIN image.segs, i < j,
               image.segs[j].paddr < image.segs[i].paddr + image.segs[i].memsz,
               image.segs[i].paddr < image.segs[j].paddr + image.segs[j].memsz
        PROVE  FALSE
    <3>1. PICK s, t : s = image.segs[i] /\ t = image.segs[j]
      BY ZenonT(60)
    <3>2. /\ s.paddr \in Nat /\ s.memsz \in Nat /\ t.paddr \in Nat /\ t.memsz \in Nat
          /\ s.memsz > 0 /\ t.memsz > 0
          /\ s.paddr + s.memsz < ADDRESS_SPACE /\ t.paddr + t.memsz < ADDRESS_SPACE
          /\ t.paddr < s.paddr + s.memsz /\ s.paddr < t.paddr + t.memsz
      BY ZenonT(60), <1>2, <1>4, <2>2, <3>1 DEF Segment
    <3>3. i # j
      BY <1>2, <2>2
    <3>4. Bytes(s) \cap Bytes(t) = {}
      BY ZenonT(60), <1>4, <3>1, <3>3
    <3>5. ADDRESS_SPACE \in Nat
      BY ZenonT(60), Space
    <3>6. CASE s.paddr <= t.paddr
      <4>1. t.paddr \in Bytes(s) \cap Bytes(t)
        BY <3>2, <3>5, <3>6 DEF Bytes, Addresses
      <4> QED
        BY ZenonT(60), <3>4, <4>1
    <3>7. CASE t.paddr <= s.paddr
      <4>1. s.paddr \in Bytes(s) \cap Bytes(t)
        BY <3>2, <3>5, <3>7 DEF Bytes, Addresses
      <4> QED
        BY ZenonT(60), <3>4, <4>1
    <3> QED
      BY <3>2, <3>6, <3>7
  <2> QED
    BY ZenonT(60), <2>1, <2>2 DEF CheckNoOverlap
<1>7. CheckEntry(image)
  <2>1. PICK i \in DOMAIN image.segs :
            /\ image.segs[i].exec
            /\ image.entry \in image.segs[i].vaddr .. (image.segs[i].vaddr + image.segs[i].memsz - 1)
    BY ZenonT(60) DEF WellFormed
  <2>2. image.segs[i].vaddr <= image.entry /\ image.entry < image.segs[i].vaddr + image.segs[i].memsz
    <3>1. image.segs[i].vaddr \in Nat /\ image.segs[i].memsz \in Nat
      BY ZenonT(60), <1>2 DEF Segment
    <3>2. ASSUME NEW low \in Nat, NEW size \in Nat, NEW e \in low .. (low + size - 1)
          PROVE  low <= e /\ e < low + size
      OBVIOUS
    <3> QED
      BY ZenonT(60), <2>1, <3>1, <3>2
  <2>3. \A j \in 1 .. i : j \in DOMAIN image.segs
    BY <1>2
  <2>4. \A j \in 1 .. i : image.segs[j].vaddr + image.segs[j].memsz < ADDRESS_SPACE
    BY ZenonT(60), <1>4, <2>3
  <2> QED
    BY ZenonT(60), <2>1, <2>2, <2>4 DEF CheckEntry
<1> QED
  BY ZenonT(60), <1>3, <1>5, <1>6, <1>7 DEF Validate, ValidHeader

\* At the start the loader has no page and has written nothing.
LEMMA LoaderInvInit ==
    ASSUME Init PROVE LoaderInv
<1>1. PICK free \in FreeSets : owner = [p \in Pages |-> IF p \in free THEN "free" ELSE "firmware"]
  BY ZenonT(60) DEF Init
<1>2. owner \in [Pages -> {"free", "firmware", "loader"}] /\ \A p \in Pages : owner[p] # "loader"
  BY ZenonT(60), <1>1
<1>3. OnlyOwnPagesWritten
  BY ZenonT(60) DEF Init, OnlyOwnPagesWritten
<1>4. NothingElse
  BY ZenonT(60), <1>2 DEF NothingElse
<1>5. GoodImagesLoad
  BY ZenonT(60) DEF Init, GoodImagesLoad
<1>6. /\ loaded.kernel = NotLoaded /\ loaded.user = NotLoaded
      /\ loaded = [kernel |-> loaded.kernel, user |-> loaded.user]
  BY ZenonT(60) DEF Init
<1>7. disk \in Disks /\ phase = "validate" /\ loading = "kernel"
  BY ZenonT(60) DEF Init
<1>8. "validate" \in Phase /\ "validate" \notin AfterLoad
  BY ZenonT(60) DEF Phase, AfterLoad
<1> QED
  BY ZenonT(60), <1>2, <1>3, <1>4, <1>5, <1>6, <1>7, <1>8 DEF LoaderInv

\* validate: an image that is refused is malformed.
LEMMA CheckImageStep ==
    ASSUME NoWrapAround, LoaderInv, CheckImage PROVE LoaderInv'
<1>1. /\ disk \in Disks /\ loading \in {"kernel", "user"} /\ phase = "validate" /\ NothingElse
      /\ loaded.user = NotLoaded
      /\ owner \in [Pages -> {"free", "firmware", "loader"}]
      /\ loaded = [kernel |-> loaded.kernel, user |-> loaded.user]
      /\ loading = "kernel" => loaded.kernel = NotLoaded
      /\ loading = "user" => Whole("kernel") /\ loaded.kernel = LoadedKernel(disk.kernel)
      /\ OnlyOwnPagesWritten
  BY ZenonT(60) DEF LoaderInv, CheckImage
<1>2. UNCHANGED <<disk, loading, owner, memory, loaded>>
  BY ZenonT(60) DEF CheckImage
<1>3. Current \in Image /\ Current.segs \in Seq(Segment) /\ Current = disk[loading]
  BY ZenonT(60), <1>1, ImageShape DEF Current
<1>4. Whole("kernel")' <=> Whole("kernel")
  BY ZenonT(60), <1>2 DEF Whole, Copied
<1>5. OnlyOwnPagesWritten'
  BY ZenonT(60), <1>1, <1>2 DEF OnlyOwnPagesWritten
<1>6. phase' \in {"load", "failed"} /\ phase' \in Phase /\ phase' \notin AfterLoad
  BY ZenonT(60) DEF CheckImage, Phase, AfterLoad
<1>7. NothingElse'
  BY ZenonT(60), <1>1, <1>2 DEF NothingElse
<1>8. ASSUME Validate(Current) PROVE phase' = "load" /\ Progress'
  <2>1. phase' = "load" /\ seg' = 1 /\ page' = PageRange(Current.segs[1]).start /\ allocated' = {}
    BY ZenonT(60), <1>8 DEF CheckImage
  <2>2. Current' = Current
    BY ZenonT(60), <1>2 DEF Current
  <2>3. 1 \in DOMAIN Current.segs /\ GoodSegment(Current.segs[1])
    BY ZenonT(60), <1>1, <1>3, <1>8, ImageShape
  <2>4. PICK s : s = Current.segs[1]
    BY ZenonT(60)
  <2>5. CurrentSegment' = s
    BY ZenonT(60), <2>1, <2>2, <2>4 DEF CurrentSegment
  <2>6. /\ PageRange(s).start \in Pages /\ PageRange(s).start \in Nat /\ PageRange(s).end \in Nat
        /\ PageRange(s).start <= PageRange(s).end
        /\ \A a \in Bytes(s) : PageRange(s).start <= PageStart(a) /\ PageStart(a) \in Nat
    <3>1. \A a \in Bytes(s) : PageStart(a) \in Nat
      BY ZenonT(60), InPage DEF Bytes
    <3> QED
      BY <2>3, <2>4, <3>1, SegmentPages, PagesAre
  <2>7. \A a \in Bytes(s) : ~ (PageStart(a) < PageRange(s).start)
    BY <2>6
  <2>8. 1 .. (1 - 1) = {} /\ PageRange(s).start <= PageRange(s).start
    BY <2>6
  <2> QED
    BY ZenonT(60), <1>2, <1>8, <2>1, <2>2, <2>3, <2>4, <2>5, <2>6, <2>7, <2>8 DEF Progress
<1>9. ASSUME ~ Validate(Current) PROVE phase' = "failed" /\ GoodImagesLoad'
  <2>1. ~ WellFormed(Current)
    BY ZenonT(60), <1>3, <1>9, WellFormedIsValid
  <2>2. Current \in {disk.kernel, disk.user}
    BY ZenonT(60), <1>1, <1>3
  <2> QED
    BY ZenonT(60), <1>2, <1>9, <2>1, <2>2 DEF CheckImage, GoodImagesLoad
<1>10. phase' = "load" => GoodImagesLoad'
  BY ZenonT(60) DEF GoodImagesLoad
<1> QED
  BY ZenonT(60), <1>1, <1>2, <1>4, <1>5, <1>6, <1>7, <1>8, <1>9, <1>10 DEF LoaderInv

\* The pages of an image.
LEMMA InPagesOf ==
    ASSUME NEW image
    PROVE  /\ \A i \in DOMAIN image.segs : \A a \in Bytes(image.segs[i]) : PageStart(a) \in PagesOf(image)
           /\ \A p \in PagesOf(image) : \E i \in DOMAIN image.segs : \E a \in Bytes(image.segs[i]) : p = PageStart(a)
           /\ PagesOf(image) \subseteq Pages
<1>1. \A s : Bytes(s) \subseteq Addresses
  BY ZenonT(60) DEF Bytes
<1> QED
  BY <1>1 DEF PagesOf, Pages

\* There are finitely many.
LEMMA PagesFinite ==
    ASSUME NEW T, T \subseteq Pages PROVE IsFiniteSet(T)
<1>1. ADDRESS_SPACE \in Nat
  BY ZenonT(60), Space
<1>2. IsFiniteSet(0 .. (ADDRESS_SPACE - 1))
  BY <1>1, FS_Interval
<1>3. T \subseteq 0 .. (ADDRESS_SPACE - 1)
  BY <1>1, PagesAre
<1> QED
  BY ZenonT(60), <1>2, <1>3, FS_Subset

\* What is the case while `load` allocates the pages of a segment.
LEMMA AllocateContext ==
    ASSUME NoWrapAround, LoaderInv, phase = "load"
    PROVE  /\ Progress /\ NothingElse /\ disk \in Disks /\ loading \in {"kernel", "user"}
           /\ loaded.user = NotLoaded
           /\ owner \in [Pages -> {"free", "firmware", "loader"}]
           /\ loaded = [kernel |-> loaded.kernel, user |-> loaded.user]
           /\ loading = "kernel" => loaded.kernel = NotLoaded
           /\ loading = "user" => Whole("kernel") /\ loaded.kernel = LoadedKernel(disk.kernel)
           /\ OnlyOwnPagesWritten
           /\ Current \in Image /\ Current = disk[loading] /\ Current \in {disk.kernel, disk.user}
           /\ DOMAIN Current.segs = 1 .. Len(Current.segs) /\ Len(Current.segs) \in Nat
           /\ seg \in 1 .. Len(Current.segs)
           /\ \A i \in DOMAIN Current.segs : GoodSegment(Current.segs[i])
           /\ GoodSegment(CurrentSegment)
<1>1. /\ Progress /\ NothingElse /\ disk \in Disks /\ loading \in {"kernel", "user"}
      /\ loaded.user = NotLoaded
      /\ owner \in [Pages -> {"free", "firmware", "loader"}]
      /\ loaded = [kernel |-> loaded.kernel, user |-> loaded.user]
      /\ loading = "kernel" => loaded.kernel = NotLoaded
      /\ loading = "user" => Whole("kernel") /\ loaded.kernel = LoadedKernel(disk.kernel)
      /\ OnlyOwnPagesWritten
  BY ZenonT(60) DEF LoaderInv
<1>2. Validate(Current) /\ seg \in DOMAIN Current.segs
  BY ZenonT(60), <1>1 DEF Progress
<1>3. Current \in Image /\ Current = disk[loading] /\ Current.segs \in Seq(Segment)
      /\ \A i \in DOMAIN Current.segs : GoodSegment(Current.segs[i])
  BY ZenonT(60), <1>1, <1>2, ImageShape DEF Current
<1>4. DOMAIN Current.segs = 1 .. Len(Current.segs) /\ Len(Current.segs) \in Nat
  BY <1>3
<1>5. GoodSegment(CurrentSegment)
  BY ZenonT(60), <1>2, <1>3 DEF CurrentSegment
<1> QED
  BY ZenonT(60), <1>1, <1>2, <1>3, <1>4, <1>5

\* A page that `load` asks for is one of the image's.
LEMMA PageIsWanted ==
    ASSUME NoWrapAround, LoaderInv, phase = "load", page < PageRange(CurrentSegment).end
    PROVE  /\ page \in Pages /\ page \in PagesOf(Current)
           /\ page + PAGE_SIZE \in Pages /\ page + PAGE_SIZE <= PageRange(CurrentSegment).end
           /\ PageRange(CurrentSegment).start <= page + PAGE_SIZE
           /\ \A other \in Pages : other < page + PAGE_SIZE => other < page \/ other = page
<1>1. Progress /\ seg \in DOMAIN Current.segs /\ GoodSegment(CurrentSegment)
  BY ZenonT(60), AllocateContext DEF Progress
<1>2. PICK s : s = CurrentSegment /\ s = Current.segs[seg]
  BY ZenonT(60) DEF CurrentSegment
<1>3. page \in Pages /\ PageRange(s).start <= page /\ page < PageRange(s).end
  BY ZenonT(60), <1>1, <1>2 DEF Progress
<1>4. PageRange(s).end \in Pages /\ PageRange(s).start \in Pages
      /\ \E a \in Bytes(s) : PageStart(a) = page
  BY ZenonT(60), <1>1, <1>2, <1>3, SegmentPages
<1>5. page \in PagesOf(Current)
  BY <1>1, <1>2, <1>4, InPagesOf
<1>6. page + PAGE_SIZE \in Pages /\ page + PAGE_SIZE <= PageRange(s).end
      /\ \A other \in Pages : other < page + PAGE_SIZE => other <= page
  BY ZenonT(60), <1>3, <1>4, NextPage
<1>7. page \in Nat /\ PAGE_SIZE \in Nat /\ PageRange(s).start \in Nat /\ \A other \in Pages : other \in Nat
  BY ZenonT(60), <1>3, <1>4, Space, PagesAre
<1>8. PageRange(s).start <= page + PAGE_SIZE
  BY <1>3, <1>7
<1>9. \A other \in Pages : other < page + PAGE_SIZE => other < page \/ other = page
  BY <1>6, <1>7
<1> QED
  BY ZenonT(60), <1>2, <1>3, <1>5, <1>6, <1>8, <1>9

\* A load that fails for want of a page has a reason.
LEMMA RefusedPage ==
    ASSUME NoWrapAround, LoaderInv, phase = "load", page < PageRange(CurrentSegment).end,
           page \notin allocated, Cardinality(allocated) = MAX_PAGES \/ owner[page] # "free"
    PROVE  \/ Cardinality(PagesOf(Current)) > MAX_PAGES
           \/ owner[page] = "firmware"
           \/ PagesOf(disk.kernel) \cap PagesOf(disk.user) # {}
<1>1. page \in Pages /\ page \in PagesOf(Current)
  BY ZenonT(60), PageIsWanted
<1>2. /\ allocated \subseteq PagesOf(Current) /\ NothingElse
      /\ owner \in [Pages -> {"free", "firmware", "loader"}]
      /\ Current = disk[loading] /\ loading \in {"kernel", "user"}
  BY ZenonT(60), AllocateContext DEF Progress
<1>3. CASE Cardinality(allocated) = MAX_PAGES
  <2>1. PagesOf(Current) \subseteq Pages
    BY ZenonT(60), InPagesOf
  <2>2. IsFiniteSet(PagesOf(Current)) /\ IsFiniteSet(allocated)
    BY ZenonT(60), <1>2, <2>1, PagesFinite
  <2>3. allocated \cup {page} \subseteq PagesOf(Current)
    BY ZenonT(60), <1>1, <1>2
  <2>4. Cardinality(allocated \cup {page}) = MAX_PAGES + 1 /\ IsFiniteSet(allocated \cup {page})
    BY ZenonT(60), <1>3, <2>2, FS_AddElement
  <2>5. Cardinality(allocated \cup {page}) <= Cardinality(PagesOf(Current))
    BY ZenonT(60), <2>2, <2>3, FS_Subset
  <2>6. Cardinality(PagesOf(Current)) \in Nat /\ MAX_PAGES \in Nat
    BY ZenonT(60), <2>2, FS_CardinalityType, SizesAssumption
  <2> QED
    BY <2>4, <2>5, <2>6
<1>4. CASE owner[page] # "free"
  <2>1. owner[page] \in {"firmware", "loader"}
    BY ZenonT(60), <1>1, <1>2, <1>4
  <2>2. CASE owner[page] = "loader"
    <3>1. loading = "user" /\ page \in PagesOf(disk.kernel)
      BY ZenonT(60), <1>1, <1>2, <2>2 DEF NothingElse
    <3>2. page \in PagesOf(disk.user)
      BY ZenonT(60), <1>1, <1>2, <3>1
    <3> QED
      BY ZenonT(60), <3>1, <3>2
  <2> QED
    BY ZenonT(60), <2>1, <2>2
<1> QED
  BY ZenonT(60), <1>3, <1>4

\* allocate_pages at a given address, page by page.
LEMMA AllocatePageStep ==
    ASSUME NoWrapAround, LoaderInv, AllocatePage PROVE LoaderInv'
<1>1. phase = "load" /\ page < PageRange(CurrentSegment).end
      /\ UNCHANGED <<disk, loading, seg, memory, loaded, prepared, bootInfo>>
  BY ZenonT(60) DEF AllocatePage
<1>2. /\ Progress /\ NothingElse /\ disk \in Disks /\ loading \in {"kernel", "user"}
      /\ loaded.user = NotLoaded
      /\ owner \in [Pages -> {"free", "firmware", "loader"}]
      /\ loaded = [kernel |-> loaded.kernel, user |-> loaded.user]
      /\ loading = "kernel" => loaded.kernel = NotLoaded
      /\ loading = "user" => Whole("kernel") /\ loaded.kernel = LoadedKernel(disk.kernel)
      /\ OnlyOwnPagesWritten
      /\ Current \in {disk.kernel, disk.user}
  BY ZenonT(60), <1>1, AllocateContext
<1>3. /\ page \in Pages /\ page \in PagesOf(Current)
      /\ page + PAGE_SIZE \in Pages /\ page + PAGE_SIZE <= PageRange(CurrentSegment).end
      /\ PageRange(CurrentSegment).start <= page + PAGE_SIZE
      /\ \A other \in Pages : other < page + PAGE_SIZE => other < page \/ other = page
  BY ZenonT(60), <1>1, PageIsWanted
<1>4. Current' = Current /\ CurrentSegment' = CurrentSegment
  BY ZenonT(60), <1>1 DEF Current, CurrentSegment
<1>5. \A p \in Pages : owner[p] = "loader" => owner'[p] = "loader"
  BY ZenonT(60), <1>2 DEF AllocatePage
<1>6. owner' \in [Pages -> {"free", "firmware", "loader"}]
  BY ZenonT(60), <1>2 DEF AllocatePage
<1>7. Whole("kernel") => Whole("kernel")'
  <2>1. PagesOf(disk["kernel"]) \subseteq Pages
    BY ZenonT(60), InPagesOf
  <2> QED
    BY ZenonT(60), <1>1, <1>5, <2>1 DEF Whole, Copied
<1>8. OnlyOwnPagesWritten'
  <2>1. \A a \in Addresses : PageStart(a) \in Pages
    BY ZenonT(60) DEF Pages
  <2> QED
    BY ZenonT(60), <1>1, <1>2, <1>5, <2>1 DEF OnlyOwnPagesWritten
<1>9. phase' \in {"load", "failed"} /\ phase' \in Phase /\ phase' \notin AfterLoad
  BY ZenonT(60), <1>1 DEF AllocatePage, Phase, AfterLoad
<1>10. ASSUME phase' = "load" PROVE Progress' /\ NothingElse'
  <2>1. /\ page' = page + PAGE_SIZE /\ allocated' = allocated \cup {page}
        /\ \A p \in allocated' : owner'[p] = "loader"
        /\ \A p \in Pages : owner'[p] = "loader" => owner[p] = "loader" \/ p = page
        /\ page \in allocated \/ owner[page] = "free"
    <3>1. CASE AlreadyAllocated
      BY ZenonT(60), <1>2, <1>10, <3>1 DEF AllocatePage, AlreadyAllocated, Progress
    <3>2. CASE ~ AlreadyAllocated
      <4>1. /\ owner[page] = "free" /\ owner' = [owner EXCEPT ![page] = "loader"]
            /\ allocated' = allocated \cup {page} /\ page' = page + PAGE_SIZE
        BY ZenonT(60), <1>10, <3>2 DEF AllocatePage
      <4>2. \A p \in allocated : owner[p] = "loader" /\ p \in Pages
        BY ZenonT(60), <1>2, InPagesOf DEF Progress
      <4> QED
        BY ZenonT(60), <1>2, <1>3, <4>1, <4>2
    <3> QED
      BY ZenonT(60), <3>1, <3>2
  <2>2. loading = "user" => allocated' \cap PagesOf(disk.kernel) = {}
    <3> SUFFICES ASSUME loading = "user", page \in PagesOf(disk.kernel), page \notin allocated PROVE FALSE
      BY ZenonT(60), <1>2, <2>1 DEF Progress
    <3>1. owner[page] = "loader"
      BY ZenonT(60), <1>2 DEF Whole
    <3> QED
      BY ZenonT(60), <2>1, <3>1
  <2>3. \A i \in 1 .. (seg - 1) : \A a \in Bytes(Current.segs[i]) : PageStart(a) \in allocated'
    BY ZenonT(60), <1>2, <2>1 DEF Progress
  <2>4. ASSUME NEW a \in Bytes(CurrentSegment), PageStart(a) < page + PAGE_SIZE
        PROVE  PageStart(a) \in allocated'
    <3>1. PageStart(a) \in Pages
      BY ZenonT(60) DEF Bytes, Pages
    <3>2. PageStart(a) < page \/ PageStart(a) = page
      BY ZenonT(60), <1>3, <2>4, <3>1
    <3> QED
      BY ZenonT(60), <1>2, <2>1, <3>2 DEF Progress
  <2>5. \A i \in 1 .. (seg - 1) : Copied(loading, Current.segs[i])'
    BY ZenonT(60), <1>1, <1>2, <1>4 DEF Progress, Copied
  <2>6. Progress'
    BY ZenonT(60), <1>1, <1>2, <1>3, <1>4, <2>1, <2>2, <2>3, <2>4, <2>5 DEF Progress
  <2>7. NothingElse'
    BY ZenonT(60), <1>1, <1>2, <1>10, <2>1 DEF NothingElse
  <2> QED
    BY ZenonT(60), <2>6, <2>7
<1>11. GoodImagesLoad'
  <2> SUFFICES ASSUME phase' = "failed" PROVE GoodImagesLoad'
    BY ZenonT(60) DEF GoodImagesLoad
  <2>1. page \notin allocated /\ (Cardinality(allocated) = MAX_PAGES \/ owner[page] # "free") /\ owner' = owner
    BY ZenonT(60), <1>1 DEF AllocatePage, AlreadyAllocated
  <2>2. \/ Cardinality(PagesOf(Current)) > MAX_PAGES
        \/ owner[page] = "firmware"
        \/ PagesOf(disk.kernel) \cap PagesOf(disk.user) # {}
    BY ZenonT(60), <1>1, <2>1, RefusedPage
  <2> QED
    BY ZenonT(60), <1>1, <1>2, <1>3, <2>1, <2>2 DEF GoodImagesLoad
<1> QED
  BY ZenonT(60), <1>1, <1>2, <1>6, <1>7, <1>8, <1>9, <1>10, <1>11 DEF LoaderInv

\* A segment that is not written to stays as it is.
LEMMA CopiedStays ==
    ASSUME NEW t, GoodSegment(t), NEW im, Copied(im, t), \A a \in Bytes(t) : memory'[a] = memory[a]
    PROVE  Copied(im, t)'
<1>1. /\ t.paddr \in Nat /\ t.memsz \in Nat /\ t.paddr + t.memsz <= ADDRESS_SPACE - PAGE_SIZE
      /\ PAGE_SIZE \in Nat \ {0} /\ ADDRESS_SPACE \in Nat
  BY ZenonT(60), Space DEF GoodSegment, Segment
<1>2. ASSUME NEW n \in 0 .. (t.memsz - 1) PROVE memory'[t.paddr + n] = memory[t.paddr + n]
  <2>1. t.paddr + n \in Bytes(t)
    BY <1>1 DEF Bytes, Addresses
  <2> QED
    BY ZenonT(60), <2>1
<1> QED
  BY ZenonT(60), <1>2 DEF Copied

\* The copy writes where the pages were allocated, and puts the segment there.
LEMMA CopyWrites ==
    ASSUME NoWrapAround, LoaderInv, CopySegment
    PROVE  /\ \A a \in Bytes(CurrentSegment) : PageStart(a) \in allocated /\ PageStart(a) \in Pages
           /\ \A a \in Addresses \ Bytes(CurrentSegment) : memory'[a] = memory[a]
           /\ \A t, im : t = CurrentSegment /\ im = loading => Copied(im, t)'
<1>1. phase = "load" /\ page >= PageRange(CurrentSegment).end
  BY ZenonT(60) DEF CopySegment
<1>2. Progress /\ GoodSegment(CurrentSegment)
  BY ZenonT(60), <1>1, AllocateContext
<1>3. PICK s, im : s = CurrentSegment /\ im = loading
  BY ZenonT(60)
<1>4. memory' = [a \in Addresses |-> IF a \in Bytes(s) THEN Loaded(s, a) ELSE memory[a]]
  BY ZenonT(60), <1>3 DEF CopySegment
<1>5. ASSUME NEW a \in Bytes(s) PROVE PageStart(a) \in allocated /\ PageStart(a) \in Pages
  <2>1. PageStart(a) < PageRange(s).end /\ PageRange(s).end \in Pages
    BY ZenonT(60), <1>2, <1>3, SegmentPages
  <2>2. PageStart(a) \in Pages /\ page \in Pages
    BY ZenonT(60), <1>2 DEF Bytes, Pages, Progress
  <2>3. PageStart(a) \in Nat /\ page \in Nat /\ PageRange(s).end \in Nat
    BY ZenonT(60), <2>1, <2>2, PagesAre
  <2>4. PageStart(a) < page
    BY <1>1, <1>3, <2>1, <2>3
  <2> QED
    BY ZenonT(60), <1>2, <1>3, <2>2, <2>4 DEF Progress
<1>6. /\ s.paddr \in Nat /\ s.memsz \in Nat /\ s.filesz \in Nat /\ s.offset \in Nat
      /\ s.paddr + s.memsz <= ADDRESS_SPACE - PAGE_SIZE
      /\ PAGE_SIZE \in Nat \ {0} /\ ADDRESS_SPACE \in Nat
  BY ZenonT(60), <1>2, <1>3, Space DEF GoodSegment, Segment
<1>7. ASSUME NEW n \in 0 .. (s.memsz - 1)
      PROVE  memory'[s.paddr + n] = IF n < s.filesz THEN <<im, s.offset + n>> ELSE <<"zero", 0>>
  <2>1. PICK a : a = s.paddr + n
    BY ZenonT(60)
  <2>2. a \in Bytes(s) /\ a \in Addresses /\ a - s.paddr = n /\ (a < s.paddr + s.filesz <=> n < s.filesz)
    BY <1>6, <2>1 DEF Bytes, Addresses
  <2>3. memory'[a] = Loaded(s, a)
    BY ZenonT(60), <1>4, <2>2
  <2> QED
    BY ZenonT(60), <1>3, <2>1, <2>2, <2>3 DEF Loaded
<1>8. Copied(im, s)'
  BY ZenonT(60), <1>7 DEF Copied
<1>9. \A a \in Addresses \ Bytes(s) : memory'[a] = memory[a]
  BY ZenonT(60), <1>4
<1> QED
  BY ZenonT(60), <1>3, <1>5, <1>8, <1>9

\* Segments of an image that check_no_overlap accepts share no byte.
LEMMA SegmentsApart ==
    ASSUME NEW image, CheckNoOverlap(image),
           NEW i \in DOMAIN image.segs, NEW j \in DOMAIN image.segs, i < j,
           GoodSegment(image.segs[i]), GoodSegment(image.segs[j]),
           NEW a \in Bytes(image.segs[i])
    PROVE  a \notin Bytes(image.segs[j])
<1>1. PICK s, t : s = image.segs[i] /\ t = image.segs[j]
  BY ZenonT(60)
<1>2. s.paddr \in Nat /\ s.memsz \in Nat /\ t.paddr \in Nat /\ t.memsz \in Nat /\ ADDRESS_SPACE \in Nat
  BY ZenonT(60), <1>1, Space DEF GoodSegment, Segment
<1>3. ~ (t.paddr < s.paddr + s.memsz /\ s.paddr < t.paddr + t.memsz)
  BY ZenonT(60), <1>1 DEF CheckNoOverlap
<1>4. a \in Nat /\ s.paddr <= a /\ a < s.paddr + s.memsz
  BY <1>1, <1>2 DEF Bytes, Addresses
<1>5. ~ (t.paddr <= a /\ a < t.paddr + t.memsz)
  BY <1>2, <1>3, <1>4
<1> QED
  BY ZenonT(60), <1>1, <1>5 DEF Bytes

\* After the copy all segments up to this one are in place.
LEMMA CopiedSoFar ==
    ASSUME NoWrapAround, LoaderInv, CopySegment, NEW S, S = Current.segs, NEW im, im = loading,
           NEW i \in 1 .. seg
    PROVE  /\ Copied(im, S[i])'
           /\ \A a \in Bytes(S[i]) : PageStart(a) \in allocated
<1>1. phase = "load"
  BY ZenonT(60) DEF CopySegment
<1>2. /\ Progress /\ DOMAIN S = 1 .. Len(S) /\ Len(S) \in Nat /\ seg \in 1 .. Len(S)
      /\ \A j \in DOMAIN S : GoodSegment(S[j])
  BY ZenonT(60), <1>1, AllocateContext
<1>3. CurrentSegment = S[seg]
  BY ZenonT(60) DEF CurrentSegment
<1>4. CASE i = seg
  BY ZenonT(60), <1>3, <1>4, CopyWrites
<1>5. CASE i # seg
  <2>1. i \in 1 .. (seg - 1) /\ i < seg /\ i \in DOMAIN S /\ seg \in DOMAIN S
    BY <1>2, <1>5
  <2>2. Copied(im, S[i]) /\ \A a \in Bytes(S[i]) : PageStart(a) \in allocated
    BY ZenonT(60), <1>2, <2>1 DEF Progress
  <2>3. CheckNoOverlap(Current)
    BY ZenonT(60), <1>2 DEF Progress, Validate
  <2>4. \A a \in Bytes(S[i]) : a \in Addresses \ Bytes(S[seg])
    <3>1. \A a \in Bytes(S[i]) : a \notin Bytes(S[seg])
      BY ZenonT(60), <1>2, <2>1, <2>3, SegmentsApart
    <3> QED
      BY ZenonT(60), <3>1 DEF Bytes
  <2>5. \A a \in Bytes(S[i]) : memory'[a] = memory[a]
    BY ZenonT(60), <1>3, <2>4, CopyWrites
  <2>6. Copied(im, S[i])'
    BY ZenonT(60), <1>2, <2>1, <2>2, <2>5, CopiedStays
  <2> QED
    BY ZenonT(60), <2>2, <2>6
<1> QED
  BY ZenonT(60), <1>4, <1>5

\* copy_segment: the image that was loaded before and the segments copied so far
\* stay as they are.
LEMMA CopySegmentStep ==
    ASSUME NoWrapAround, LoaderInv, CopySegment PROVE LoaderInv'
<1>1. phase = "load" /\ UNCHANGED <<disk, allocated, owner, prepared, bootInfo>>
  BY ZenonT(60) DEF CopySegment
<1>2. /\ Progress /\ NothingElse /\ disk \in Disks /\ loading \in {"kernel", "user"}
      /\ loaded.user = NotLoaded
      /\ owner \in [Pages -> {"free", "firmware", "loader"}]
      /\ loaded = [kernel |-> loaded.kernel, user |-> loaded.user]
      /\ loading = "kernel" => loaded.kernel = NotLoaded
      /\ loading = "user" => Whole("kernel") /\ loaded.kernel = LoadedKernel(disk.kernel)
      /\ OnlyOwnPagesWritten
      /\ Current = disk[loading]
      /\ DOMAIN Current.segs = 1 .. Len(Current.segs) /\ Len(Current.segs) \in Nat
      /\ seg \in 1 .. Len(Current.segs)
      /\ \A i \in DOMAIN Current.segs : GoodSegment(Current.segs[i])
  BY ZenonT(60), <1>1, AllocateContext
<1>3. PICK S, im, image : S = Current.segs /\ im = loading /\ image = Current
  BY ZenonT(60)
<1>4. \A i \in 1 .. seg : Copied(im, S[i])' /\ \A a \in Bytes(S[i]) : PageStart(a) \in allocated
  BY ZenonT(60), <1>3, CopiedSoFar
<1>5. \A p \in allocated : owner[p] = "loader"
  BY ZenonT(60), <1>2 DEF Progress
<1>6. OnlyOwnPagesWritten'
  <2> SUFFICES ASSUME NEW a \in Addresses, memory'[a] # <<"firmware", 0>>
               PROVE  owner[PageStart(a)] = "loader"
    BY ZenonT(60), <1>1 DEF OnlyOwnPagesWritten
  <2>1. CASE a \in Bytes(CurrentSegment)
    BY ZenonT(60), <1>5, <2>1, CopyWrites
  <2>2. CASE a \notin Bytes(CurrentSegment)
    <3>1. memory'[a] = memory[a]
      BY ZenonT(60), <2>2, CopyWrites
    <3> QED
      BY ZenonT(60), <1>2, <3>1 DEF OnlyOwnPagesWritten
  <2> QED
    BY ZenonT(60), <2>1, <2>2
<1>7. ASSUME loading = "user" PROVE Whole("kernel")'
  <2>1. Whole("kernel") /\ \A i \in DOMAIN disk["kernel"].segs : GoodSegment(disk["kernel"].segs[i])
    BY ZenonT(60), <1>2, <1>7, ImageShape DEF Whole
  <2>2. allocated \cap PagesOf(disk.kernel) = {}
    BY ZenonT(60), <1>2, <1>7 DEF Progress
  <2>3. PICK K : K = disk["kernel"]
    BY ZenonT(60)
  <2>4. ASSUME NEW i \in DOMAIN K.segs PROVE Copied("kernel", K.segs[i])'
    <3>1. GoodSegment(K.segs[i]) /\ Copied("kernel", K.segs[i])
      BY ZenonT(60), <2>1, <2>3 DEF Whole
    <3>2. \A a \in Bytes(K.segs[i]) : a \in Addresses /\ PageStart(a) \notin allocated
      BY ZenonT(60), <2>2, <2>3, InPagesOf DEF Bytes
    <3>3. \A a \in Bytes(K.segs[i]) : memory'[a] = memory[a]
      BY ZenonT(60), <3>2, CopyWrites
    <3> QED
      BY ZenonT(60), <3>1, <3>3, CopiedStays
  <2> QED
    BY ZenonT(60), <1>1, <2>1, <2>3, <2>4 DEF Whole
<1>8. CASE seg < Len(Current.segs)
  <2>1. /\ seg' = seg + 1 /\ page' = PageRange(S[seg + 1]).start /\ seg + 1 \in DOMAIN S
        /\ UNCHANGED <<phase, loading, loaded>>
    BY <1>2, <1>3, <1>8 DEF CopySegment
  <2>2. Current' = image /\ CurrentSegment' = S[seg + 1]
    BY ZenonT(60), <1>1, <1>3, <2>1 DEF Current, CurrentSegment
  <2>3. PICK s : s = S[seg + 1]
    BY ZenonT(60)
  <2>4. GoodSegment(s)
    BY ZenonT(60), <1>2, <1>3, <2>1, <2>3
  <2>5. /\ PageRange(s).start \in Pages /\ PageRange(s).start \in Nat /\ PageRange(s).end \in Nat
        /\ PageRange(s).start <= PageRange(s).end
        /\ \A a \in Bytes(s) : PageRange(s).start <= PageStart(a) /\ PageStart(a) \in Nat
    <3>1. \A a \in Bytes(s) : PageStart(a) \in Nat
      BY ZenonT(60), InPage DEF Bytes
    <3> QED
      BY <2>4, <3>1, SegmentPages, PagesAre
  <2>6. \A a \in Bytes(s) : ~ (PageStart(a) < PageRange(s).start)
    BY <2>5
  <2>7. PageRange(s).start <= PageRange(s).start /\ 1 .. (seg + 1 - 1) = 1 .. seg
    BY <1>2, <2>5
  <2>8. Progress'
    <3>1. \A i \in 1 .. (seg' - 1) : i \in 1 .. seg
      BY <1>2, <2>1
    <3>2. \A i \in 1 .. (seg' - 1) : \A a \in Bytes(S[i]) : PageStart(a) \in allocated'
      BY ZenonT(60), <1>1, <1>4, <3>1
    <3>3. \A i \in 1 .. (seg' - 1) : Copied(im, S[i])'
      BY ZenonT(60), <1>4, <3>1
    <3>4. image.segs = S /\ loading' = im
      BY ZenonT(60), <1>3, <2>1
    <3>5. (\A i \in 1 .. (seg - 1) : Copied(loading, Current.segs[i]))'
      BY ZenonT(60), <2>2, <3>3, <3>4
    <3>6. Validate(image) /\ allocated \subseteq PagesOf(image) /\ (loading = "user" => allocated \cap PagesOf(disk.kernel) = {})
      BY ZenonT(60), <1>2, <1>3 DEF Progress
    <3> QED
      BY ZenonT(60), <1>1, <1>5, <2>1, <2>2, <2>3, <2>5, <2>6, <2>7, <3>2, <3>4, <3>5, <3>6 DEF Progress
  <2>9. NothingElse'
    BY ZenonT(60), <1>1, <1>2, <2>1 DEF NothingElse
  <2>10. GoodImagesLoad'
    BY ZenonT(60), <1>1, <2>1 DEF GoodImagesLoad
  <2>11. "load" \in Phase /\ "load" \notin AfterLoad
    BY ZenonT(60) DEF Phase, AfterLoad
  <2> QED
    BY ZenonT(60), <1>1, <1>2, <1>6, <1>7, <2>1, <2>8, <2>9, <2>10, <2>11 DEF LoaderInv
<1>9. CASE seg = Len(Current.segs)
  <2>1. /\ loaded' = [loaded EXCEPT ![loading] = LoadedKernel(Current)]
        /\ phase' = IF loading = "kernel" THEN "validate" ELSE "prepare"
        /\ loading' = "user"
    BY <1>2, <1>9 DEF CopySegment
  <2>2. \A i \in DOMAIN S : Copied(im, S[i])'
    BY ZenonT(60), <1>2, <1>3, <1>4, <1>9
  <2>3. \A p \in PagesOf(image) : owner[p] = "loader"
    <3>1. \A p \in PagesOf(image) : \E i \in DOMAIN image.segs : \E a \in Bytes(image.segs[i]) : p = PageStart(a)
      BY ZenonT(60), InPagesOf
    <3>2. \A p \in PagesOf(image) : p \in allocated
      BY <1>2, <1>3, <1>4, <1>9, <3>1
    <3> QED
      BY ZenonT(60), <1>5, <3>2
  <2>4. Validate(image) /\ allocated \subseteq PagesOf(image)
    BY ZenonT(60), <1>2, <1>3 DEF Progress
  <2>5. \A which \in {"kernel", "user"} : which = im => Whole(which)'
    <3> SUFFICES ASSUME NEW which \in {"kernel", "user"}, which = im PROVE Whole(which)'
      BY ZenonT(60)
    <3>1. disk[which] = image /\ disk' = disk /\ owner' = owner /\ image.segs = S
      BY ZenonT(60), <1>1, <1>2, <1>3
    <3> QED
      BY ZenonT(60), <2>2, <2>3, <2>4, <3>1 DEF Whole
  <2>6. GoodImagesLoad' /\ phase' \in Phase /\ phase' # "failed"
    BY ZenonT(60), <2>1 DEF GoodImagesLoad, Phase
  <2>7. CASE loading = "kernel"
    <3>1. /\ phase' = "validate" /\ loaded' = [kernel |-> LoadedKernel(disk.kernel), user |-> NotLoaded]
      BY ZenonT(60), <1>2, <2>1, <2>7
    <3>2. Whole("kernel")'
      BY ZenonT(60), <1>3, <2>5, <2>7
    <3>3. NothingElse'
      BY ZenonT(60), <1>1, <1>2, <1>3, <2>1, <2>4, <2>7 DEF NothingElse
    <3>4. "validate" \notin AfterLoad
      BY ZenonT(60) DEF AfterLoad
    <3> QED
      BY ZenonT(60), <1>1, <1>2, <1>6, <2>1, <2>6, <3>1, <3>2, <3>3, <3>4 DEF LoaderInv
  <2>8. CASE loading = "user"
    <3>1. /\ phase' = "prepare"
          /\ loaded' = [kernel |-> LoadedKernel(disk.kernel), user |-> LoadedKernel(disk.user)]
      BY ZenonT(60), <1>2, <2>1, <2>8
    <3>2. Whole("user")' /\ Whole("kernel")'
      BY ZenonT(60), <1>3, <1>7, <2>5, <2>8
    <3> QED
      BY ZenonT(60), <1>1, <1>2, <1>6, <2>1, <2>6, <3>1, <3>2 DEF LoaderInv
  <2> QED
    BY ZenonT(60), <1>2, <2>7, <2>8
<1> QED
  BY <1>2, <1>8, <1>9

\* An image stays loaded while the loader keeps its pages and nothing is written
\* to them.
LEMMA WholeStays ==
    ASSUME NoWrapAround, disk \in Disks, NEW which \in {"kernel", "user"}, Whole(which), disk' = disk,
           \A p \in Pages : owner[p] = "loader" => owner'[p] = "loader",
           \A a \in Addresses : PageStart(a) \in PagesOf(disk[which]) => memory'[a] = memory[a]
    PROVE  Whole(which)'
<1>1. PICK K : K = disk[which]
  BY ZenonT(60)
<1>2. \A i \in DOMAIN K.segs : GoodSegment(K.segs[i]) /\ Copied(which, K.segs[i])
  BY ZenonT(60), <1>1, ImageShape DEF Whole
<1>3. ASSUME NEW i \in DOMAIN K.segs PROVE Copied(which, K.segs[i])'
  <2>1. \A a \in Bytes(K.segs[i]) : a \in Addresses /\ PageStart(a) \in PagesOf(K)
    BY ZenonT(60), InPagesOf DEF Bytes
  <2>2. \A a \in Bytes(K.segs[i]) : memory'[a] = memory[a]
    BY ZenonT(60), <1>1, <2>1
  <2> QED
    BY ZenonT(60), <1>2, <2>2, CopiedStays
<1>4. \A p \in PagesOf(K) : p \in Pages /\ owner[p] = "loader"
  BY ZenonT(60), <1>1, InPagesOf DEF Whole
<1>5. Validate(K)
  BY ZenonT(60), <1>1 DEF Whole
<1> QED
  BY ZenonT(60), <1>1, <1>3, <1>4, <1>5 DEF Whole

\* A run of pages the firmware gives the loader.
LEMMA TakenPages ==
    ASSUME NEW owners \in [Pages -> {"free", "firmware", "loader"}], NEW count,
           NEW start \in AnyPages(owners, count)
    PROVE  /\ Taken(owners, start, count) \in [Pages -> {"free", "firmware", "loader"}]
           /\ start \in Pages
           /\ \A p \in PageRun(start, count) :
                 p \in Pages /\ owners[p] = "free" /\ Taken(owners, start, count)[p] = "loader"
           /\ \A p \in Pages : owners[p] = "loader" => Taken(owners, start, count)[p] = "loader"
           /\ \A p \in Pages : Taken(owners, start, count)[p] = "free" =>
                                  owners[p] = "free" /\ p \notin PageRun(start, count)
  BY ZenonT(60) DEF Taken, AnyPages

\* A run of one page.
LEMMA OnePage ==
    ASSUME NEW p \in Pages PROVE PageRun(p, 1) = {p}
<1>1. p \in Nat /\ PAGE_SIZE \in Nat
  BY ZenonT(60), PagesAre, Space
<1>2. 0 .. (1 - 1) = {0} /\ p + 0 * PAGE_SIZE = p
  BY <1>1
<1> QED
  BY <1>2 DEF PageRun

\* What is the case once both images are loaded.
LEMMA LoadedContext ==
    ASSUME LoaderInv, phase \in AfterLoad
    PROVE  /\ disk \in Disks /\ loading = "user" /\ Whole("kernel") /\ Whole("user")
           /\ loaded = [kernel |-> loaded.kernel, user |-> loaded.user]
           /\ loaded.kernel = LoadedKernel(disk.kernel) /\ loaded.user = LoadedKernel(disk.user)
           /\ owner \in [Pages -> {"free", "firmware", "loader"}]
           /\ OnlyOwnPagesWritten
  BY ZenonT(60) DEF LoaderInv

\* handoff::prepare: the stack and BootInfo get pages of their own.
LEMMA PrepareStep ==
    ASSUME NoWrapAround, LoaderInv, Prepare PROVE LoaderInv'
<1>1. phase = "prepare" /\ UNCHANGED <<disk, loadVars, memory, loaded, bootInfo>> /\ loading' = loading
  BY ZenonT(60) DEF Prepare, loadVars
<1>2. /\ disk \in Disks /\ loading = "user" /\ Whole("kernel") /\ Whole("user")
      /\ loaded = [kernel |-> loaded.kernel, user |-> loaded.user]
      /\ loaded.kernel = LoadedKernel(disk.kernel) /\ loaded.user = LoadedKernel(disk.user)
      /\ owner \in [Pages -> {"free", "firmware", "loader"}]
      /\ OnlyOwnPagesWritten
  BY ZenonT(60), <1>1, LoadedContext DEF AfterLoad
<1>3. \A a \in Addresses : PageStart(a) \in Pages
  BY ZenonT(60) DEF Pages
<1>4. ASSUME owner' \in [Pages -> {"free", "firmware", "loader"}],
             \A p \in Pages : owner[p] = "loader" => owner'[p] = "loader",
             phase' \in {"failed", "exit"}, phase' = "exit" => Apart', GoodImagesLoad'
      PROVE  LoaderInv'
  <2>1. Whole("kernel")' /\ Whole("user")'
    BY ZenonT(60), <1>1, <1>2, <1>4, WholeStays
  <2>2. OnlyOwnPagesWritten'
    BY ZenonT(60), <1>1, <1>2, <1>3, <1>4 DEF OnlyOwnPagesWritten
  <2>3. phase' \in Phase /\ "failed" \notin AfterLoad
    BY ZenonT(60), <1>4 DEF Phase, AfterLoad
  <2> QED
    BY ZenonT(60), <1>1, <1>2, <1>4, <2>1, <2>2, <2>3 DEF LoaderInv
<1>5. CASE AnyPages(owner, STACK_PAGES) = {} /\ phase' = "failed" /\ UNCHANGED <<owner, prepared>>
  BY ZenonT(60), <1>1, <1>2, <1>4, <1>5 DEF GoodImagesLoad
<1>6. ASSUME NEW stack \in AnyPages(owner, STACK_PAGES), NEW owners,
             owners = Taken(owner, stack, STACK_PAGES),
             AnyPages(owners, 1) = {}, owner' = owners, phase' = "failed"
      PROVE  LoaderInv'
  <2>1. /\ owners \in [Pages -> {"free", "firmware", "loader"}]
        /\ \A p \in Pages : owner[p] = "loader" => owners[p] = "loader"
    BY <1>2, <1>6, TakenPages
  <2> QED
    BY ZenonT(60), <1>1, <1>4, <1>6, <2>1 DEF GoodImagesLoad
<1>7. ASSUME NEW stack \in AnyPages(owner, STACK_PAGES), NEW owners,
             owners = Taken(owner, stack, STACK_PAGES),
             NEW q \in AnyPages(owners, 1), owner' = Taken(owners, q, 1),
             prepared' = [stack |-> stack, page |-> q], phase' = "exit"
      PROVE  LoaderInv'
  <2>1. /\ owners \in [Pages -> {"free", "firmware", "loader"}]
        /\ stack \in Pages
        /\ \A p \in PageRun(stack, STACK_PAGES) : p \in Pages /\ owner[p] = "free" /\ owners[p] = "loader"
        /\ \A p \in Pages : owner[p] = "loader" => owners[p] = "loader"
        /\ \A p \in Pages : owners[p] = "free" => owner[p] = "free" /\ p \notin PageRun(stack, STACK_PAGES)
    BY <1>2, <1>7, TakenPages
  <2>2. /\ owner' \in [Pages -> {"free", "firmware", "loader"}]
        /\ q \in Pages
        /\ \A p \in PageRun(q, 1) : p \in Pages /\ owners[p] = "free" /\ owner'[p] = "loader"
        /\ \A p \in Pages : owners[p] = "loader" => owner'[p] = "loader"
    BY <1>7, <2>1, TakenPages
  <2>3. owners[q] = "free" /\ owner'[q] = "loader"
    BY ZenonT(60), <2>2, OnePage
  <2>4. \A p \in PagesOf(disk.kernel) \cup PagesOf(disk.user) : owner[p] = "loader"
    BY ZenonT(60), <1>2 DEF Whole
  <2>5. prepared'.stack = stack /\ prepared'.page = q
    BY ZenonT(60), <1>7
  <2>6. Apart'
    BY ZenonT(60), <1>1, <2>1, <2>2, <2>3, <2>4, <2>5 DEF Apart
  <2>7. \A p \in Pages : owner[p] = "loader" => owner'[p] = "loader"
    BY ZenonT(60), <2>1, <2>2
  <2> QED
    BY ZenonT(60), <1>4, <1>7, <2>2, <2>6, <2>7 DEF GoodImagesLoad
<1> QED
  BY ZenonT(60), <1>5, <1>6, <1>7 DEF Prepare

\* enter_kernel up to BootInfo: it is written to the page it was given.
LEMMA ExitStep ==
    ASSUME NoWrapAround, LoaderInv, ExitBootServices PROVE LoaderInv'
<1>1. phase = "exit" /\ UNCHANGED <<disk, loadVars, loaded, prepared>> /\ loading' = loading
  BY ZenonT(60) DEF ExitBootServices, loadVars
<1>2. /\ disk \in Disks /\ loading = "user" /\ Whole("kernel") /\ Whole("user")
      /\ loaded = [kernel |-> loaded.kernel, user |-> loaded.user]
      /\ loaded.kernel = LoadedKernel(disk.kernel) /\ loaded.user = LoadedKernel(disk.user)
      /\ owner \in [Pages -> {"free", "firmware", "loader"}]
      /\ OnlyOwnPagesWritten
  BY ZenonT(60), <1>1, LoadedContext DEF AfterLoad
<1>3. Apart
  BY ZenonT(60), <1>1 DEF LoaderInv, AfterLoad
<1>4. \A a \in Addresses : PageStart(a) \in Pages
  BY ZenonT(60) DEF Pages
<1>5. CASE AnyPages(owner, 1) = {} /\ phase' = "failed" /\ UNCHANGED <<owner, memory, bootInfo, magic>>
  <2>1. Whole("kernel")' /\ Whole("user")'
    BY ZenonT(60), <1>1, <1>2, <1>5, WholeStays
  <2>2. OnlyOwnPagesWritten' /\ GoodImagesLoad'
    BY ZenonT(60), <1>2, <1>5 DEF OnlyOwnPagesWritten, GoodImagesLoad
  <2>3. "failed" \in Phase /\ "failed" \notin AfterLoad
    BY ZenonT(60) DEF Phase, AfterLoad
  <2> QED
    BY ZenonT(60), <1>1, <1>2, <1>5, <2>1, <2>2, <2>3 DEF LoaderInv
<1>6. ASSUME NEW mapPage \in AnyPages(owner, 1), owner' = Taken(owner, mapPage, 1),
             memory' = [a \in Addresses |-> IF PageStart(a) = prepared.page
                                            THEN <<"bootinfo", 0>> ELSE memory[a]],
             bootInfo' = BootInfoOf(loaded.kernel, loaded.user, prepared.stack),
             phase' = "recheck"
      PROVE  LoaderInv'
  <2>1. /\ owner' \in [Pages -> {"free", "firmware", "loader"}]
        /\ \A p \in Pages : owner[p] = "loader" => owner'[p] = "loader"
    BY <1>2, <1>6, TakenPages
  <2>2. /\ prepared.page \in Pages /\ owner[prepared.page] = "loader"
        /\ prepared.page \notin PagesOf(disk["kernel"]) /\ prepared.page \notin PagesOf(disk["user"])
    BY ZenonT(60), <1>3 DEF Apart
  <2>3. \A a \in Addresses : PageStart(a) # prepared.page => memory'[a] = memory[a]
    BY ZenonT(60), <1>6
  <2>4. Whole("kernel")' /\ Whole("user")'
    <3>1. \A a \in Addresses : PageStart(a) \in PagesOf(disk["kernel"]) => memory'[a] = memory[a]
      BY ZenonT(60), <2>2, <2>3
    <3>2. \A a \in Addresses : PageStart(a) \in PagesOf(disk["user"]) => memory'[a] = memory[a]
      BY ZenonT(60), <2>2, <2>3
    <3> QED
      BY ZenonT(60), <1>1, <1>2, <2>1, <3>1, <3>2, WholeStays
  <2>5. OnlyOwnPagesWritten'
    BY ZenonT(60), <1>2, <1>4, <2>1, <2>2, <2>3 DEF OnlyOwnPagesWritten
  <2>6. Apart'
    BY ZenonT(60), <1>1, <1>3, <2>1 DEF Apart
  <2>7. GoodImagesLoad' /\ "recheck" \in Phase
    BY ZenonT(60), <1>6 DEF GoodImagesLoad, Phase
  <2> QED
    BY ZenonT(60), <1>1, <1>2, <1>6, <2>1, <2>4, <2>5, <2>6, <2>7 DEF LoaderInv
<1> QED
  BY ZenonT(60), <1>5, <1>6 DEF ExitBootServices

\* Nothing but magic and the phase changes any more.
LEMMA HandoffStep ==
    ASSUME LoaderInv, phase \in {"recheck", "jump"}, phase' \in {"recheck", "jump", "kernel", "rejected"},
           UNCHANGED <<disk, loading, owner, memory, loaded, prepared, bootInfo>>,
           phase' = "jump" => magic' \/ late', phase' = "rejected" => late'
    PROVE  LoaderInv'
<1>1. /\ disk \in Disks /\ loading = "user" /\ Whole("kernel") /\ Whole("user")
      /\ loaded = [kernel |-> loaded.kernel, user |-> loaded.user]
      /\ loaded.kernel = LoadedKernel(disk.kernel) /\ loaded.user = LoadedKernel(disk.user)
      /\ owner \in [Pages -> {"free", "firmware", "loader"}]
      /\ OnlyOwnPagesWritten
  BY ZenonT(60), LoadedContext DEF AfterLoad
<1>2. Apart /\ bootInfo = BootInfoOf(loaded.kernel, loaded.user, prepared.stack)
  BY ZenonT(60) DEF LoaderInv, AfterLoad
<1>3. Whole("kernel")' /\ Whole("user")'
  BY ZenonT(60), <1>1 DEF Whole, Copied
<1>4. OnlyOwnPagesWritten' /\ Apart'
  BY ZenonT(60), <1>1, <1>2 DEF OnlyOwnPagesWritten, Apart
<1>5. bootInfo' = BootInfoOf(loaded'.kernel, loaded'.user, prepared'.stack)
  BY ZenonT(60), <1>2
<1>6. GoodImagesLoad' /\ phase' \in Phase /\ phase' \notin {"validate", "load"}
  BY ZenonT(60) DEF GoodImagesLoad, Phase
<1>7. /\ disk' \in Disks /\ loading' = "user"
      /\ loaded' = [kernel |-> loaded'.kernel, user |-> loaded'.user]
      /\ loaded'.kernel = LoadedKernel(disk'.kernel) /\ loaded'.user = LoadedKernel(disk'.user)
      /\ owner' \in [Pages -> {"free", "firmware", "loader"}]
  BY ZenonT(60), <1>1
<1>8. phase' # "load" /\ loading' # "kernel" /\ loading' \in {"kernel", "user"}
  BY ZenonT(60), <1>6, <1>7
<1> QED
  BY ZenonT(60), <1>3, <1>4, <1>5, <1>6, <1>7, <1>8 DEF LoaderInv

\* LoaderInv is inductive.
LEMMA LoaderInvNext ==
    ASSUME NoWrapAround, LoaderInv, [Next]_vars PROVE LoaderInv'
<1>1. CASE CheckImage
  BY ZenonT(60), <1>1, CheckImageStep
<1>2. CASE AllocatePage
  BY ZenonT(60), <1>2, AllocatePageStep
<1>3. CASE CopySegment
  BY ZenonT(60), <1>3, CopySegmentStep
<1>4. CASE Prepare
  BY ZenonT(60), <1>4, PrepareStep
<1>5. CASE ExitBootServices
  BY ZenonT(60), <1>5, ExitStep
<1>6. CASE StrayWrite
  <2>1. /\ phase \in {"recheck", "jump"} /\ phase' = phase
        /\ UNCHANGED <<disk, loading, owner, memory, loaded, prepared, bootInfo>>
    BY ZenonT(60), <1>6 DEF StrayWrite, loadVars
  <2>2. phase = "jump" => late'
    BY ZenonT(60), <1>6 DEF StrayWrite
  <2>3. phase' \in {"recheck", "jump", "kernel", "rejected"} /\ phase' # "rejected"
    BY ZenonT(60), <2>1
  <2> QED
    BY ZenonT(60), <2>1, <2>2, <2>3, HandoffStep
<1>7. CASE RecheckMagic
  <2>1. /\ phase \in {"recheck", "jump"} /\ phase' \in {"recheck", "jump"}
        /\ UNCHANGED <<disk, loading, owner, memory, loaded, prepared, bootInfo>>
    BY ZenonT(60), <1>7 DEF RecheckMagic, loadVars
  <2>2. magic'
    BY ZenonT(60), <1>7 DEF RecheckMagic
  <2>3. phase' \in {"recheck", "jump", "kernel", "rejected"} /\ phase' # "rejected"
    BY ZenonT(60), <2>1
  <2> QED
    BY ZenonT(60), <2>1, <2>2, <2>3, HandoffStep
<1>8. CASE KernelMain
  <2>1. /\ phase = "jump" /\ phase \in {"recheck", "jump"} /\ phase' \in {"kernel", "rejected"}
        /\ UNCHANGED <<disk, loading, owner, memory, loaded, prepared, bootInfo>>
    BY ZenonT(60), <1>8 DEF KernelMain, loadVars
  <2>2. magic \/ late
    BY ZenonT(60), <2>1 DEF LoaderInv
  <2>3. UNCHANGED magicVars /\ phase' = IF magic THEN "kernel" ELSE "rejected"
    BY ZenonT(60), <1>8 DEF KernelMain
  <2>4. late' = late /\ "kernel" # "rejected"
    BY ZenonT(60), <2>3 DEF magicVars
  <2>5. phase' = "rejected" => late'
    BY ZenonT(60), <2>2, <2>3, <2>4
  <2>6. phase' \in {"recheck", "jump", "kernel", "rejected"} /\ phase' # "jump"
    BY ZenonT(60), <2>1
  <2> QED
    BY ZenonT(60), <2>1, <2>5, <2>6, HandoffStep
<1>9. CASE UNCHANGED vars
  <2>1. /\ UNCHANGED <<disk, phase, loading, seg, page, allocated, owner, memory, loaded, prepared, bootInfo>>
        /\ magic' = magic /\ late' = late
    BY ZenonT(60), <1>9 DEF vars, loadVars, magicVars
  <2>2. Current' = Current /\ CurrentSegment' = CurrentSegment
    BY ZenonT(60), <2>1 DEF Current, CurrentSegment
  <2>3. Whole("kernel")' = Whole("kernel") /\ Whole("user")' = Whole("user")
    BY ZenonT(60), <2>1 DEF Whole, Copied
  <2>4. Progress' = Progress
    BY <2>1, <2>2 DEF Progress, Copied
  <2>5. NothingElse' = NothingElse /\ Apart' = Apart
    BY ZenonT(60), <2>1 DEF NothingElse, Apart
  <2>6. OnlyOwnPagesWritten' = OnlyOwnPagesWritten /\ GoodImagesLoad' = GoodImagesLoad
    BY ZenonT(60), <2>1 DEF OnlyOwnPagesWritten, GoodImagesLoad
  <2> QED
    BY ZenonT(60), <2>1, <2>3, <2>4, <2>5, <2>6 DEF LoaderInv
<1> QED
  BY ZenonT(60), <1>1, <1>2, <1>3, <1>4, <1>5, <1>6, <1>7, <1>8, <1>9 DEF Next, Ended

\* The hypothesis on the volume with what it implies.
LoaderHolds == NoWrapAround /\ LoaderInv

\* LoaderInv in every state of the loader.
THEOREM LoaderInvariance == NoWrapAround /\ Spec => []LoaderHolds
<1>1. NoWrapAround /\ Init => LoaderHolds
  BY ZenonT(60), LoaderInvInit DEF LoaderHolds
<1>2. LoaderHolds /\ [Next]_vars => LoaderHolds'
  BY ZenonT(60), LoaderInvNext DEF LoaderHolds, NoWrapAround
<1> QED
  BY <1>1, <1>2, PTL DEF Spec

\* The loader writes to pages it got from the firmware and to no other.
THEOREM WritesOwnPages == NoWrapAround /\ Spec => []OnlyOwnPagesWritten
<1>1. LoaderHolds => OnlyOwnPagesWritten
  BY ZenonT(60) DEF LoaderHolds, LoaderInv
<1> QED
  BY <1>1, LoaderInvariance, PTL

\* What load_kernel and load_user have loaded stays in memory until the kernel
\* runs.
THEOREM LoadedImagesStay == NoWrapAround /\ Spec => []ImagesStayLoaded
<1>1. LoaderHolds => ImagesStayLoaded
  <2> SUFFICES ASSUME LoaderHolds, NEW image \in {"kernel", "user"}, loaded[image] # NotLoaded
               PROVE  \A i \in DOMAIN disk[image].segs : Copied(image, disk[image].segs[i])
    BY ZenonT(60) DEF ImagesStayLoaded, Copied
  <2>1. Whole(image)
    BY ZenonT(60) DEF LoaderHolds, LoaderInv
  <2> QED
    BY ZenonT(60), <2>1 DEF Whole
<1> QED
  BY <1>1, LoaderInvariance, PTL

\* A boot that fails has a reason.
THEOREM GoodImagesAreLoaded == NoWrapAround /\ Spec => []GoodImagesLoad
<1>1. LoaderHolds => GoodImagesLoad
  BY ZenonT(60) DEF LoaderHolds, LoaderInv
<1> QED
  BY <1>1, LoaderInvariance, PTL

-----------------------------------------------------------------------------
(* What BootInfo says *)

\* A set of naturals has a least element.
LEMMA NatMin ==
    ASSUME NEW T, T \subseteq Nat, T # {}
    PROVE  \E x \in T : \A y \in T : x <= y
<1>. DEFINE R == OpToRel(<, Nat)
<1>1. PICK x \in T : \A y \in T : ~ (<<y, x>> \in R)
  <2>1. IsWellFoundedOn(R, Nat)
    BY ZenonT(60), NatLessThanWellFounded
  <2>. HIDE DEF R
  <2>. QED
    BY ZenonT(60), <2>1, WFMin
<1>2. ASSUME NEW y \in T PROVE x <= y
  <2>1. ASSUME y < x PROVE <<y, x>> \in R
    BY ZenonT(60), <2>1 DEF OpToRel
  <2>2. ~ (y < x)
    <3>. HIDE DEF R
    <3>. QED
      BY ZenonT(60), <2>1, <1>1
  <2>. QED
    BY <2>2
<1>. QED
  BY ZenonT(60), <1>2

\* A bounded one has a greatest.
LEMMA NatMax ==
    ASSUME NEW T, T \subseteq Nat, T # {}, NEW bound \in Nat, \A x \in T : x <= bound
    PROVE  \E x \in T : \A y \in T : y <= x
<1>. DEFINE D == {bound - x : x \in T}
<1>1. D \subseteq Nat /\ D # {}
  <2>1. ASSUME NEW x \in T PROVE bound - x \in Nat
    OBVIOUS
  <2>. QED
    BY ZenonT(60), <2>1
<1>2. PICK d \in D : \A e \in D : d <= e
  <2>. HIDE DEF D
  <2>. QED
    BY ZenonT(60), <1>1, NatMin
<1>3. PICK x \in T : d = bound - x
  BY ZenonT(60)
<1>4. ASSUME NEW y \in T PROVE y <= x
  <2>1. bound - y \in D
    BY ZenonT(60)
  <2>2. bound - x <= bound - y
    BY ZenonT(60), <2>1, <1>2, <1>3
  <2>. QED
    BY <2>2
<1>. QED
  BY ZenonT(60), <1>4

\* loaded_span: from the lowest page of a segment to the end of the highest.
LEMMA SpanOf ==
    ASSUME NoWrapAround, disk \in Disks, NEW which \in {"kernel", "user"}, Validate(disk[which]),
           NEW image, image = disk[which]
    PROVE  \E lo, hi \in DOMAIN image.segs :
              /\ LoadedKernel(image).base = PageRange(image.segs[lo]).start
              /\ LoadedKernel(image).base + LoadedKernel(image).size = PageRange(image.segs[hi]).end
              /\ LoadedKernel(image).base \in Nat /\ LoadedKernel(image).size \in Nat
              /\ \A i \in DOMAIN image.segs :
                    /\ PageRange(image.segs[lo]).start <= PageRange(image.segs[i]).start
                    /\ PageRange(image.segs[i]).end <= PageRange(image.segs[hi]).end
<1>1. 1 \in DOMAIN image.segs /\ \A i \in DOMAIN image.segs : GoodSegment(image.segs[i])
  BY ZenonT(60), ImageShape
<1>2. ADDRESS_SPACE \in Nat
  BY ZenonT(60), Space
<1>3. ASSUME NEW i \in DOMAIN image.segs
      PROVE  /\ PageRange(image.segs[i]).start \in Nat /\ PageRange(image.segs[i]).end \in Nat
             /\ PageRange(image.segs[i]).end < ADDRESS_SPACE
             /\ PageRange(image.segs[i]).start < PageRange(image.segs[i]).end
  BY ZenonT(60), <1>1, SegmentPages, PagesAre
<1> DEFINE ranges == {PageRange(image.segs[i]) : i \in DOMAIN image.segs}
           starts == {r.start : r \in ranges}
           ends == {r.end : r \in ranges}
<1>4. /\ starts \subseteq Nat /\ starts # {} /\ ends \subseteq Nat /\ ends # {}
      /\ \A e \in ends : e <= ADDRESS_SPACE
  BY <1>1, <1>2, <1>3
<1>5. Min(starts) \in starts /\ \A y \in starts : Min(starts) <= y
  <2> HIDE DEF starts
  <2>1. \E x \in starts : \A y \in starts : x <= y
    BY ZenonT(60), <1>4, NatMin
  <2> QED
    BY ZenonT(60), <2>1 DEF Min
<1>6. Max(ends) \in ends /\ \A y \in ends : Max(ends) >= y
  <2> HIDE DEF ends
  <2>1. \E x \in ends : \A y \in ends : y <= x
    BY ZenonT(60), <1>2, <1>4, NatMax
  <2>2. \E x \in ends : \A y \in ends : x >= y
    BY ZenonT(60), <1>4, <2>1
  <2> QED
    BY ZenonT(60), <2>2 DEF Max
<1>7. PICK lo \in DOMAIN image.segs : Min(starts) = PageRange(image.segs[lo]).start
  <2> HIDE DEF Min
  <2> QED
    BY ZenonT(60), <1>5
<1>8. PICK hi \in DOMAIN image.segs : Max(ends) = PageRange(image.segs[hi]).end
  BY ZenonT(60), <1>6
<1>9. PICK base, end : base = Min(starts) /\ end = Max(ends)
  BY ZenonT(60)
<1>10. LoadedSpan(image).start = base /\ LoadedSpan(image).end = end
  BY ZenonT(60), <1>9 DEF LoadedSpan
<1>11. /\ base \in Nat /\ end \in Nat /\ end < ADDRESS_SPACE
       /\ \A i \in DOMAIN image.segs : /\ base <= PageRange(image.segs[i]).start
                                       /\ PageRange(image.segs[i]).end <= end
  <2>1. \A i \in DOMAIN image.segs : PageRange(image.segs[i]).start \in starts /\ PageRange(image.segs[i]).end \in ends
    BY ZenonT(60)
  <2>2. \A i \in DOMAIN image.segs : base <= PageRange(image.segs[i]).start /\ end >= PageRange(image.segs[i]).end
    BY ZenonT(60), <1>5, <1>6, <1>9, <2>1
  <2> HIDE DEF starts, ends
  <2>3. base \in Nat /\ end \in Nat /\ end < ADDRESS_SPACE
    BY ZenonT(60), <1>3, <1>7, <1>8, <1>9
  <2> QED
    BY ZenonT(60), <1>3, <2>2, <2>3
<1>12. base < end
  BY <1>1, <1>3, <1>11
<1>13. end - base \in Nat /\ (end - base) % ADDRESS_SPACE = end - base
  <2>1. end - base \in Nat /\ end - base < ADDRESS_SPACE
    BY <1>2, <1>11, <1>12
  <2> QED
    BY <1>2, <2>1
<1>14. LoadedKernel(image).base = base /\ LoadedKernel(image).size = end - base
  <2>1. LoadedKernel(image) = [base |-> base, size |-> (end - base) % ADDRESS_SPACE, entry |-> image.entry,
                               vaddr_delta |-> image.segs[1].vaddr - image.segs[1].paddr]
    BY ZenonT(60), <1>10 DEF LoadedKernel
  <2> HIDE DEF starts, ends
  <2> QED
    BY <1>13, <2>1
<1>15. base + (end - base) = end
  BY <1>11
<1> HIDE DEF starts, ends
<1>16. base = PageRange(image.segs[lo]).start /\ end = PageRange(image.segs[hi]).end
  BY ZenonT(60), <1>7, <1>8, <1>9
<1>17. /\ LoadedKernel(image).base = PageRange(image.segs[lo]).start
       /\ LoadedKernel(image).base + LoadedKernel(image).size = PageRange(image.segs[hi]).end
       /\ LoadedKernel(image).base \in Nat /\ LoadedKernel(image).size \in Nat
  BY ZenonT(60), <1>11, <1>13, <1>14, <1>15, <1>16
<1>18. \A i \in DOMAIN image.segs :
          /\ PageRange(image.segs[lo]).start <= PageRange(image.segs[i]).start
          /\ PageRange(image.segs[i]).end <= PageRange(image.segs[hi]).end
  BY ZenonT(60), <1>11, <1>16
<1> QED
  BY ZenonT(60), <1>17, <1>18

\* The entry of the kernel is an address its executable segment was copied to.
LEMMA EntryIsLoaded ==
    ASSUME NoWrapAround, disk \in Disks, Validate(disk.kernel)
    PROVE  \E i \in DOMAIN disk.kernel.segs :
              disk.kernel.segs[i].exec /\ disk.kernel.entry \in Bytes(disk.kernel.segs[i])
<1>1. PICK K : K = disk["kernel"]
  BY ZenonT(60)
<1>2. /\ K \in Image /\ \A i \in DOMAIN K.segs : GoodSegment(K.segs[i])
      /\ \A i \in DOMAIN K.segs : K.segs[i].vaddr = K.segs[i].paddr
  BY ZenonT(60), <1>1, ImageShape, LinkedAssumption
<1>3. CheckEntry(K)
  BY ZenonT(60), <1>1 DEF Validate
<1>4. PICK i \in DOMAIN K.segs :
          /\ K.segs[i].exec
          /\ K.segs[i].vaddr <= K.entry /\ K.entry < K.segs[i].vaddr + K.segs[i].memsz
  BY ZenonT(60), <1>3 DEF CheckEntry
<1>5. PICK s : s = K.segs[i]
  BY ZenonT(60)
<1>6. /\ GoodSegment(s) /\ s.vaddr = s.paddr /\ s.vaddr <= K.entry /\ K.entry < s.vaddr + s.memsz
      /\ K.entry \in Nat
  BY ZenonT(60), <1>2, <1>4, <1>5 DEF Image
<1>7. /\ s.paddr \in Nat /\ s.memsz \in Nat /\ s.paddr + s.memsz <= ADDRESS_SPACE - PAGE_SIZE
      /\ PAGE_SIZE \in Nat \ {0} /\ ADDRESS_SPACE \in Nat
  BY ZenonT(60), <1>6, Space DEF GoodSegment, Segment
<1>8. K.entry \in Bytes(s)
  BY <1>6, <1>7 DEF Bytes, Addresses
<1> QED
  BY ZenonT(60), <1>1, <1>4, <1>5, <1>8

\* The span covers the segments, and lies in pages of the image when those leave
\* no page out.
LEMMA SpanCovers ==
    ASSUME NoWrapAround, disk \in Disks, NEW which \in {"kernel", "user"}, Validate(disk[which]),
           NEW image, image = disk[which], NEW base, NEW size,
           base = LoadedKernel(image).base, size = LoadedKernel(image).size
    PROVE  /\ \A i \in DOMAIN image.segs : Bytes(image.segs[i]) \subseteq ByteRange(base, size)
           /\ (\A low, high \in PagesOf(image), p \in Pages : low <= p /\ p <= high => p \in PagesOf(image))
              => \A addr \in ByteRange(base, size) : PageStart(addr) \in PagesOf(image)
<1>1. PICK lo, hi \in DOMAIN image.segs :
          /\ base = PageRange(image.segs[lo]).start
          /\ base + size = PageRange(image.segs[hi]).end
          /\ base \in Nat /\ size \in Nat
          /\ \A i \in DOMAIN image.segs :
                /\ PageRange(image.segs[lo]).start <= PageRange(image.segs[i]).start
                /\ PageRange(image.segs[i]).end <= PageRange(image.segs[hi]).end
  BY ZenonT(60), SpanOf
<1>2. \A i \in DOMAIN image.segs : GoodSegment(image.segs[i])
  BY ZenonT(60), ImageShape
<1>3. ASSUME NEW i \in DOMAIN image.segs, NEW a \in Bytes(image.segs[i]) PROVE a \in ByteRange(base, size)
  <2>1. PICK s : s = image.segs[i]
    BY ZenonT(60)
  <2>2. /\ a \in Addresses /\ s.paddr <= a /\ a < s.paddr + s.memsz /\ a \in Nat
        /\ s.paddr \in Nat /\ s.memsz \in Nat
    BY ZenonT(60), <1>2, <2>1, InPage DEF Bytes, GoodSegment, Segment
  <2>3. /\ PageRange(s).start <= s.paddr /\ s.paddr + s.memsz <= PageRange(s).end
        /\ PageRange(s).start \in Nat /\ PageRange(s).end \in Nat
    BY ZenonT(60), <1>2, <2>1, SegmentPages, PagesAre
  <2>4. base <= PageRange(s).start /\ PageRange(s).end <= base + size
    BY ZenonT(60), <1>1, <2>1
  <2>5. base <= a /\ a < base + size
    <3>1. PICK b \in Nat, e \in Nat : b = PageRange(s).start /\ e = PageRange(s).end
      BY ZenonT(60), <2>3
    <3>2. PICK p \in Nat, n \in Nat : p = s.paddr /\ n = s.memsz
      BY ZenonT(60), <2>2
    <3>3. base \in Nat /\ size \in Nat
      BY ZenonT(60), <1>1
    <3>4. base <= b /\ b <= p /\ p <= a /\ a < p + n /\ p + n <= e /\ e <= base + size /\ a \in Nat
      BY ZenonT(60), <3>1, <3>2, <2>2, <2>3, <2>4
    <3> QED
      BY <3>3, <3>4
  <2> QED
    BY ZenonT(60), <2>2, <2>5 DEF ByteRange
<1>4. ASSUME \A low, high \in PagesOf(image), p \in Pages : low <= p /\ p <= high => p \in PagesOf(image),
             NEW addr \in ByteRange(base, size)
      PROVE  PageStart(addr) \in PagesOf(image)
  <2>1. addr \in Addresses /\ base <= addr /\ addr < base + size
    BY ZenonT(60) DEF ByteRange
  <2>2. PICK t : t = image.segs[hi]
    BY ZenonT(60)
  <2>3. PICK s : s = image.segs[lo]
    BY ZenonT(60)
  <2>4. /\ GoodSegment(s) /\ GoodSegment(t) /\ base = PageRange(s).start /\ base + size = PageRange(t).end
    BY ZenonT(60), <1>1, <1>2, <2>2, <2>3
  <2>5. /\ PageRange(s).start \in Pages /\ PageRange(s).start \in PagesOf(image)
    <3>1. PageRange(s).start \in Pages /\ PageRange(s).end \in Pages /\ PageRange(s).start < PageRange(s).end
      BY ZenonT(60), <2>4, SegmentPages
    <3>2. PageRange(s).start <= PageRange(s).start
      BY <3>1, PagesAre
    <3>3. \E a \in Bytes(s) : PageStart(a) = PageRange(s).start
      BY ZenonT(60), <2>4, <3>1, <3>2, SegmentPages
    <3> QED
      BY <2>3, <3>1, <3>3, InPagesOf
  <2>6. /\ PageStart(addr) \in Pages /\ PageStart(addr) \in Nat /\ PageStart(addr) <= addr /\ addr \in Nat
        /\ base <= PageStart(addr)
    BY ZenonT(60), <2>1, <2>4, <2>5, InPage
  <2>7. PageStart(addr) < PageRange(t).end
    BY <1>1, <2>1, <2>4, <2>6
  <2>8. CASE PageRange(t).start <= PageStart(addr)
    <3>1. \E a \in Bytes(t) : PageStart(a) = PageStart(addr)
      BY ZenonT(60), <2>4, <2>6, <2>7, <2>8, SegmentPages
    <3> QED
      BY ZenonT(60), <2>2, <3>1, InPagesOf
  <2>9. CASE ~ (PageRange(t).start <= PageStart(addr))
    <3>1. PageRange(t).start \in Pages /\ PageRange(t).end \in Pages /\ PageRange(t).start < PageRange(t).end
      BY ZenonT(60), <2>4, SegmentPages
    <3>2. PageRange(t).start <= PageRange(t).start /\ PageStart(addr) <= PageRange(t).start
      BY <2>6, <2>9, <3>1, PagesAre
    <3>3. \E a \in Bytes(t) : PageStart(a) = PageRange(t).start
      BY ZenonT(60), <2>4, <3>1, <3>2, SegmentPages
    <3>4. PageRange(t).start \in PagesOf(image)
      BY <2>2, <3>3, InPagesOf
    <3> QED
      BY ZenonT(60), <1>4, <2>4, <2>5, <2>6, <3>2, <3>4
  <2> QED
    BY ZenonT(60), <2>8, <2>9
<1> QED
  BY ZenonT(60), <1>3, <1>4

\* The bytes of the stack are in its pages.
LEMMA StackBytes ==
    ASSUME NEW stack \in Pages, NEW addr \in ByteRange(stack, STACK_PAGES * PAGE_SIZE)
    PROVE  PageStart(addr) \in PageRun(stack, STACK_PAGES)
<1>1. PAGE_SIZE \in Nat \ {0} /\ STACK_PAGES \in Nat \ {0}
  BY ZenonT(60), SizesAssumption
<1>2. addr \in Addresses /\ stack <= addr /\ addr < stack + STACK_PAGES * PAGE_SIZE
  BY ZenonT(60) DEF ByteRange
<1>3. PICK k \in Nat : stack = k * PAGE_SIZE /\ stack \in Nat
  BY ZenonT(60), PagesAre
<1>4. /\ addr \in Nat /\ PageStart(addr) \in Pages /\ PageStart(addr) \in Nat /\ PageStart(addr) <= addr
      /\ stack <= PageStart(addr)
  BY ZenonT(60), <1>2, InPage
<1>5. PICK q \in Nat : PageStart(addr) = q * PAGE_SIZE
  BY ZenonT(60), <1>4, PagesAre
<1>6. k <= q
  <2>1. k * PAGE_SIZE < q * PAGE_SIZE + PAGE_SIZE
    BY <1>1, <1>3, <1>4, <1>5
  <2> QED
    BY ZenonT(60), <1>1, <2>1, Step
<1>7. q - k \in Nat /\ q = k + (q - k)
  BY <1>6
<1>8. PICK d \in Nat : d = q - k /\ q = k + d
  BY ZenonT(60), <1>7
<1>9. q * PAGE_SIZE = k * PAGE_SIZE + d * PAGE_SIZE /\ d * PAGE_SIZE \in Nat
  BY <1>1, <1>8
<1>10. d < STACK_PAGES
  <2> SUFFICES ASSUME STACK_PAGES <= d PROVE FALSE
    BY <1>1
  <2>1. STACK_PAGES * PAGE_SIZE <= d * PAGE_SIZE /\ STACK_PAGES * PAGE_SIZE \in Nat
    BY ZenonT(60), <1>1, Monotone
  <2> QED
    BY <1>2, <1>3, <1>4, <1>5, <1>9, <2>1
<1>11. d \in 0 .. (STACK_PAGES - 1) /\ PageStart(addr) = stack + d * PAGE_SIZE
  BY <1>1, <1>3, <1>5, <1>9, <1>10
<1> QED
  BY ZenonT(60), <1>11 DEF PageRun

\* One displacement puts every segment of the service where it was linked.
LEMMA UserIsDisplaced ==
    ASSUME NoWrapAround, disk \in Disks, Validate(disk.user),
           NEW base, base = LoadedKernel(disk.user).base, base \in Nat,
           NEW i \in DOMAIN disk.user.segs
    PROVE  (base + LoadedKernel(disk.user).vaddr_delta) + (disk.user.segs[i].paddr - base)
              = disk.user.segs[i].vaddr
<1>1. PICK U : U = disk["user"]
  BY ZenonT(60)
<1>2. 1 \in DOMAIN U.segs /\ \A j \in DOMAIN U.segs : GoodSegment(U.segs[j])
  BY ZenonT(60), <1>1, ImageShape
<1>3. PICK delta \in 0 .. ADDRESS_SPACE :
          \A j \in DOMAIN U.segs : U.segs[j].vaddr = U.segs[j].paddr + delta
  BY ZenonT(60), <1>1, LinkedAssumption
<1>4. PICK s, t : s = U.segs[1] /\ t = U.segs[i]
  BY ZenonT(60)
<1>5. /\ s.paddr \in Nat /\ t.paddr \in Nat /\ delta \in Nat
      /\ s.vaddr = s.paddr + delta /\ t.vaddr = t.paddr + delta
  BY <1>1, <1>2, <1>3, <1>4, Space DEF GoodSegment, Segment
<1>6. LoadedKernel(U).vaddr_delta = s.vaddr - s.paddr
  BY ZenonT(60), <1>4 DEF LoadedKernel
<1>7. (base + (s.vaddr - s.paddr)) + (t.paddr - base) = t.vaddr
  BY <1>5
<1> QED
  BY ZenonT(60), <1>1, <1>4, <1>6, <1>7

\* What BootInfo says of the two images, the stack and itself.
LEMMA BootInfoIs ==
    ASSUME NEW kernel, NEW user, NEW stack \in Nat, NEW info, info = BootInfoOf(kernel, user, stack)
    PROVE  /\ info.kernel_base = kernel.base /\ info.kernel_size = kernel.size
           /\ info.user_phys = user.base /\ info.user_size = user.size
           /\ info.user_vaddr = user.base + user.vaddr_delta
           /\ info.stack_top - info.stack_size = stack
           /\ info.stack_size = STACK_PAGES * PAGE_SIZE
<1>1. STACK_PAGES * PAGE_SIZE \in Nat
  BY SizesAssumption
<1>2. PICK n : n = STACK_PAGES * PAGE_SIZE
  BY ZenonT(60)
<1>3. (stack + n) - n = stack
  BY <1>1, <1>2
<1>4. /\ info.kernel_base = kernel.base /\ info.kernel_size = kernel.size
      /\ info.user_phys = user.base /\ info.user_size = user.size
      /\ info.user_vaddr = user.base + user.vaddr_delta
      /\ info.stack_top = stack + n /\ info.stack_size = n
  BY ZenonT(60), <1>2 DEF BootInfoOf
<1> QED
  BY ZenonT(60), <1>2, <1>3, <1>4

\* What kernel_main finds agrees with what was loaded.
THEOREM HandoffCorrect == NoWrapAround /\ Spec => []HandoffIsConsistent
<1>1. LoaderHolds => HandoffIsConsistent
  <2> SUFFICES ASSUME LoaderHolds, phase \in {"jump", "kernel", "rejected"} PROVE HandoffIsConsistent
    BY ZenonT(60) DEF HandoffIsConsistent
  <2>1. /\ NoWrapAround /\ disk \in Disks /\ Whole("kernel") /\ Whole("user")
        /\ loaded.kernel = LoadedKernel(disk.kernel) /\ loaded.user = LoadedKernel(disk.user)
    BY ZenonT(60), LoadedContext DEF LoaderHolds, AfterLoad
  <2>2. Apart /\ bootInfo = BootInfoOf(loaded.kernel, loaded.user, prepared.stack)
    BY ZenonT(60) DEF LoaderHolds, LoaderInv, AfterLoad
  <2>3. Validate(disk["kernel"]) /\ Validate(disk["user"])
    BY ZenonT(60), <2>1 DEF Whole
  <2>4. phase = "rejected" => late
    BY ZenonT(60) DEF LoaderHolds, LoaderInv
  <2>5. prepared.stack \in Pages /\ prepared.stack \in Nat
    BY ZenonT(60), <2>2, PagesAre DEF Apart
  <2>6. PICK K, U : K = disk["kernel"] /\ U = disk["user"]
    BY ZenonT(60)
  <2>7. PICK kb, ks, ub, us : /\ kb = LoadedKernel(K).base /\ ks = LoadedKernel(K).size
                              /\ ub = LoadedKernel(U).base /\ us = LoadedKernel(U).size
    BY ZenonT(60)
  <2>8. /\ bootInfo.kernel_base = kb /\ bootInfo.kernel_size = ks
        /\ bootInfo.user_phys = ub /\ bootInfo.user_size = us
        /\ bootInfo.user_vaddr = ub + LoadedKernel(U).vaddr_delta
        /\ bootInfo.stack_top - bootInfo.stack_size = prepared.stack
        /\ bootInfo.stack_size = STACK_PAGES * PAGE_SIZE
    <3>1. loaded.kernel = LoadedKernel(K) /\ loaded.user = LoadedKernel(U)
      BY ZenonT(60), <2>1, <2>6
    <3>2. PICK kernel, user, stack : kernel = loaded.kernel /\ user = loaded.user /\ stack = prepared.stack
      BY ZenonT(60)
    <3>3. bootInfo = BootInfoOf(kernel, user, stack) /\ stack \in Nat
      BY ZenonT(60), <2>2, <2>5, <3>2
    <3>4. /\ bootInfo.kernel_base = kernel.base /\ bootInfo.kernel_size = kernel.size
          /\ bootInfo.user_phys = user.base /\ bootInfo.user_size = user.size
          /\ bootInfo.user_vaddr = user.base + user.vaddr_delta
          /\ bootInfo.stack_top - bootInfo.stack_size = stack
          /\ bootInfo.stack_size = STACK_PAGES * PAGE_SIZE
      BY <3>3, BootInfoIs
    <3> QED
      BY ZenonT(60), <2>7, <3>1, <3>2, <3>4
  <2>9. \E i \in DOMAIN disk.kernel.segs :
            disk.kernel.segs[i].exec /\ disk.kernel.entry \in Bytes(disk.kernel.segs[i])
    BY ZenonT(60), <2>1, <2>3, EntryIsLoaded
  <2>10. \A i \in DOMAIN K.segs : Bytes(K.segs[i]) \subseteq ByteRange(kb, ks)
    BY ZenonT(60), <2>1, <2>3, <2>6, <2>7, SpanCovers
  <2>11. \A a \in ByteRange(prepared.stack, STACK_PAGES * PAGE_SIZE) :
             /\ owner[PageStart(a)] = "loader"
             /\ PageStart(a) \notin PagesOf(disk.kernel) \cup PagesOf(disk.user) \cup {prepared.page}
    BY ZenonT(60), <2>2, <2>5, StackBytes DEF Apart
  <2>12. \A i \in DOMAIN U.segs : Bytes(U.segs[i]) \subseteq ByteRange(ub, us)
    BY ZenonT(60), <2>1, <2>3, <2>6, <2>7, SpanCovers
  <2>13. \A i \in DOMAIN U.segs : (ub + LoadedKernel(U).vaddr_delta) + (U.segs[i].paddr - ub) = U.segs[i].vaddr
    <3>1. ub \in Nat
      BY ZenonT(60), <2>1, <2>3, <2>6, <2>7, SpanOf
    <3> QED
      BY ZenonT(60), <2>1, <2>3, <2>6, <2>7, <3>1, UserIsDisplaced
  <2>14. \A a \in ByteRange(ub, us) : owner[PageStart(a)] = "loader"
    <3>1. \A low, high \in PagesOf(U), p \in Pages : low <= p /\ p <= high => p \in PagesOf(U)
      BY ZenonT(60), <2>1, <2>6, LinkedAssumption
    <3>2. \A a \in ByteRange(ub, us) : PageStart(a) \in PagesOf(U)
      BY ZenonT(60), <2>1, <2>3, <2>6, <2>7, <3>1, SpanCovers
    <3> QED
      BY ZenonT(60), <2>1, <2>6, <3>2 DEF Whole
  <2> QED
    BY ZenonT(60), <2>4, <2>6, <2>8, <2>9, <2>10, <2>11, <2>12, <2>13, <2>14 DEF HandoffIsConsistent
<1> QED
  BY <1>1, LoaderInvariance, PTL

=============================================================================
