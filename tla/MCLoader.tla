------------------------------ MODULE MCLoader ------------------------------
(***************************************************************************)
(* Loader.tla in an address space of twelve pages of two bytes.  Kernel    *)
(* segments of up to three bytes begin and end inside pages, share them,   *)
(* overlap or leave the file; the service does the same further up.        *)
(***************************************************************************)
EXTENDS Loader

MCAddressSpace == 24
MCPageSize == 2
MCMaxSegments == 2
MCMaxPages == 2
MCStackPages == 2
MCMaxRepairs == 2

\* One more than the loop repairs.
MCMaxStrays == 3

Seg(offset, paddr, delta, filesz, memsz, exec) ==
    [offset |-> offset, paddr |-> paddr, vaddr |-> paddr + delta,
     filesz |-> filesz, memsz |-> memsz, exec |-> exec]

File(segs, entry) ==
    [elf |-> TRUE, table |-> TRUE, len |-> 3, segs |-> segs, entry |-> entry]

TextSegs(base, delta) ==
    {Seg(1, paddr, delta, filesz, memsz, TRUE) :
        paddr \in {base, base + 1}, filesz \in {0, 1, 3}, memsz \in {0, 1, 3}}

DataSegs(base, delta) ==
    {Seg(1, paddr, delta, filesz, memsz, FALSE) :
        paddr \in {base + 1, base + 2, base + 3}, filesz \in {0, 2}, memsz \in {1, 2}}

\* One segment, two in either order, three.
Files(base, delta) ==
    LET text == Seg(0, base, delta, 1, 1, TRUE)
        data == Seg(1, base + 1, delta, 1, 1, FALSE)
        entries == {base + delta, base + delta + 2}
    IN  {File(<<t>>, e) : t \in TextSegs(base, delta), e \in entries}
        \cup {File(<<t, d>>, e) : t \in TextSegs(base, delta), d \in DataSegs(base, delta),
                                  e \in entries}
        \cup {File(<<d, text>>, e) : d \in DataSegs(base, delta), e \in entries}
        \cup {File(<<>>, base + delta),
              File(<<text, data, Seg(0, base + 2, delta, 0, 1, FALSE)>>, base + delta),
              [File(<<text>>, base + delta) EXCEPT !.elf = FALSE],
              [File(<<text>>, base + delta) EXCEPT !.table = FALSE]}

KernelBase == 4
UserBase == 8
UserDelta == 6

GoodKernel == File(<<Seg(0, 4, 0, 2, 3, TRUE), Seg(1, 7, 0, 0, 1, FALSE)>>, 5)
GoodUser == File(<<Seg(0, 8, UserDelta, 1, 2, TRUE)>>, 8 + UserDelta)

\* A service whose virtual range ends beyond the address space, and one that
\* wants a page of the kernel.
HighUser == File(<<Seg(0, 8, 14, 1, 3, TRUE)>>, 22)
CollidingUser == File(<<Seg(0, 7, UserDelta, 1, 2, TRUE)>>, 7 + UserDelta)

\* The pages of a file follow each other.
NoGap(file) ==
    \A low, high \in PagesOf(file) :
        \A p \in Pages : low <= p /\ p <= high => p \in PagesOf(file)

MCDisks ==
    {[kernel |-> k, user |-> GoodUser] : k \in Files(KernelBase, 0)}
    \cup {[kernel |-> GoodKernel, user |-> u] :
             u \in {f \in Files(UserBase, UserDelta) : NoGap(f)} \cup {HighUser, CollidingUser}}

\* Room for everything and a choice of stacks; room for all but the memory map;
\* no room for the stack; a page of the kernel taken.
MCFreeSets ==
    {{4, 6, 8, 10, 14, 16, 18, 20},
     {4, 6, 8, 10, 14, 16, 20},
     {4, 6, 8, 10, 14, 18},
     {4, 8, 10, 14, 16, 18, 20}}

=============================================================================
