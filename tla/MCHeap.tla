------------------------------- MODULE MCHeap -------------------------------
(***************************************************************************)
(* The heap in an arena of a few blocks: allocations with and without a    *)
(* front gap, with and without a tail, freed in every order.               *)
(***************************************************************************)
EXTENDS Heap

SmallArena == 18

\* Each with a value that alloc refuses: nothing, no power of two, too much.
MCSizes == {0, 1, 3}
MCAligns == {1, 2, 3, 4, 8}
MCMaxAlign == 4

=============================================================================
