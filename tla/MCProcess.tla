----------------------------- MODULE MCProcess ------------------------------
(***************************************************************************)
(* Three machines: one with memory for two user processes, one with memory *)
(* for a single one, of which the heap may take a frame, and one with a    *)
(* single frame, which the heap may take too: a spawn fails at each of its *)
(* allocations.                                                            *)
(***************************************************************************)
EXTENDS Process, TLC

\* kmalloc may return any free block, and no block is special.
StackSymmetry == Permutations(Stacks)
=============================================================================
