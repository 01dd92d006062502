------------------------------ MODULE MCMemory ------------------------------
(***************************************************************************)
(* Memory, from frames to address spaces: the frame allocator, the heap    *)
(* and the directories have no variable in common, so a behaviour moves    *)
(* one of them, the part, and leaves the others as they were initialised.  *)
(***************************************************************************)
EXTENDS Pmm

\* Eight frames; two usable regions with a hole between them; boot data both
\* inside and outside them.
MCRegions == {1, 2, 3, 5, 6, 7}
MCBootData == {0, 2, 4}

VARIABLES part,
          hdr, heap_end, heap_total, heap_used, live, pc, size, left, \* Kheap
          m, procs, heap                                              \* AddrSpace

Heap == INSTANCE Kheap WITH
  Page <- 48, InitialPages <- 2, GrowPages <- 2, MaxPages <- 4, Sizes <- {1, 30, 70}

\* Memory for two processes and a growing heap, and memory so large that it
\* reaches the table of the user window
Space == INSTANCE AddrSpace WITH
  Tables <- 5, Entries <- 8, IdTables <- 2, WindowPD <- 2, HeapPD <- 3, ScratchPD <- 4,
  MaxProcs <- 2, MaxHeap <- 3
Large == INSTANCE AddrSpace WITH
  Tables <- 5, Entries <- 8, IdTables <- 3, WindowPD <- 2, HeapPD <- 3, ScratchPD <- 4,
  MaxProcs <- 2, MaxHeap <- 2

ASSUME Heap!KheapAssumption
ASSUME Space!PagingAssumption /\ Space!AddrSpaceAssumption
ASSUME Large!PagingAssumption /\ Large!AddrSpaceAssumption

heapVars == <<hdr, heap_end, heap_total, heap_used, live, pc, size, left>>
spaceVars == <<m, procs, heap>>
mcVars == <<part, vars, heapVars, spaceVars>>

MCInit ==
  /\ Init /\ Heap!Init
  /\ \/ part \in {"frames", "heap", "space"} /\ Space!Init
     \/ part = "large" /\ Large!Init

MCNext ==
  \/ part = "frames" /\ Next /\ UNCHANGED <<part, heapVars, spaceVars>>
  \/ part = "heap" /\ Heap!Next /\ UNCHANGED <<part, vars, spaceVars>>
  \/ part = "space" /\ Space!Next /\ UNCHANGED <<part, vars, heapVars>>
  \/ part = "large" /\ Large!Next /\ UNCHANGED <<part, vars, heapVars>>

MCSpec == MCInit /\ [][MCNext]_mcVars
-----------------------------------------------------------------------------
(* The heap; kheap.c *)

\* The list of blocks stays well formed through every order of splits (kmalloc),
\* coalescings (kfree) and growth: it tiles the heap, has no two free blocks side
\* by side and is what heap_used counts.
HeapConsistent == Heap!HeapConsistent

\* The used blocks are those callers of kmalloc hold, large enough and aligned.
LiveBlocksUsed == Heap!LiveBlocksUsed
-----------------------------------------------------------------------------
(* Address spaces; paging.c and the spawning and reaping of process.c *)

\* No table user mode can reach through one directory is part of another one, and
\* the pages it can reach are the process's own code and stack page, whatever
\* paging_map_page_in_directory and paging_clone_kernel_directory failed at.
Isolated == IF part = "large" THEN Large!Isolated ELSE Space!Isolated

\* The heap is mapped in whatever directory process_task_entry has loaded, and the
\* identity map, through which tables are edited, in every directory. (In the large
\* memory it contains the window, which the directories do not share.)
KernelReachable == IF part = "large" THEN Large!HeapReachable ELSE Space!KernelReachable

\* Failed spawns and process_reap_user_resources leave no frame behind and free
\* none that is in use. (In the large memory the kernel's window shows identity
\* pages, which nobody allocated.)
FramesAccounted == IF part = "large" THEN Large!NothingDangles ELSE Space!FramesAccounted
=============================================================================
