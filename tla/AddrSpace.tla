----------------------------- MODULE AddrSpace ------------------------------
(***************************************************************************)
(* The address spaces of the kernel and of its processes: the directories  *)
(* and tables of paging.c as process.c, kheap.c, usermode.c and the vm     *)
(* commands of the shell change them.                                      *)
(*                                                                         *)
(* Interrupt handlers do not touch paging state and no function here       *)
(* yields, so a spawn, a reap and a command are one step each. The heap    *)
(* grows inside whichever of them calls kmalloc, in the directory that is  *)
(* loaded then.                                                            *)
(***************************************************************************)
EXTENDS Paging

CONSTANTS WindowPD,  \* directory entry of the user window, 0x40000000
          HeapPD,    \* directory entry of KHEAP_START
          ScratchPD, \* directory entry of the pages the shell's vmmap is used on
          MaxProcs,  \* PROCESS_MAX, without the kernel's own entry
          MaxHeap    \* bound: pages of the heap

AddrSpaceAssumption ==
  /\ {WindowPD, HeapPD, ScratchPD} \subseteq PD
  /\ HeapPD >= IdTables /\ ScratchPD >= IdTables
  /\ MaxProcs \in Nat
  /\ MaxHeap \in Nat \ {0}

VARIABLES m,     \* the machine of Paging
          procs, \* process_table: directory and frames of each user process
          heap   \* pages of the heap, (heap_end - KHEAP_START) / 4096

vars == <<m, procs, heap>>

Slots == 1..MaxProcs
NoProc == [cr3 |-> 0, code |-> 0, stack |-> 0, state |-> "none"]
CodePage == <<WindowPD, 0>>
StackPage == <<WindowPD, 1>>
HeapPage(k) == <<HeapPD + k \div Entries, k % Entries>>

\* kheap_init with one page, then usermode_prepare, on a machine with room for both
MapNew(s, v, user) == LET f == pmm_alloc_frame(s) IN paging_map_page(Taken(s, f), v, f, user)

usermode_prepare(s) ==
  LET code == pmm_alloc_frame(s)
      stack == pmm_alloc_frame(Taken(s, code))
      a == Taken(Taken(s, code), stack)
      b == paging_map_page(a, CodePage, code, TRUE)
      c == paging_map_page(b, StackPage, stack, TRUE)
  IN  IF b.ok THEN c ELSE pmm_free_frame(pmm_free_frame(b, stack), code)

Init ==
  /\ m = Done(usermode_prepare(MapNew(paging_init, HeapPage(0), FALSE)))
  /\ procs = [i \in Slots |-> NoProc]
  /\ heap = 1
-----------------------------------------------------------------------------
(***************************************************************************)
(* heap_map_more for one page: s and h are the machine and the page count  *)
(* before it. kmalloc asks for more only when no block is large enough.    *)
(***************************************************************************)
heap_map_more(s, h) ==
  LET r == MapNew(s, HeapPage(h), FALSE)
  IN  IF pmm_alloc_frame(s) = 0 THEN [m |-> Failed(s), heap |-> h]
      ELSE [m |-> r, heap |-> IF r.ok THEN h + 1 ELSE h]

\* The outcomes of a kmalloc: a block is there, or the heap grows, or it cannot.
kmalloc(s, h) ==
  {[m |-> Done(s), heap |-> h]} \cup (IF h < MaxHeap THEN {heap_map_more(s, h)} ELSE {})

\* The kmalloc command, vfs.c or a kernel task's stack. User processes may not make
\* the system calls that allocate, so the kernel's directory is loaded.
Grow ==
  /\ m.cur = KernelDir
  /\ \E r \in kmalloc(m, heap) : m' = Done(r.m) /\ heap' = r.heap /\ UNCHANGED procs
-----------------------------------------------------------------------------
process_release_user_table(s, d) ==
  LET empty == {e \in PdesOf(s, d, CodePage) : e.user /\ \A x \in s.ptes : x.table # e.table}
  IN  IF empty = {} THEN s
      ELSE LET e == CHOOSE x \in empty : TRUE
           IN  pmm_free_frame([s EXCEPT !.pdes = @ \ {e}], e.table)

\* Both pages of the window, in the loaded directory
UnmapWindow(s) == paging_unmap_page(paging_unmap_page(s, CodePage), StackPage)

process_unmap_user_pages(s, d) ==
  LET a == UnmapWindow(paging_switch_directory(s, d))
  IN  process_release_user_table(paging_switch_directory(a, s.cur), d)

FreeFrames(s, code, stack, d) ==
  pmm_free_frame(pmm_free_frame(pmm_free_frame(s, stack), code), d)

(***************************************************************************)
(* process_build_user_image after the clone: unmap what was inherited,     *)
(* allocate and map the code and the stack page, load the image through a  *)
(* heap block. Its failure path undoes what it mapped and allocated. Each  *)
(* outcome is the machine with the loaded directory still d, and ok.       *)
(***************************************************************************)
BuiltPages(s, code, stack) ==
  LET a == paging_map_page(s, CodePage, code, TRUE)
      b == paging_map_page(a, StackPage, stack, TRUE)
  IN  IF ~a.ok THEN a ELSE b

UndoBuild_TableKept(s, d, code, stack) ==
  Failed(pmm_free_frame(pmm_free_frame(UnmapWindow(s), stack), code))
UndoBuild(s, d, code, stack) ==
  LET mapped == FrameOf(s, d, CodePage) = code /\ code # 0
      a == IF mapped THEN process_release_user_table(UnmapWindow(s), d) ELSE s
  IN  Failed(pmm_free_frame(pmm_free_frame(a, stack), code))

process_build_user_image(s, h, d) ==
  LET a == UnmapWindow(paging_switch_directory(s, d))
      code == pmm_alloc_frame(a)
      stack == pmm_alloc_frame(Taken(a, code))
      b == Taken(Taken(a, code), stack)
      c == BuiltPages(b, code, stack)
      result(x, k, ok) ==
        [m |-> IF ok THEN Done(x) ELSE UndoBuild(x, d, code, stack),
         heap |-> k, code |-> code, stack |-> stack]
  IN  IF code = 0 \/ stack = 0 THEN {result(b, h, FALSE)}
      ELSE IF ~c.ok THEN {result(c, h, FALSE)}
      ELSE {result(r.m, r.heap, TRUE) : r \in kmalloc(c, h)}
             \cup {result(r.m, r.heap, FALSE) : r \in {x \in kmalloc(c, h) : x.m.ok}}

\* process_spawn_common for a user process; the stack of its task comes from the heap.
Spawn(i) ==
  LET d == pmm_alloc_frame(m)
      s == paging_clone_kernel_directory(m)
  IN  /\ m.cur = KernelDir
      /\ procs[i].state = "none"
      /\ IF ~s.ok THEN UNCHANGED vars
         ELSE \E b \in process_build_user_image(s, heap, d) :
                LET back == paging_switch_directory(b.m, m.cur)
                IN  IF ~b.m.ok
                    THEN m' = Done(pmm_free_frame(back, d)) /\ heap' = b.heap /\ UNCHANGED procs
                    ELSE \E r \in kmalloc(back, b.heap) \cup {[m |-> Failed(back), heap |-> b.heap]} :
                           /\ heap' = r.heap
                           /\ IF r.m.ok
                              THEN /\ m' = r.m
                                   /\ procs' = [procs EXCEPT ![i] =
                                        [cr3 |-> d, code |-> b.code, stack |-> b.stack, state |-> "live"]]
                              ELSE /\ m' = Done(FreeFrames(process_unmap_user_pages(r.m, d),
                                                           b.code, b.stack, d))
                                   /\ UNCHANGED procs

\* process_activate_tid when the scheduler takes the process, and when it leaves it
Run(i) ==
  /\ m.cur = KernelDir
  /\ procs[i].state = "live"
  /\ m' = paging_switch_directory(m, procs[i].cr3)
  /\ UNCHANGED <<procs, heap>>

Leave(i, ended) ==
  /\ procs[i].state = "live" /\ m.cur = procs[i].cr3
  /\ m' = paging_switch_directory(m, KernelDir)
  /\ procs' = [procs EXCEPT ![i].state = IF ended THEN "zombie" ELSE "live"]
  /\ UNCHANGED heap

\* process_reap for one zombie
Reap(i) ==
  /\ m.cur = KernelDir
  /\ procs[i].state = "zombie"
  /\ m' = Done(FreeFrames(process_unmap_user_pages(m, procs[i].cr3),
                          procs[i].code, procs[i].stack, procs[i].cr3))
  /\ procs' = [procs EXCEPT ![i] = NoProc]
  /\ UNCHANGED heap
-----------------------------------------------------------------------------
(* The shell's vmmap and vmunmap, on a page that nothing else uses *)

vmmap(f) ==
  /\ m.cur = KernelDir
  /\ m' = Done(paging_map_page(m, <<ScratchPD, 0>>, f, FALSE))
  /\ UNCHANGED <<procs, heap>>

vmunmap ==
  /\ m.cur = KernelDir
  /\ m' = Done(paging_unmap_page(m, <<ScratchPD, 0>>))
  /\ UNCHANGED <<procs, heap>>

Next ==
  \/ Grow
  \/ \E i \in Slots : Spawn(i) \/ Run(i) \/ Leave(i, TRUE) \/ Leave(i, FALSE) \/ Reap(i)
  \/ vmmap(1) \/ vmunmap

Spec == Init /\ [][Next]_vars
-----------------------------------------------------------------------------
Live == {i \in Slots : procs[i].state # "none"}
Directories == {KernelDir} \cup {procs[i].cr3 : i \in Live}
UserPages(d) == {v \in Pages : paging_user_accessible(m, d, v)}

\* "User-space PDEs must not be shared across address spaces": no table user mode
\* can reach through one directory is part of another one, and the pages it can
\* reach are the process's own code and stack page, in frames of its own.
Isolated ==
  /\ \A e, f \in m.pdes : e.user /\ e.dir # f.dir => e.table # f.table
  /\ \A i \in Live :
       /\ {<<v, FrameOf(m, procs[i].cr3, v)>> : v \in UserPages(procs[i].cr3)}
            = {<<CodePage, procs[i].code>>, <<StackPage, procs[i].stack>>}
       /\ \A j \in Live \ {i} : {procs[i].code, procs[i].stack} \cap {procs[j].code, procs[j].stack} = {}

\* The heap is mapped in the directory that is loaded: kernel code that runs for
\* one process reads blocks that were allocated while another one was loaded.
HeapReachable == \A k \in 0..(heap - 1) : paging_translate(m, HeapPage(k)) # 0

\* All of physical memory is where the kernel looks for it, at its own address, in
\* every directory: tables and directories are edited through that mapping.
IdentityReachable ==
  \A d \in Directories : \A f \in Frames : FrameOf(m, d, <<f \div Entries, f % Entries>>) = f

\* The kernel finds its heap and all of physical memory whatever is loaded.
KernelReachable == HeapReachable /\ IdentityReachable

\* What the entries of the directories in use refer to is allocated.
NothingDangles ==
  /\ m.cur \in Directories
  /\ m.used \subseteq Frames
  /\ m.pdes \subseteq [dir : Directories, pd : PD, table : m.used, user : BOOLEAN]
  /\ m.ptes \subseteq [table : m.used, pt : PT, frame : Frames \cup {0}, user : BOOLEAN]

\* Every allocated frame is a directory, a table some directory refers to, a page
\* of the heap or of a user: failed spawns and reaped processes leave none behind,
\* and none that is in use is free.
FramesAccounted ==
  /\ NothingDangles
  /\ m.used =
       (Directories
        \cup {e.table : e \in m.pdes}
        \cup {FrameOf(m, d, v) : d \in Directories, v \in {CodePage, StackPage}}
        \cup {FrameOf(m, KernelDir, HeapPage(k)) : k \in 0..(heap - 1)}) \ {0}
=============================================================================
