------------------------------- MODULE Paging -------------------------------
(***************************************************************************)
(* Page directories and tables, kernel/paging.c, as operators on a machine *)
(* s with the fields                                                       *)
(*   pdes   the present directory entries: [dir, pd, table, user]          *)
(*   ptes   the present table entries: [table, pt, frame, user]            *)
(*   cur    paging_current_dir_phys                                        *)
(*   used   the allocated frames                                           *)
(* A virtual page is <<pd, pt>>. An operator that can fail returns the     *)
(* machine with ok set to what the C function returns.                     *)
(***************************************************************************)
EXTENDS Integers, FiniteSets

CONSTANTS Tables,    \* entries of a directory: its indices are 0..Tables-1
          Entries,   \* entries of a table
          IdTables   \* tables of the identity map, which covers all frames

PagingAssumption ==
  /\ Entries \in Nat \ {0}
  /\ IdTables \in Nat \ {0}
  /\ Tables \in Nat /\ Tables >= IdTables

PD == 0..(Tables - 1)
PT == 0..(Entries - 1)
Pages == PD \X PT
Frames == 1..(IdTables * Entries - 1) \* frame 0 is never handed out
KernelDir == 0                        \* page_directory is not a frame of the pool

Failed(s) == [s EXCEPT !.ok = FALSE]
Done(s) == [s EXCEPT !.ok = TRUE]
-----------------------------------------------------------------------------
(* pmm.c as Pmm shows it: the lowest free frame, or 0 *)

pmm_alloc_frame(s) ==
  LET free == Frames \ s.used
  IN  IF free = {} THEN 0 ELSE CHOOSE f \in free : \A g \in free : f <= g

Taken(s, f) == [s EXCEPT !.used = @ \cup ({f} \ {0})]

\* What a directory or table in the frame held is forgotten with it; entries that
\* still refer to the frame stay.
pmm_free_frame(s, f) ==
  IF f = 0 THEN s
  ELSE [s EXCEPT !.used = @ \ {f},
                 !.pdes = {e \in @ : e.dir # f},
                 !.ptes = {e \in @ : e.table # f}]
-----------------------------------------------------------------------------
\* The entries that translate page v in directory d: none or one each
PdesOf(s, d, v) == {e \in s.pdes : e.dir = d /\ e.pd = v[1]}
PtesOf(s, d, v) == {e \in s.ptes : e.pt = v[2] /\ \E p \in PdesOf(s, d, v) : p.table = e.table}

\* The directory has a table for the page. A user mapping makes the whole entry
\* accessible to user mode, before the page itself is looked at.
PdeReady_FlagLate(s, v, user) ==
  LET t == pmm_alloc_frame(s)
  IN  IF PdesOf(s, s.cur, v) # {} THEN Done(s)
      ELSE IF t = 0 THEN Failed(s)
      ELSE Done([Taken(s, t) EXCEPT !.pdes = @ \cup
                   {[dir |-> s.cur, pd |-> v[1], table |-> t, user |-> user]}])
PdeReady(s, v, user) ==
  LET old == PdesOf(s, s.cur, v)
      t == pmm_alloc_frame(s)
  IN  IF old # {}
      THEN Done([s EXCEPT !.pdes = (@ \ old) \cup {[e EXCEPT !.user = @ \/ user] : e \in old}])
      ELSE IF t = 0 THEN Failed(s)
      ELSE Done([Taken(s, t) EXCEPT !.pdes = @ \cup
                   {[dir |-> s.cur, pd |-> v[1], table |-> t, user |-> user]}])

paging_map_page(s, v, f, user) ==
  LET r == PdeReady(s, v, user)
  IN  IF ~r.ok \/ PtesOf(r, s.cur, v) # {} THEN Failed(r)
      ELSE [r EXCEPT !.ptes = @ \cup {[table |-> e.table, pt |-> v[2], frame |-> f, user |-> user] :
                                        e \in PdesOf(r, s.cur, v)}]

paging_unmap_page(s, v) ==
  IF PtesOf(s, s.cur, v) = {} THEN Failed(s)
  ELSE Done([s EXCEPT !.ptes = @ \ PtesOf(s, s.cur, v)])

\* The frame page v has in directory d, 0 if it is not mapped
FrameOf(s, d, v) ==
  IF PtesOf(s, d, v) = {} THEN 0 ELSE (CHOOSE e \in PtesOf(s, d, v) : TRUE).frame

paging_translate(s, v) == FrameOf(s, s.cur, v)

\* paging_user_accessible for one page: both entries carry the flag.
paging_user_accessible(s, d, v) ==
  /\ \E e \in PdesOf(s, d, v) : e.user
  /\ \E e \in PtesOf(s, d, v) : e.user

\* paging_clone_kernel_directory, into the frame d that pmm_alloc_frame returns.
KeptInClone_Identity(e) == e.pd < IdTables
KeptInClone(e) == ~e.user

paging_clone_kernel_directory(s) ==
  LET d == pmm_alloc_frame(s)
      kernel == {e \in s.pdes : e.dir = KernelDir /\ KeptInClone(e)}
  IN  IF d = 0 THEN Failed(s)
      ELSE Done([Taken(s, d) EXCEPT !.pdes = @ \cup {[e EXCEPT !.dir = d] : e \in kernel}])

paging_switch_directory(s, d) == [s EXCEPT !.cur = d]

\* paging_init: the tables of the identity map are in the first frames.
paging_init ==
  [ok |-> TRUE, cur |-> KernelDir, used |-> 1..IdTables,
   pdes |-> {[dir |-> KernelDir, pd |-> t - 1, table |-> t, user |-> FALSE] : t \in 1..IdTables},
   ptes |-> {[table |-> t, pt |-> e, frame |-> (t - 1) * Entries + e, user |-> FALSE] :
               t \in 1..IdTables, e \in PT}]
=============================================================================
