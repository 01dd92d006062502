--------------------------- MODULE ProcessProofs ----------------------------
(***************************************************************************)
(* Proofs about processes, for every size of the two tables and of memory, *)
(* whatever the heap takes, and any set of stack blocks.                   *)
(*                                                                         *)
(* The properties of Process hold only together, and only because of where *)
(* task 0 is: frames are accounted for while it is in the middle of a      *)
(* spawn, a task slot may be reused because it has reaped just before, the *)
(* directory is right because no one else runs while it builds an image.   *)
(* IInv says what is true at each of its program points.                   *)
(*                                                                         *)
(* This module defines IInv and shows what the steps have in common: how   *)
(* frames change hands, and what is left to show of a step of task 0.      *)
(* ProcessLoopProofs, ProcessSpawnProofs and ProcessTaskProofs show that   *)
(* the steps preserve IInv, given a few facts (Given) that rest on the     *)
(* scheduler's own proofs and on theorems about finite sets;               *)
(* ProcessTheorems supplies these facts and concludes.                     *)
(***************************************************************************)
EXTENDS Process, TLAPS

\* The provers are given time: the context of an obligation is large.
USE SMTT(60)

\* An address space that is complete: its frames are there and its window maps
\* them.
Built(e, dirs, tables) ==
  /\ e.cr3 \in Frames /\ e.code \in Frames /\ e.stack \in Frames
  /\ dirs[e.cr3] \in Frames
  /\ tables[dirs[e.cr3]] = [code |-> e.code, stack |-> e.stack]

SharesKernelSpace(e) == e.cr3 = KernelDir /\ e.code = NoFrame /\ e.stack = NoFrame

Spaced(e, dirs, tables) ==
  IF e.is_kernel THEN SharesKernelSpace(e) ELSE Built(e, dirs, tables)

\* Entry 0 is the kernel's; another one is cleared, or has a task other than
\* task 0, and a complete address space or the kernel's.
Formed(e, dirs, tables) ==
  \/ e = NoEntry
  \/ e.active /\ e.tid # 0 /\ Spaced(e, dirs, tables)

EntriesFormed ==
  /\ process_table[0] = KernelEntry
  /\ \A s \in Slots \ {0} : Formed(process_table[s], pde, pte)

\* What process_spawn_common has done at each of its points.
LocalsFormed ==
  /\ pc \notin SpawnPcs => sp = NoLocals
  /\ pc \in SpawnPcs => ~process_table[sp.slot].active
  /\ pc \in SpawnPcs \ {"create"} => ~sp.is_kernel
  /\ pc = "clone" => sp.cr3 = NoFrame /\ sp.code = NoFrame /\ sp.stack = NoFrame
  /\ pc = "frames" => /\ sp.cr3 \in Frames /\ pde[sp.cr3] = NoFrame
                      /\ sp.code = NoFrame /\ sp.stack = NoFrame
  /\ pc = "map" => /\ sp.cr3 \in Frames /\ pde[sp.cr3] = NoFrame
                   /\ sp.code \in Frames /\ sp.stack \in Frames
  /\ pc = "image" => Built(sp, pde, pte)
  /\ pc = "fail" => sp.cr3 \in Frames /\ pde[sp.cr3] \in Frames \cup {NoFrame}
  /\ pc = "create" => Spaced(sp, pde, pte)

KernelWindow == pde[KernelDir] = KernelTable /\ pte[KernelTable] = KernelPages

\* The frames of every holder, by role, and the claim of FramesAccounted about
\* them without counting: no frame has two uses, none that is used is free or
\* the heap's, and every other one is the one or the other.
Four(dir, table, code, stack) ==
  [r \in Roles |-> IF r = "dir" THEN dir ELSE IF r = "table" THEN table
                   ELSE IF r = "code" THEN code ELSE stack]
FrameMap ==
  [h \in Holders |-> Four(Locals(h).cr3, UserTable(Locals(h).cr3), Locals(h).code, Locals(h).stack)]

Partitioned(F, pool, grown) ==
  /\ \A h, g \in Holders, r, q \in Roles :
       F[h][r] \in Frames /\ F[h][r] = F[g][q] => h = g /\ r = q
  /\ \A h \in Holders, r \in Roles : F[h][r] \notin pool /\ F[h][r] \notin grown
  /\ pool \cap grown = {}
  /\ \A f \in Frames : f \in pool \/ f \in grown \/ \E h \in Holders, r \in Roles : F[h][r] = f

FramesPartitioned == Partitioned(FrameMap, free, heap_frames)

\* Task 0 leaves the CPU only inside a yield, and no other task runs while it is
\* in the middle of something.
Control ==
  /\ current_task # 0 => pc \in {"reap", "demo"} /\ (pc = "reap" => i = 0)
  /\ current_task = 0 => mode = "kernel"
  /\ mode = "user" => esp0 = current_task
  /\ kind[0] = "kernel"
  /\ ~UserFaults => iflag

Building == pc \in {"map", "image", "fail"}
EntryOf(s, t) == process_table[s].active /\ process_table[s].tid = t

\* The directory loaded is the current task's, or the one under construction.
DirectoryRight ==
  IF Building THEN cr3 = sp.cr3
  ELSE \/ \E s \in Slots : EntryOf(s, current_task) /\ process_table[s].cr3 = cr3
       \/ cr3 = KernelDir /\ \A s \in Slots : ~EntryOf(s, current_task)

UserTasksHaveEntries ==
  \A t \in S!Tasks : kind[t] = "user" /\ state[t] \in {"RUNNABLE", "RUNNING"} =>
    \E s \in Slots : EntryOf(s, t)

\* process_reap has dealt with every process that ended before task 0 creates a
\* task, and during its loop with the entries before i.
Dead(s) == process_table[s].active /\ state[process_table[s].tid] = "ZOMBIE"
ReapedPcs == SpawnPcs \cup {"getchar", "hlt", "batch", "taskdemo", "taskdemo2"}
Reaped ==
  /\ pc \in ReapedPcs => \A s \in Slots : ~Dead(s)
  /\ pc = "reap" => \A s \in 0..(i - 1) : ~Dead(s)

SchedulerInv ==
  /\ S!TypeOK /\ S!OnlyCurrentRuns /\ state[0] \in {"RUNNING", "RUNNABLE"}
  /\ S!StacksOwned /\ S!ExpiryPending

IInv ==
  /\ TypeOK /\ SchedulerInv
  /\ Control /\ EntriesFormed /\ LocalsFormed /\ KernelWindow
  /\ FramesPartitioned
  /\ DirectoryRight
  /\ EntriesMatchTasks /\ UserTasksHaveEntries /\ Reaped
  /\ PidsUnique

\* Yields and exits end no task but the current one, and free none.
TasksKept ==
  \A t \in S!Tasks : /\ state'[t] = "UNUSED" <=> state[t] = "UNUSED"
                     /\ state[t] = "ZOMBIE" => state'[t] = "ZOMBIE"

LeastNumbers == \A T \in SUBSET Nat : T # {} => Min(T) \in T

\* process_alloc_pid tries one pid more than there are slots.
MoreTriesThanSlots == \A f \in [PidTries -> Slots] : \E a, b \in PidTries : a # b /\ f[a] = f[b]

\* What the lemmas below take from elsewhere.
Given ==
  /\ LeastNumbers
  /\ SchedulerInv'
  /\ S!scheduler_yield \/ S!scheduler_exit_current => TasksKept
  /\ MoreTriesThanSlots
-----------------------------------------------------------------------------
(* Constants and the frame accounts *)

LEMMA Constants ==
  /\ NoFrame \notin Frames /\ KernelDir \notin Frames /\ KernelTable \notin Frames
  /\ KernelDir # NoFrame /\ KernelTable # NoFrame
  /\ 0 \in Slots /\ ProcessMax \notin Slots /\ Holders = Slots \cup {ProcessMax}
  /\ 0 \in S!Tasks
  /\ Frames \subseteq Nat /\ Slots \subseteq Nat
BY ProcessAssumption DEF NoFrame, Frames, KernelDir, KernelTable, Slots, Holders, S!Tasks

LEMMA FourAt ==
  ASSUME NEW a, NEW b, NEW c, NEW d
  PROVE  /\ Four(a, b, c, d)["dir"] = a /\ Four(a, b, c, d)["table"] = b
         /\ Four(a, b, c, d)["code"] = c /\ Four(a, b, c, d)["stack"] = d
BY DEF Four, Roles

LEMMA FourIn ==
  ASSUME NEW a, NEW b, NEW c, NEW d, NEW r \in Roles
  PROVE  Four(a, b, c, d)[r] \in {a, b, c, d}
BY DEF Four

\* The spawn in progress takes frames of the pool for roles it had none for.
Takes(F, G, pool, pool2) ==
  /\ \A h \in Holders \ {ProcessMax} : G[h] = F[h]
  /\ \A r \in Roles : \/ G[ProcessMax][r] = F[ProcessMax][r]
                      \/ F[ProcessMax][r] = NoFrame /\ G[ProcessMax][r] \in pool \cup {NoFrame}
  /\ \A r, q \in Roles : G[ProcessMax][r] \in pool /\ G[ProcessMax][r] = G[ProcessMax][q] => r = q
  /\ \A f : f \in pool2 <=> f \in pool /\ \A r \in Roles : G[ProcessMax][r] # f

LEMMA PartitionTake ==
  ASSUME NEW F, NEW G, NEW pool \in SUBSET Frames, NEW pool2, NEW grown \in SUBSET Frames,
         Partitioned(F, pool, grown), Takes(F, G, pool, pool2)
  PROVE  Partitioned(G, pool2, grown)
<1> USE DEF Takes
<1>1. ProcessMax \in Holders /\ NoFrame \notin Frames
  BY Constants
<1>2. \A h \in Holders, r \in Roles : G[h][r] \notin pool2 /\ G[h][r] \notin grown
  BY <1>1 DEF Partitioned
<1>3. \A h, g \in Holders, r, q \in Roles :
        G[h][r] \in Frames /\ G[h][r] = G[g][q] => h = g /\ r = q
  BY <1>1 DEF Partitioned
<1>4. \A f \in Frames : f \in pool2 \/ f \in grown \/ \E h \in Holders, r \in Roles : G[h][r] = f
  <2> SUFFICES ASSUME NEW f \in Frames PROVE f \in pool2 \/ f \in grown \/ \E h \in Holders, r \in Roles : G[h][r] = f
    OBVIOUS
  <2>1. CASE f \in pool
    BY <1>1, <2>1
  <2>2. CASE \E h \in Holders, r \in Roles : F[h][r] = f
    BY <1>1, <2>2
  <2> QED
    BY <2>1, <2>2 DEF Partitioned
<1> QED
  BY <1>2, <1>3, <1>4 DEF Partitioned

\* The same, role by role: a, b, c and d become a2, b2, c2 and d2.
Taken(pool, a, b, c, d, a2, b2, c2, d2) ==
  /\ a2 = a \/ (a = NoFrame /\ a2 \in pool)
  /\ b2 = b \/ (b = NoFrame /\ b2 \in pool)
  /\ c2 = c \/ (c = NoFrame /\ c2 \in pool)
  /\ d2 = d \/ (d = NoFrame /\ d2 \in pool)
  /\ a2 \in pool => a2 \notin {b2, c2, d2}
  /\ b2 \in pool => b2 \notin {c2, d2}
  /\ c2 \in pool => c2 # d2

LEMMA FourTakes ==
  ASSUME NEW F, NEW G, \A h \in Holders \ {ProcessMax} : G[h] = F[h],
         NEW pool, NEW a, NEW b, NEW c, NEW d, NEW a2, NEW b2, NEW c2, NEW d2,
         Taken(pool, a, b, c, d, a2, b2, c2, d2),
         F[ProcessMax] = Four(a, b, c, d), G[ProcessMax] = Four(a2, b2, c2, d2)
  PROVE  Takes(F, G, pool, pool \ {a2, b2, c2, d2})
<1> USE DEF Taken
<1>1. \A r \in Roles : r = "dir" \/ r = "table" \/ r = "code" \/ r = "stack"
  BY DEF Roles
<1>2. "dir" \in Roles /\ "table" \in Roles /\ "code" \in Roles /\ "stack" \in Roles
  BY DEF Roles
<1> DEFINE new == G[ProcessMax]
           old == F[ProcessMax]
<1>3. /\ new["dir"] = a2 /\ new["table"] = b2 /\ new["code"] = c2 /\ new["stack"] = d2
      /\ old["dir"] = a /\ old["table"] = b /\ old["code"] = c /\ old["stack"] = d
  BY FourAt
<1>4. \A r \in Roles : new[r] = old[r] \/ (old[r] = NoFrame /\ new[r] \in pool \cup {NoFrame})
  BY <1>1, <1>3
<1>5. \A r, q \in Roles : new[r] \in pool /\ new[r] = new[q] => r = q
  BY <1>1, <1>3
<1>6. ASSUME NEW f
      PROVE  f \notin {a2, b2, c2, d2} <=> \A r \in Roles : new[r] # f
  BY <1>1, <1>2, <1>3
<1>7. \A f : f \in pool \ {a2, b2, c2, d2} <=> f \in pool /\ \A r \in Roles : new[r] # f
  BY <1>6
<1> QED
  BY <1>4, <1>5, <1>7 DEF Takes

\* A holder gives everything back.
Releases(F, G, H, pool, pool2) ==
  /\ \A h \in Holders \ {H} : G[h] = F[h]
  /\ \A r \in Roles : G[H][r] \notin Frames
  /\ \A f \in Frames : f \in pool2 <=> f \in pool \/ \E r \in Roles : F[H][r] = f

LEMMA PartitionRelease ==
  ASSUME NEW F, NEW pool, NEW grown \in SUBSET Frames, Partitioned(F, pool, grown),
         NEW H \in Holders, NEW G, NEW pool2 \in SUBSET Frames, Releases(F, G, H, pool, pool2)
  PROVE  Partitioned(G, pool2, grown)
BY DEF Partitioned, Releases

\* A holder passes what it has to one that has nothing.
Moves(F, G, H, K) ==
  /\ \A h \in Holders \ {H, K} : G[h] = F[h]
  /\ \A r \in Roles : F[K][r] \notin Frames
  /\ \A r \in Roles : G[H][r] \notin Frames
  /\ G[K] = F[H]

LEMMA PartitionMove ==
  ASSUME NEW F, NEW pool \in SUBSET Frames, NEW grown \in SUBSET Frames, Partitioned(F, pool, grown),
         NEW H \in Holders, NEW K \in Holders, H # K, NEW G, Moves(F, G, H, K)
  PROVE  Partitioned(G, pool, grown)
BY DEF Partitioned, Moves

\* The heap takes frames of the pool.
LEMMA PartitionGrow ==
  ASSUME NEW F, NEW pool, NEW grown, Partitioned(F, pool, grown), NEW g \in SUBSET pool
  PROVE  Partitioned(F, pool \ g, grown \cup g)
BY DEF Partitioned
-----------------------------------------------------------------------------
(* Entries, types and the operations of the scheduler *)

LEMMA EmptyFields ==
  /\ ~NoEntry.active /\ NoEntry.cr3 = NoFrame /\ NoEntry.code = NoFrame /\ NoEntry.stack = NoFrame
  /\ KernelEntry.active /\ KernelEntry.is_kernel /\ KernelEntry.cr3 = KernelDir /\ KernelEntry.tid = 0
  /\ KernelEntry.code = NoFrame /\ KernelEntry.stack = NoFrame /\ KernelEntry.pid = 1
  /\ NoLocals.cr3 = NoFrame /\ NoLocals.code = NoFrame /\ NoLocals.stack = NoFrame
BY DEF NoEntry, KernelEntry, NoLocals

LEMMA ActiveHasDirectory ==
  ASSUME NEW e, NEW dirs, NEW tables, e = KernelEntry \/ Formed(e, dirs, tables), e.active
  PROVE  e.cr3 # NoFrame
BY Constants, EmptyFields DEF Formed, Spaced, SharesKernelSpace, Built

LEMMA LeastIn ==
  ASSUME LeastNumbers, NEW T \in SUBSET Nat, T # {}
  PROVE  Min(T) \in T
BY DEF LeastNumbers

\* The operations of the scheduler's interface that process.c and task 0 call
\* directly, as far as processes depend on them.
LEMMA CreateEffect ==
  ASSUME IInv, NEW t \in S!Tasks, NEW b \in Stacks, S!scheduler_create_task(t, b)
  PROVE  /\ t # 0 /\ state[t] \in {"UNUSED", "ZOMBIE"}
         /\ state' = [state EXCEPT ![t] = "RUNNABLE"]
         /\ state \in [S!Tasks -> S!States]
         /\ current_task' = current_task
BY DEF S!scheduler_create_task, S!CreateSlot, S!Reusable, IInv, SchedulerInv, S!TypeOK

LEMMA ReapEffect ==
  ASSUME IInv, NEW t, S!scheduler_reap_task(t)
  PROVE  /\ t # 0 /\ state[t] = "ZOMBIE"
         /\ state' = [state EXCEPT ![t] = "UNUSED"]
         /\ state \in [S!Tasks -> S!States]
         /\ current_task' = current_task
BY DEF S!scheduler_reap_task, IInv, SchedulerInv, S!TypeOK

LEMMA TickEffect ==
  ASSUME S!scheduler_on_tick
  PROVE  state' = state /\ current_task' = current_task
BY DEF S!scheduler_on_tick

\* The types of everything but the scheduler's variables.
RestTypes ==
  /\ kind \in [S!Tasks -> {"kernel", "user"}]
  /\ process_table \in
       [Slots -> [active : BOOLEAN, pid : 0..(PidMod - 1), tid : S!Tasks,
                  cr3 : Frames \cup {NoFrame, KernelDir},
                  code : Frames \cup {NoFrame}, stack : Frames \cup {NoFrame},
                  is_kernel : BOOLEAN]]
  /\ next_pid \in 2..(PidMod - 1)

MemoryTypes ==
  /\ free \subseteq Frames
  /\ heap_frames \subseteq Frames
  /\ pde \in [Frames \cup {KernelDir} -> Frames \cup {NoFrame, KernelTable}]
  /\ pte \in [Frames \cup {KernelTable} -> [Pages -> 0..(NFrames + 4)]]

CpuTypes ==
  /\ cr3 \in Frames \cup {KernelDir}
  /\ mode \in {"kernel", "user", "stopped"}
  /\ iflag \in BOOLEAN
  /\ esp0 \in S!Tasks

ShellTypes ==
  /\ pc \in SpawnPcs \cup {"poll", "reap", "getchar", "hlt", "batch", "taskdemo", "taskdemo2", "demo"}
  /\ after \in {"getchar", "batch"}
  /\ i \in Slots
  /\ sp \in [slot : Slots, is_kernel : BOOLEAN, cr3 : Frames \cup {NoFrame, KernelDir},
             code : Frames \cup {NoFrame}, stack : Frames \cup {NoFrame}]

LEMMA TypeParts ==
  /\ TypeOK <=> S!TypeOK /\ RestTypes /\ MemoryTypes /\ CpuTypes /\ ShellTypes
  /\ TypeOK' <=> S!TypeOK' /\ RestTypes' /\ MemoryTypes' /\ CpuTypes' /\ ShellTypes'
BY DEF TypeOK, RestTypes, MemoryTypes, CpuTypes, ShellTypes

LEMMA TablesKept ==
  ASSUME IInv, UNCHANGED procs, TasksKept
  PROVE  EntriesMatchTasks' /\ UserTasksHaveEntries'
<1>1. \A s \in Slots : process_table[s].tid \in S!Tasks
  BY DEF IInv, TypeOK
<1>2. EntriesMatchTasks'
  BY <1>1 DEF IInv, EntriesMatchTasks, procs, TasksKept
<1>3. \A t \in S!Tasks : state[t] \in S!States
  BY DEF IInv, TypeOK, S!TypeOK
<1>4. \A t \in S!Tasks : state'[t] \in {"RUNNABLE", "RUNNING"} => state[t] \in {"RUNNABLE", "RUNNING"}
  BY <1>3 DEF S!States, TasksKept
<1>5. UserTasksHaveEntries'
  BY <1>4 DEF IInv, UserTasksHaveEntries, EntryOf, procs
<1> QED
  BY <1>2, <1>5

-----------------------------------------------------------------------------
(* What the invariant says about frames *)

LEMMA HolderFrames ==
  /\ \A h \in Holders : FrameMap[h] = Four(Locals(h).cr3, UserTable(Locals(h).cr3),
                                           Locals(h).code, Locals(h).stack)
  /\ \A h \in Holders : FrameMap'[h] = Four(Locals(h)'.cr3, UserTable(Locals(h).cr3)',
                                            Locals(h)'.code, Locals(h)'.stack)
BY DEF FrameMap

LEMMA MemoryIs ==
  IInv => MemoryTypes /\ RestTypes /\ CpuTypes /\ ShellTypes
BY TypeParts DEF IInv

\* The frames of one holder are not free and not another one's.
LEMMA Apart ==
  ASSUME IInv, NEW h \in Holders
  PROVE  /\ Locals(h).cr3 \notin free /\ UserTable(Locals(h).cr3) \notin free
         /\ Locals(h).code \notin free /\ Locals(h).stack \notin free
         /\ \A g \in Holders \ {h} :
              /\ Locals(h).cr3 \in Frames => Locals(h).cr3 # Locals(g).cr3
              /\ UserTable(Locals(h).cr3) \in Frames => UserTable(Locals(h).cr3) # UserTable(Locals(g).cr3)
<1>1. \A g \in Holders :
        /\ FrameMap[g]["dir"] = Locals(g).cr3 /\ FrameMap[g]["table"] = UserTable(Locals(g).cr3)
        /\ FrameMap[g]["code"] = Locals(g).code /\ FrameMap[g]["stack"] = Locals(g).stack
  BY HolderFrames, FourAt
<1> QED
  BY <1>1 DEF IInv, FramesPartitioned, Partitioned, Roles

OthersKept(H) == \A h \in Holders \ {H} : Locals(h)' = Locals(h)

\* The spawn in progress is a holder; the entries are the others.
LEMMA SpawnHolder ==
  /\ ProcessMax \in Holders /\ Locals(ProcessMax) = sp /\ Locals(ProcessMax)' = sp'
  /\ \A s \in Slots : s \in Holders /\ s # ProcessMax /\ Locals(s) = process_table[s]
  /\ UNCHANGED process_table => OthersKept(ProcessMax)
BY Constants DEF Locals, OthersKept

\* Nothing it holds is free.
LEMMA LocalsNotFree ==
  ASSUME IInv
  PROVE  /\ sp.cr3 \notin free /\ sp.code \notin free /\ sp.stack \notin free
         /\ NoFrame \notin free
<1>1. NoFrame \notin free
  BY MemoryIs, Constants DEF MemoryTypes
<1> QED
  BY <1>1, Apart, SpawnHolder

\* The directories of the other holders, and the tables of their windows, stay.
DirsKept(H) ==
  \A h \in Holders \ {H} : Locals(h).cr3 \in Frames => pde'[Locals(h).cr3] = pde[Locals(h).cr3]

LEMMA FramesKept ==
  ASSUME NEW H, OthersKept(H), DirsKept(H)
  PROVE  \A h \in Holders \ {H} : FrameMap'[h] = FrameMap[h]
<1>1. \A h \in Holders \ {H} : UserTable(Locals(h).cr3)' = UserTable(Locals(h).cr3)
  BY DEF UserTable, OthersKept, DirsKept
<1> QED
  BY <1>1, HolderFrames DEF OthersKept

SpaceKept(e, d, t, d2, t2) ==
  Built(e, d, t) => d2[e.cr3] = d[e.cr3] /\ t2[d[e.cr3]] = t[d[e.cr3]]

LEMMA FormedKept ==
  ASSUME NEW e, NEW d, NEW t, NEW d2, NEW t2, Formed(e, d, t), SpaceKept(e, d, t, d2, t2)
  PROVE  Formed(e, d2, t2)
BY DEF Formed, Spaced, Built, SpaceKept

LEMMA EntriesKept ==
  ASSUME IInv, UNCHANGED process_table, \A s \in Slots : SpaceKept(process_table[s], pde, pte, pde', pte')
  PROVE  EntriesFormed'
BY FormedKept DEF IInv, EntriesFormed

\* A holder without frames stays one.
HoldsNothing(l) == l.cr3 \in {NoFrame, KernelDir} /\ l.code = NoFrame /\ l.stack = NoFrame

LEMMA EmptyHolder ==
  ASSUME NEW H \in Holders
  PROVE  /\ HoldsNothing(Locals(H)) => \A r \in Roles : FrameMap[H][r] \notin Frames
         /\ HoldsNothing(Locals(H)') => \A r \in Roles : FrameMap'[H][r] \notin Frames
<1>1. ASSUME HoldsNothing(Locals(H)) PROVE \A r \in Roles : FrameMap[H][r] \notin Frames
  <2>1. UserTable(Locals(H).cr3) = NoFrame
    BY <1>1, Constants DEF HoldsNothing, UserTable
  <2> QED
    BY <1>1, <2>1, HolderFrames, FourIn, Constants DEF HoldsNothing
<1>2. ASSUME HoldsNothing(Locals(H)') PROVE \A r \in Roles : FrameMap'[H][r] \notin Frames
  <2>1. UserTable(Locals(H).cr3)' = NoFrame
    BY <1>2, Constants DEF HoldsNothing, UserTable
  <2> QED
    BY <1>2, <2>1, HolderFrames, FourIn, Constants DEF HoldsNothing
<1> QED
  BY <1>1, <1>2

LEMMA HeldNothing ==
  ASSUME NEW H \in Holders, HoldsNothing(Locals(H)), HoldsNothing(Locals(H)'), OthersKept(H), pde' = pde,
         NEW pool \in SUBSET Frames, NEW grown \in SUBSET Frames, Partitioned(FrameMap, pool, grown)
  PROVE  Partitioned(FrameMap', pool, grown)
<1>1. \A h \in Holders \ {H} : FrameMap'[h] = FrameMap[h]
  BY FramesKept DEF DirsKept
<1>2. Releases(FrameMap, FrameMap', H, pool, pool)
  BY <1>1, EmptyHolder DEF Releases
<1> QED
  BY <1>2, PartitionRelease

\* The spawn in progress takes frames; b and b2 are its table.
LEMMA SpawnTakes ==
  ASSUME IInv, UNCHANGED <<process_table, heap_frames>>, DirsKept(ProcessMax),
         NEW b, b = UserTable(sp.cr3), NEW b2, b2 = UserTable(sp.cr3)',
         Taken(free, sp.cr3, b, sp.code, sp.stack, sp'.cr3, b2, sp'.code, sp'.stack),
         free' = free \ {sp'.cr3, b2, sp'.code, sp'.stack}
  PROVE  FramesPartitioned'
<1>1. /\ \A h \in Holders \ {ProcessMax} : FrameMap'[h] = FrameMap[h]
      /\ FrameMap[ProcessMax] = Four(sp.cr3, b, sp.code, sp.stack)
      /\ FrameMap'[ProcessMax] = Four(sp'.cr3, b2, sp'.code, sp'.stack)
  BY FramesKept, HolderFrames, SpawnHolder
<1>2. Takes(FrameMap, FrameMap', free, free')
  BY <1>1, FourTakes
<1>3. Partitioned(FrameMap, free, heap_frames) /\ free \subseteq Frames /\ heap_frames \subseteq Frames
  BY MemoryIs DEF IInv, FramesPartitioned, MemoryTypes
<1> QED
  BY <1>2, <1>3, PartitionTake DEF FramesPartitioned

LEMMA AllocFrame ==
  ASSUME LeastNumbers, NEW pool \in SUBSET Frames
  PROVE  /\ pool = {} => pmm_alloc(pool) = NoFrame
         /\ pool # {} => pmm_alloc(pool) \in pool
         /\ pmm_alloc(pool) \in Frames \cup {NoFrame}
BY LeastIn, Constants, ZenonT(60) DEF pmm_alloc

LEMMA FreeFrame ==
  ASSUME NEW pool, NEW f, NEW x
  PROVE  x \in pmm_free(pool, f) <=> x \in pool \/ (f # NoFrame /\ x = f)
BY DEF pmm_free

LEMMA GiveBackFrames ==
  ASSUME NEW pool, NEW d, NEW code, NEW stack, NEW x
  PROVE  x \in GiveBack(pool, d, code, stack) <=>
           x \in pool \/ (x # NoFrame /\ x \in {d, code, stack})
BY FreeFrame DEF GiveBack

LEMMA TableTyped ==
  /\ EmptyTable \in [Pages -> 0..(NFrames + 4)]
  /\ \A code, stack \in Frames : [code |-> code, stack |-> stack] \in [Pages -> 0..(NFrames + 4)]
BY ProcessAssumption DEF EmptyTable, Pages, NoFrame, Frames

LEMMA NoLocalsTyped ==
  NoLocals \in [slot : Slots, is_kernel : BOOLEAN, cr3 : Frames \cup {NoFrame, KernelDir},
                code : Frames \cup {NoFrame}, stack : Frames \cup {NoFrame}]
BY Constants DEF NoLocals

LEMMA GrowthFromPool == \A g \in HeapGrowth : g \subseteq free
BY DEF HeapGrowth

\* The heap takes frames, and nothing else moves.
Grows(g) == free' = free \ g /\ heap_frames' = heap_frames \cup g

LEMMA HeapGrows ==
  ASSUME IInv, NEW g \in HeapGrowth, Grows(g), UNCHANGED <<pde, pte>>
  PROVE  /\ MemoryTypes' /\ KernelWindow'
         /\ Partitioned(FrameMap, free', heap_frames')
<1>1. g \subseteq free /\ free \subseteq Frames
  BY GrowthFromPool, MemoryIs DEF MemoryTypes
<1>2. MemoryTypes'
  BY <1>1, MemoryIs DEF MemoryTypes, Grows
<1>3. Partitioned(FrameMap, free', heap_frames')
  BY <1>1, PartitionGrow DEF IInv, FramesPartitioned, Grows
<1> QED
  BY <1>2, <1>3 DEF IInv, KernelWindow
-----------------------------------------------------------------------------
(* Address spaces that are given up *)

\* Holder e has an address space of its own, if not a complete one.
HasSpace(e) ==
  /\ e.cr3 \in Frames /\ pde[e.cr3] \in Frames \cup {NoFrame}
  /\ e.code \in Frames \cup {NoFrame} /\ e.stack \in Frames \cup {NoFrame}

\* Its frames go back to the pool, while the heap may take others (g).
GivesUp(e, g) ==
  /\ pte' = Unmapped(e.cr3)
  /\ pde' = [pde EXCEPT ![e.cr3] = NoFrame]
  /\ free' = GiveBack(pmm_free(free \ g, ReleasedTable(e.cr3)), e.cr3, e.code, e.stack)
  /\ heap_frames' = heap_frames \cup g

LEMMA GivesUpOnly ==
  ASSUME NEW e, pte' = Unmapped(e.cr3), pde' = [pde EXCEPT ![e.cr3] = NoFrame],
         free' = GiveBack(pmm_free(free, ReleasedTable(e.cr3)), e.cr3, e.code, e.stack),
         heap_frames' = heap_frames
  PROVE  {} \in SUBSET free /\ GivesUp(e, {})
<1>1. {} \in SUBSET free /\ free \ {} = free /\ heap_frames \cup {} = heap_frames
  OBVIOUS
<1> QED
  BY <1>1 DEF GivesUp

LEMMA ReleasedPool ==
  ASSUME NEW e, NEW g, GivesUp(e, g), NEW x
  PROVE  x \in free' <=> x \in free \ g \/ (x # NoFrame /\ x \in {pde[e.cr3], e.cr3, e.code, e.stack})
<1>1. x \in pmm_free(free \ g, pde[e.cr3]) <=> x \in free \ g \/ (x # NoFrame /\ x = pde[e.cr3])
  BY FreeFrame
<1> QED
  BY <1>1, GiveBackFrames DEF ReleasedTable, GivesUp

LEMMA ReleasedDirs ==
  ASSUME IInv, NEW H \in Holders, NEW e, e = Locals(H), HasSpace(e), NEW g, GivesUp(e, g)
  PROVE  DirsKept(H)
<1>1. \A h \in Holders \ {H} : Locals(h).cr3 \in Frames => Locals(h).cr3 # e.cr3
  BY Apart DEF HasSpace
<1>2. pde \in [Frames \cup {KernelDir} -> Frames \cup {NoFrame, KernelTable}]
  BY MemoryIs DEF MemoryTypes
<1> QED
  BY <1>1, <1>2 DEF DirsKept, GivesUp

LEMMA ReleasedFrames ==
  ASSUME IInv, NEW H \in Holders, NEW e, e = Locals(H), HasSpace(e),
         NEW g \in SUBSET free, GivesUp(e, g), OthersKept(H), HoldsNothing(Locals(H)')
  PROVE  FramesPartitioned' /\ free' \subseteq Frames /\ heap_frames' \subseteq Frames
<1>1. free \subseteq Frames /\ heap_frames \subseteq Frames
  BY MemoryIs DEF MemoryTypes
<1>2. free' \subseteq Frames /\ heap_frames' \subseteq Frames
  BY <1>1, ReleasedPool, ZenonT(60) DEF HasSpace, GivesUp
<1>3. Partitioned(FrameMap, free \ g, heap_frames')
  BY PartitionGrow DEF IInv, FramesPartitioned, GivesUp
<1>4. /\ FrameMap[H]["dir"] = e.cr3 /\ FrameMap[H]["table"] = pde[e.cr3]
      /\ FrameMap[H]["code"] = e.code /\ FrameMap[H]["stack"] = e.stack
  BY HolderFrames, FourAt DEF UserTable, HasSpace
<1>5. ASSUME NEW f \in Frames
      PROVE  f \in {pde[e.cr3], e.cr3, e.code, e.stack} <=> \E r \in Roles : FrameMap[H][r] = f
  BY <1>4 DEF Roles
<1>6. \A f \in Frames : f \in free' <=> f \in free \ g \/ \E r \in Roles : FrameMap[H][r] = f
  BY <1>5, ReleasedPool, Constants
<1>7. Releases(FrameMap, FrameMap', H, free \ g, free')
  BY <1>6, FramesKept, ReleasedDirs, EmptyHolder DEF Releases
<1>8. Partitioned(FrameMap', free', heap_frames')
  BY <1>2, <1>3, <1>7, PartitionRelease
<1> QED
  BY <1>2, <1>8 DEF FramesPartitioned

LEMMA ReleasedTables ==
  ASSUME IInv, NEW H \in Holders, NEW e, e = Locals(H), HasSpace(e),
         NEW g, GivesUp(e, g), free' \subseteq Frames, heap_frames' \subseteq Frames
  PROVE  MemoryTypes' /\ KernelWindow'
<1>1. /\ pde \in [Frames \cup {KernelDir} -> Frames \cup {NoFrame, KernelTable}]
      /\ pte \in [Frames \cup {KernelTable} -> [Pages -> 0..(NFrames + 4)]]
  BY MemoryIs DEF MemoryTypes
<1>2. pte' = [pte EXCEPT ![pde[e.cr3]] = EmptyTable] \/ pte' = pte
  BY DEF Unmapped, GivesUp
<1>3. pde' \in [Frames \cup {KernelDir} -> Frames \cup {NoFrame, KernelTable}]
  BY <1>1, ZenonT(60) DEF GivesUp
<1>4. pte' \in [Frames \cup {KernelTable} -> [Pages -> 0..(NFrames + 4)]]
  BY <1>1, <1>2, TableTyped, ZenonT(60)
<1>5. KernelWindow'
  BY <1>1, <1>2, Constants, ZenonT(60) DEF IInv, KernelWindow, GivesUp, HasSpace
<1> QED
  BY <1>3, <1>4, <1>5 DEF MemoryTypes

LEMMA ReleasedSpaces ==
  ASSUME IInv, NEW H \in Holders, NEW e, e = Locals(H), HasSpace(e), NEW g, GivesUp(e, g),
         NEW s \in Slots \ {H}
  PROVE  SpaceKept(process_table[s], pde, pte, pde', pte')
<1> SUFFICES ASSUME Built(process_table[s], pde, pte)
             PROVE  /\ pde'[process_table[s].cr3] = pde[process_table[s].cr3]
                    /\ pte'[pde[process_table[s].cr3]] = pte[pde[process_table[s].cr3]]
  BY DEF SpaceKept
<1>1. /\ s \in Holders \ {H} /\ Locals(s) = process_table[s]
      /\ Locals(s).cr3 \in Frames /\ pde[Locals(s).cr3] \in Frames
  BY SpawnHolder DEF Built
<1>2. pde[Locals(s).cr3] # pde[e.cr3]
  BY <1>1, Apart DEF UserTable, HasSpace
<1>3. pte' = [pte EXCEPT ![pde[e.cr3]] = EmptyTable] \/ pte' = pte
  BY DEF Unmapped, GivesUp
<1>4. pte \in [Frames \cup {KernelTable} -> [Pages -> 0..(NFrames + 4)]]
  BY MemoryIs DEF MemoryTypes
<1> QED
  BY <1>1, <1>2, <1>3, <1>4, ReleasedDirs DEF DirsKept

\* The spaces of the other holders are not touched.
LEMMA ReleaseSpace ==
  ASSUME IInv, NEW H \in Holders, NEW e, e = Locals(H), HasSpace(e),
         NEW g \in SUBSET free, GivesUp(e, g), OthersKept(H), HoldsNothing(Locals(H)')
  PROVE  /\ MemoryTypes' /\ KernelWindow' /\ FramesPartitioned'
         /\ \A s \in Slots \ {H} : SpaceKept(process_table[s], pde, pte, pde', pte')
BY ReleasedFrames, ReleasedTables, ReleasedSpaces
-----------------------------------------------------------------------------
(* Steps of task 0 that change more than where it is *)

\* Task 0 outside the construction of an image is in the kernel's directory.
LEMMA KernelDirectory ==
  ASSUME IInv, current_task = 0, ~Building
  PROVE  cr3 = KernelDir
<1>1. \A s \in Slots : EntryOf(s, 0) => s = 0
  BY EmptyFields DEF IInv, EntriesFormed, Formed, EntryOf
<1> QED
  BY <1>1, EmptyFields, Constants DEF IInv, DirectoryRight, EntriesFormed, EntryOf

\* Conversely, in the kernel's directory task 0 is in its own.
LEMMA KernelDirectoryRight ==
  ASSUME EntriesFormed', current_task' = 0, cr3' = KernelDir, ~Building'
  PROVE  DirectoryRight'
BY EmptyFields, Constants DEF DirectoryRight, EntriesFormed, EntryOf

\* What is left to show of a step of process_spawn_common that creates no task.
LEMMA SpawnStepKeepsIInv ==
  ASSUME IInv, Given, UNCHANGED <<sched, procs, mode, iflag, esp0, after, i>>,
         pc \in ReapedPcs, pc' \in ReapedPcs, current_task = 0,
         MemoryTypes', cr3' \in Frames \cup {KernelDir}, ShellTypes',
         EntriesFormed', LocalsFormed', KernelWindow', FramesPartitioned', DirectoryRight'
  PROVE  IInv'
<1>1. EntriesMatchTasks' /\ UserTasksHaveEntries'
  BY TablesKept DEF TasksKept, sched
<1>2. PidsUnique'
  BY ZenonT(60) DEF IInv, PidsUnique, procs
<1>3. Reaped'
  <2>1. pc' # "reap"
    BY DEF ReapedPcs, SpawnPcs
  <2>2. \A s \in Slots : ~Dead(s)
    BY ZenonT(60) DEF IInv, Reaped
  <2>3. process_table' = process_table /\ state' = state
    BY DEF sched, procs
  <2>4. \A s \in Slots : ~Dead(s)'
    BY <2>2, <2>3, ZenonT(60) DEF Dead
  <2> QED
    BY <2>1, <2>4, ZenonT(60) DEF Reaped
<1>4. Control'
  BY DEF IInv, Control, sched, procs
<1>5. RestTypes' /\ CpuTypes'
  BY MemoryIs DEF RestTypes, CpuTypes, procs
<1> QED
  BY <1>1, <1>2, <1>3, <1>4, <1>5, TypeParts DEF IInv, Given, SchedulerInv

\* The same for a step of task 0 outside the construction of an image.
LEMMA KernelStepKeepsIInv ==
  ASSUME IInv, Given, current_task = 0, current_task' = 0, UNCHANGED cpu, ~Building, ~Building',
         RestTypes', MemoryTypes', ShellTypes', kind'[0] = "kernel",
         EntriesFormed', LocalsFormed', KernelWindow', FramesPartitioned',
         EntriesMatchTasks', UserTasksHaveEntries', Reaped', PidsUnique'
  PROVE  IInv'
<1>1. cr3' = KernelDir
  BY KernelDirectory DEF cpu
<1>2. DirectoryRight'
  BY <1>1, KernelDirectoryRight
<1>3. Control'
  BY DEF IInv, Control, cpu
<1>4. CpuTypes'
  BY MemoryIs DEF CpuTypes, cpu
<1> QED
  BY <1>2, <1>3, <1>4, TypeParts DEF IInv, Given, SchedulerInv
-----------------------------------------------------------------------------
(* The beginning *)

LEMMA InitScheduler ==
  ASSUME S!Init
  PROVE  SchedulerInv
<1>1. 0 \in S!Tasks /\ tick_since_switch \in 0..(TickMod - 1) /\ S!ExpiryPending
  BY ProcessAssumption DEF S!Init, S!Tasks, S!ExpiryPending
<1>2. preempt_pending \in BOOLEAN
  BY ZenonT(60) DEF S!Init
<1>3. S!TypeOK
  BY <1>1, <1>2 DEF S!Init, S!TypeOK, S!States
<1>4. S!OnlyCurrentRuns /\ state[0] \in {"RUNNING", "RUNNABLE"}
  BY <1>1 DEF S!Init, S!OnlyCurrentRuns
<1>5. S!StacksOwned
  BY ProcessAssumption DEF S!Init, S!StacksOwned, S!Tasks
<1> QED
  BY <1>1, <1>3, <1>4, <1>5 DEF SchedulerInv

LEMMA InitTyped ==
  ASSUME NEW n \in HeapStarts, InitWith(n)
  PROVE  MemoryTypes /\ CpuTypes /\ RestTypes /\ ShellTypes
<1>1. MemoryTypes
  <2>1. n \in Nat /\ n <= NFrames /\ NFrames \in Nat
    BY ProcessAssumption
  <2>2. free \subseteq Frames /\ heap_frames \subseteq Frames
    BY <2>1 DEF InitWith, Frames
  <2>3. KernelPages \in [Pages -> 0..(NFrames + 4)] /\ EmptyTable \in [Pages -> 0..(NFrames + 4)]
    BY <2>1 DEF KernelPages, EmptyTable, Pages, NoFrame
  <2>4. /\ pde \in [Frames \cup {KernelDir} -> Frames \cup {NoFrame, KernelTable}]
        /\ pte \in [Frames \cup {KernelTable} -> [Pages -> 0..(NFrames + 4)]]
    BY <2>3 DEF InitWith
  <2> QED
    BY <2>2, <2>4 DEF MemoryTypes
<1>2. CpuTypes /\ ShellTypes
  BY NoLocalsTyped, Constants, ProcessAssumption DEF InitWith, CpuTypes, ShellTypes, S!Tasks, Slots
<1>3. RestTypes
  <2>1. 0 \in S!Tasks /\ 0 \in 0..(PidMod - 1) /\ 1 \in 0..(PidMod - 1)
    BY ProcessAssumption DEF S!Tasks
  <2>2. \A s \in Slots : process_table[s] \in
          [active : BOOLEAN, pid : 0..(PidMod - 1), tid : S!Tasks, cr3 : Frames \cup {NoFrame, KernelDir},
           code : Frames \cup {NoFrame}, stack : Frames \cup {NoFrame}, is_kernel : BOOLEAN]
    BY <2>1, ZenonT(60) DEF InitWith, NoEntry, KernelEntry
  <2>3. next_pid \in 2..(PidMod - 1) /\ kind \in [S!Tasks -> {"kernel", "user"}]
    BY ProcessAssumption DEF InitWith
  <2> QED
    BY <2>2, <2>3 DEF RestTypes, InitWith
<1> QED
  BY <1>1, <1>2, <1>3

LEMMA InitFrames ==
  ASSUME NEW n \in HeapStarts, InitWith(n)
  PROVE  FramesPartitioned
<1>1. ASSUME NEW h \in Holders PROVE HoldsNothing(Locals(h))
  BY EmptyFields, Constants DEF InitWith, Locals, HoldsNothing
<1>2. \A h \in Holders, r \in Roles : FrameMap[h][r] \notin Frames
  BY <1>1, EmptyHolder
<1>3. /\ free \subseteq Frames /\ heap_frames \subseteq Frames /\ free \cap heap_frames = {}
      /\ \A f \in Frames : f \in free \/ f \in heap_frames
  BY InitTyped DEF InitWith, MemoryTypes
<1> QED
  BY <1>2, <1>3 DEF FramesPartitioned, Partitioned

LEMMA InitIInv == Init => IInv
<1> SUFFICES ASSUME NEW n \in HeapStarts, InitWith(n) PROVE IInv
  BY DEF Init
<1>1. \A s \in Slots : process_table[s] = IF s = 0 THEN KernelEntry ELSE NoEntry
  BY DEF InitWith
<1>2. 0 \in Slots /\ 0 \in S!Tasks
  BY ProcessAssumption DEF Slots, S!Tasks
<1>3. SchedulerInv /\ TypeOK
  BY InitTyped, InitScheduler, TypeParts DEF InitWith, SchedulerInv
<1>4. /\ current_task = 0 /\ state = [t \in S!Tasks |-> IF t = 0 THEN "RUNNING" ELSE "UNUSED"]
      /\ kind = [t \in S!Tasks |-> "kernel"]
      /\ pc = "batch" /\ sp = NoLocals /\ mode = "kernel" /\ iflag = TRUE /\ cr3 = KernelDir
  BY DEF InitWith, S!Init, S!Tasks
<1>5. Control /\ LocalsFormed
  BY <1>2, <1>4 DEF Control, LocalsFormed, SpawnPcs
<1>6. EntriesFormed
  BY <1>1, <1>2 DEF EntriesFormed, Formed
<1>7. KernelWindow
  BY Constants DEF InitWith, KernelWindow
<1>8. DirectoryRight
  BY <1>1, <1>2, <1>4, EmptyFields DEF DirectoryRight, EntryOf, Building
<1>9. EntriesMatchTasks /\ UserTasksHaveEntries /\ PidsUnique
  <2>1. \A s \in Slots : process_table[s].active => s = 0
    BY <1>1, EmptyFields
  <2>2. /\ process_table[0].tid = 0 /\ process_table[0].is_kernel /\ process_table[0].pid = 1
    BY <1>1, <1>2, EmptyFields
  <2>3. EntriesMatchTasks
    BY <1>2, <1>4, <2>1, <2>2, ZenonT(60) DEF EntriesMatchTasks
  <2>4. UserTasksHaveEntries /\ PidsUnique
    BY <1>4, <2>1, <2>2 DEF UserTasksHaveEntries, PidsUnique
  <2> QED
    BY <2>3, <2>4
<1>10. Reaped
  BY <1>1, <1>2, <1>4, EmptyFields DEF Reaped, Dead
<1> QED
  BY <1>3, <1>5, <1>6, <1>7, <1>8, <1>9, <1>10, InitFrames DEF IInv
-----------------------------------------------------------------------------
(* What follows from the invariant *)

LEMMA FrameOfHolder ==
  ASSUME NEW h \in Holders, NEW r \in Roles
  PROVE  FrameOf(h, r) = FrameMap[h][r]
BY HolderFrames, FourAt DEF FrameOf, Roles

\* The uses of a frame, without counting them.
LEMMA FrameUses ==
  ASSUME IInv, NEW f \in Frames, NEW uses, uses = {u \in Holders \X Roles : FrameOf(u[1], u[2]) = f}
  PROVE  \/ uses = {} /\ f \in free /\ f \notin heap_frames
         \/ uses = {} /\ f \notin free /\ f \in heap_frames
         \/ (\E u : uses = {u}) /\ f \notin free /\ f \notin heap_frames
<1>1. \A u \in Holders \X Roles : FrameOf(u[1], u[2]) = FrameMap[u[1]][u[2]]
  BY FrameOfHolder
<1>2. Partitioned(FrameMap, free, heap_frames)
  BY DEF IInv, FramesPartitioned
<1>3. CASE \E u : u \in uses
  <2>1. PICK u : u \in uses
    BY <1>3
  <2>2. \A v \in uses : v = u
    BY <1>1, <1>2, <2>1 DEF Partitioned
  <2>3. uses = {u}
    BY <2>1, <2>2
  <2>4. u[1] \in Holders /\ u[2] \in Roles /\ FrameMap[u[1]][u[2]] = f
    BY <1>1, <2>1
  <2>5. f \notin free /\ f \notin heap_frames
    BY <1>2, <2>4 DEF Partitioned
  <2> QED
    BY <2>3, <2>5
<1>4. CASE ~\E u : u \in uses
  <2>1. ASSUME NEW h \in Holders, NEW r \in Roles PROVE FrameMap[h][r] # f
    <3>1. <<h, r>> \in Holders \X Roles /\ <<h, r>>[1] = h /\ <<h, r>>[2] = r
      OBVIOUS
    <3> QED
      BY <1>1, <1>4, <3>1
  <2>2. uses = {}
    BY <1>4
  <2> QED
    BY <1>2, <2>1, <2>2 DEF Partitioned
<1> QED
  BY <1>3, <1>4

LEMMA IInvOwnSpace == IInv => OwnSpace
<1> SUFFICES ASSUME IInv PROVE OwnSpace
  OBVIOUS
<1>1. current_task \in S!Tasks /\ state[current_task] = "RUNNING"
  BY DEF IInv, SchedulerInv, S!TypeOK, S!OnlyCurrentRuns
<1>2. Building => current_task = 0
  BY DEF IInv, Control, Building
<1>3. (\A s \in Slots : ~EntryOf(s, current_task)) => kind[current_task] = "kernel"
  BY <1>1, MemoryIs DEF IInv, UserTasksHaveEntries, RestTypes
<1>4. cr3 \notin free
  <2>1. \A s \in Slots : process_table[s].cr3 \notin free
    BY Apart, SpawnHolder
  <2>2. KernelDir \notin free
    BY MemoryIs, Constants DEF MemoryTypes
  <2> QED
    BY <2>1, <2>2, LocalsNotFree DEF IInv, DirectoryRight
<1>5. DirectoryFollowsTask
  BY <1>2, <1>3, <1>4 DEF IInv, DirectoryRight, DirectoryFollowsTask, EntryOf, Building
<1>6. WindowsPrivate
  BY EmptyFields, Constants DEF IInv, EntriesFormed, Formed, Spaced, Built, KernelWindow, WindowsPrivate
<1> QED
  BY <1>5, <1>6 DEF OwnSpace

LEMMA IInvTrapStackOwned == IInv => TrapStackOwned
<1> SUFFICES ASSUME IInv, mode = "user" PROVE esp0 = current_task /\ stack_base[esp0] \in heap
  BY DEF TrapStackOwned
<1>1. esp0 = current_task /\ current_task # 0
  BY DEF IInv, Control
<1>2. current_task \in S!Tasks /\ state[current_task] = "RUNNING"
  BY DEF IInv, SchedulerInv, S!TypeOK, S!OnlyCurrentRuns
<1> QED
  BY <1>1, <1>2 DEF IInv, SchedulerInv, S!StacksOwned
=============================================================================
