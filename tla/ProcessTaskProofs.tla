-------------------------- MODULE ProcessTaskProofs -------------------------
(***************************************************************************)
(* The steps that create and reap tasks preserve the invariant of          *)
(* ProcessProofs.                                                          *)
(***************************************************************************)
EXTENDS ProcessProofs

USE SMTT(60)

LEMMA EntriesTyped ==
  ASSUME IInv, NEW s \in Slots
  PROVE  /\ process_table[s].tid \in S!Tasks /\ process_table[s].active \in BOOLEAN
         /\ process_table[s].is_kernel \in BOOLEAN
BY MemoryIs DEF RestTypes

\* A new task has a slot that no process has.
NewTask(t, k) ==
  /\ t \in S!Tasks /\ t # 0 /\ current_task' = current_task
  /\ \A u \in S!Tasks : state'[u] = IF u = t THEN "RUNNABLE" ELSE state[u]
  /\ \A u \in S!Tasks : kind'[u] = IF u = t THEN k ELSE kind[u]
  /\ kind' \in [S!Tasks -> {"kernel", "user"}]
  /\ \A s \in Slots : process_table[s].active => process_table[s].tid # t

LEMMA TaskCreated ==
  ASSUME IInv, pc \in ReapedPcs, NEW t \in S!Tasks, NEW b \in Stacks, S!scheduler_create_task(t, b),
         NEW k \in {"kernel", "user"}, kind' = [kind EXCEPT ![t] = k]
  PROVE  NewTask(t, k)
<1>1. \A u \in S!Tasks : state'[u] = IF u = t THEN "RUNNABLE" ELSE state[u]
  BY CreateEffect
<1>2. kind \in [S!Tasks -> {"kernel", "user"}]
  BY MemoryIs DEF RestTypes
<1>3. \A s \in Slots : process_table[s].active => process_table[s].tid # t
  BY CreateEffect DEF IInv, Reaped, Dead, EntriesMatchTasks
<1>4. t # 0 /\ current_task' = current_task
  BY CreateEffect
<1> QED
  BY <1>1, <1>2, <1>3, <1>4 DEF NewTask

\* The tasks of the processes there are stay what they are.
LEMMA OldTasks ==
  ASSUME IInv, NEW t, NEW k, NewTask(t, k), NEW s \in Slots, process_table[s].active
  PROVE  /\ state'[process_table[s].tid] = state[process_table[s].tid]
         /\ kind'[process_table[s].tid] = kind[process_table[s].tid]
         /\ process_table[s].tid # t
BY EntriesTyped DEF NewTask

LEMMA Task0Kernel ==
  ASSUME IInv, NEW t, NEW k, NewTask(t, k)
  PROVE  kind'[0] = "kernel"
BY Constants DEF NewTask, IInv, Control
-----------------------------------------------------------------------------
(* The tasks of the taskdemo command *)

LEMMA TaskDemoTables ==
  ASSUME IInv, pc \in ReapedPcs, NEW t, NewTask(t, "kernel"), UNCHANGED process_table
  PROVE  EntriesMatchTasks' /\ UserTasksHaveEntries' /\ \A s \in Slots : ~Dead(s)'
<1>1. EntriesMatchTasks'
  BY OldTasks DEF IInv, EntriesMatchTasks
<1>2. UserTasksHaveEntries'
  BY DEF NewTask, IInv, UserTasksHaveEntries, EntryOf
<1>3. \A s \in Slots : ~Dead(s)'
  BY OldTasks DEF IInv, Reaped, Dead
<1> QED
  BY <1>1, <1>2, <1>3

LEMMA TaskDemoCreateKeepsIInv ==
  ASSUME IInv, Given, TaskDemoCreate
  PROVE  IInv'
<1>1. /\ current_task = 0 /\ pc \in {"taskdemo", "taskdemo2"} /\ pc' \in {"taskdemo2", "demo"}
      /\ UNCHANGED <<process_table, next_pid, pde, pte, cpu, after, i, sp>>
  BY DEF TaskDemoCreate, At
<1>2. pc \in ReapedPcs /\ ~Building /\ ~Building'
  BY <1>1 DEF ReapedPcs, SpawnPcs, Building
<1>3. PICK t : NewTask(t, "kernel")
  BY <1>2, TaskCreated, ZenonT(60) DEF TaskDemoCreate
<1>4. PICK g \in HeapGrowth : Grows(g)
  BY DEF TaskDemoCreate, Grows
<1>5. MemoryTypes' /\ KernelWindow' /\ Partitioned(FrameMap, free', heap_frames')
  BY <1>1, <1>4, HeapGrows
<1>6. FramesPartitioned'
  <2>1. FrameMap' = FrameMap
    BY <1>1 DEF FrameMap, Locals, UserTable
  <2> QED
    BY <1>5, <2>1 DEF FramesPartitioned
<1>7. RestTypes' /\ ShellTypes'
  BY <1>1, <1>3, MemoryIs DEF RestTypes, ShellTypes, NewTask
<1>8. EntriesFormed' /\ PidsUnique'
  BY <1>1 DEF IInv, EntriesFormed, PidsUnique
<1>9. LocalsFormed'
  BY <1>1 DEF IInv, LocalsFormed, SpawnPcs
<1>10. EntriesMatchTasks' /\ UserTasksHaveEntries' /\ Reaped'
  BY <1>1, <1>2, <1>3, TaskDemoTables DEF Reaped
<1>11. current_task' = 0 /\ kind'[0] = "kernel"
  BY <1>1, <1>3, Task0Kernel DEF NewTask
<1> QED
  BY <1>1, <1>2, <1>5, <1>6, <1>7, <1>8, <1>9, <1>10, <1>11, KernelStepKeepsIInv
-----------------------------------------------------------------------------
(* The pid of a new process *)

LEMMA RoundOnce ==
  ASSUME NEW m \in Nat \ {0}, NEW n \in 0..(m - 1), NEW a \in 0..m
  PROVE  /\ (n + a) % m = IF n + a < m THEN n + a ELSE n + a - m
         /\ 2 + ((n + a) % m) \in 2..(m + 1)
OBVIOUS

LEMMA RoundDiffers ==
  ASSUME NEW m \in Nat \ {0}, NEW n \in 0..(m - 1), NEW a \in 0..(m - 1), NEW b \in 0..(m - 1),
         2 + ((n + a) % m) = 2 + ((n + b) % m)
  PROVE  a = b
BY RoundOnce

\* The pids that are tried are different ones.
LEMMA TriesDiffer ==
  ASSUME next_pid \in 2..(PidMod - 1), NEW a \in 0..(ProcessMax + 1)
  PROVE  /\ PidTry(a) \in 2..(PidMod - 1)
         /\ \A b \in PidTries : a \in PidTries /\ PidTry(a) = PidTry(b) => a = b
<1>1. PICK m \in Nat, n \in Nat : m = PidMod - 2 /\ n = next_pid - 2 /\ m > 0 /\ n < m
  BY ProcessAssumption
<1>2. \A k : PidTry(k) = 2 + ((n + k) % m)
  BY <1>1 DEF PidTry
<1>3. a \in 0..m /\ PidTries \subseteq 0..(m - 1) /\ m + 1 = PidMod - 1
  BY <1>1, ProcessAssumption DEF PidTries
<1>4. m \in Nat \ {0} /\ n \in 0..(m - 1)
  BY <1>1
<1>5. PidTry(a) \in 2..(PidMod - 1)
  BY <1>2, <1>3, <1>4, RoundOnce
<1>6. ASSUME NEW b \in PidTries, a \in PidTries, PidTry(a) = PidTry(b) PROVE a = b
  BY <1>2, <1>3, <1>4, <1>6, RoundDiffers
<1> QED
  BY <1>5, <1>6

LEMMA SomeTryIsFree ==
  ASSUME next_pid \in 2..(PidMod - 1), MoreTriesThanSlots
  PROVE  \E k \in PidTries : ~process_pid_in_use(PidTry(k))
<1> SUFFICES ASSUME \A k \in PidTries : process_pid_in_use(PidTry(k)) PROVE FALSE
  OBVIOUS
<1> DEFINE user == [k \in PidTries |-> CHOOSE s \in Slots : process_table[s].pid = PidTry(k)]
<1>1. \A k \in PidTries : user[k] \in Slots /\ process_table[user[k]].pid = PidTry(k)
  BY DEF process_pid_in_use
<1>2. user \in [PidTries -> Slots]
  BY <1>1
<1> HIDE DEF user
<1>3. PICK a, b \in PidTries : a # b /\ user[a] = user[b]
  BY <1>2 DEF MoreTriesThanSlots
<1>4. PidTry(a) = PidTry(b) /\ a \in 0..(ProcessMax + 1)
  BY <1>1, <1>3, ProcessAssumption DEF PidTries
<1> QED
  BY <1>3, <1>4, TriesDiffer

FreshPid ==
  /\ process_alloc_pid.pid \in 2..(PidMod - 1) /\ process_alloc_pid.next \in 2..(PidMod - 1)
  /\ ~process_pid_in_use(process_alloc_pid.pid)

\* process_alloc_pid finds a pid within its tries.
LEMMA PidIsFresh ==
  ASSUME IInv, Given
  PROVE  FreshPid
<1> DEFINE hits == {k \in PidTries : ~process_pid_in_use(PidTry(k))}
<1>1. next_pid \in 2..(PidMod - 1)
  BY MemoryIs DEF RestTypes
<1>2. hits # {} /\ hits \in SUBSET Nat
  BY <1>1, SomeTryIsFree, ProcessAssumption DEF PidTries, Given
<1>3. Min(hits) \in hits
  BY <1>2, LeastIn DEF Given
<1>4. /\ process_alloc_pid.pid = PidTry(Min(hits))
      /\ process_alloc_pid.next = PidTry(Min(hits) + 1)
  BY <1>2 DEF process_alloc_pid
<1>5. Min(hits) \in PidTries /\ ~process_pid_in_use(PidTry(Min(hits)))
  BY <1>3
<1> HIDE DEF hits
<1>6. Min(hits) \in 0..(ProcessMax + 1) /\ Min(hits) + 1 \in 0..(ProcessMax + 1)
  BY <1>5, ProcessAssumption DEF PidTries
<1> QED
  BY <1>1, <1>4, <1>5, <1>6, TriesDiffer DEF FreshPid
-----------------------------------------------------------------------------
(* The task and the entry of a process *)

\* The record process_spawn_common fills in.
Spawned(t) ==
  [active |-> TRUE, pid |-> process_alloc_pid.pid, tid |-> t, cr3 |-> sp.cr3,
   code |-> sp.code, stack |-> sp.stack, is_kernel |-> sp.is_kernel]

LEMMA SpawnedFields ==
  ASSUME NEW t
  PROVE  /\ Spawned(t).active /\ Spawned(t).tid = t /\ Spawned(t).pid = process_alloc_pid.pid
         /\ Spawned(t).cr3 = sp.cr3 /\ Spawned(t).code = sp.code /\ Spawned(t).stack = sp.stack
         /\ Spawned(t).is_kernel = sp.is_kernel
BY DEF Spawned

NewEntry(t) ==
  /\ NewTask(t, IF sp.is_kernel THEN "kernel" ELSE "user")
  /\ sp.slot \in Slots /\ sp.slot # 0 /\ process_table[sp.slot] = NoEntry
  /\ sp.is_kernel \in BOOLEAN /\ Spaced(sp, pde, pte)
  /\ process_table'[sp.slot] = Spawned(t)
  /\ \A s \in Slots \ {sp.slot} : process_table'[s] = process_table[s]

LEMMA SpawnSlot ==
  ASSUME IInv, pc = "create"
  PROVE  /\ sp.slot \in Slots /\ sp.slot # 0 /\ process_table[sp.slot] = NoEntry
         /\ sp.is_kernel \in BOOLEAN /\ Spaced(sp, pde, pte)
<1>1. ~process_table[sp.slot].active /\ Spaced(sp, pde, pte)
  BY DEF IInv, LocalsFormed, SpawnPcs
<1>2. sp.slot \in Slots /\ sp.is_kernel \in BOOLEAN
  BY MemoryIs DEF ShellTypes
<1>3. sp.slot # 0
  BY <1>1, EmptyFields DEF IInv, EntriesFormed
<1> QED
  BY <1>1, <1>2, <1>3 DEF IInv, EntriesFormed, Formed

LEMMA EntryCreated ==
  ASSUME IInv, SpawnCreate
  PROVE  /\ current_task = 0 /\ pc = "create" /\ pc \in ReapedPcs
         /\ next_pid' = process_alloc_pid.next
         /\ \E t \in S!Tasks : NewEntry(t) /\ process_table' = [process_table EXCEPT ![sp.slot] = Spawned(t)]
<1>1. current_task = 0 /\ pc = "create" /\ pc \in ReapedPcs /\ next_pid' = process_alloc_pid.next
  BY DEF SpawnCreate, At, ReapedPcs, SpawnPcs
<1>2. PICK t \in S!Tasks, b \in Stacks :
        /\ S!scheduler_create_task(t, b)
        /\ kind' = [kind EXCEPT ![t] = IF sp.is_kernel THEN "kernel" ELSE "user"]
        /\ process_table' = [process_table EXCEPT ![sp.slot] = Spawned(t)]
  BY ZenonT(60) DEF SpawnCreate, Spawned
<1>3. NewTask(t, IF sp.is_kernel THEN "kernel" ELSE "user")
  <2>1. (IF sp.is_kernel THEN "kernel" ELSE "user") \in {"kernel", "user"}
    BY SpawnSlot, <1>1
  <2> QED
    BY <1>1, <1>2, <2>1, TaskCreated, ZenonT(60)
<1>4. /\ process_table'[sp.slot] = Spawned(t)
      /\ \A s \in Slots \ {sp.slot} : process_table'[s] = process_table[s]
  BY <1>1, <1>2, SpawnSlot, MemoryIs DEF RestTypes
<1>5. NewEntry(t)
  BY <1>1, <1>3, <1>4, SpawnSlot DEF NewEntry
<1> QED
  BY <1>1, <1>2, <1>5, ZenonT(60)

\* The address space passes from the spawn in progress to its entry.
LEMMA SpawnPasses ==
  ASSUME IInv, NEW t, NewEntry(t), sp' = NoLocals, pde' = pde,
         NEW pool \in SUBSET Frames, NEW grown \in SUBSET Frames, Partitioned(FrameMap, pool, grown)
  PROVE  Partitioned(FrameMap', pool, grown)
<1>1. /\ sp.slot \in Holders /\ ProcessMax \in Holders /\ sp.slot # ProcessMax
      /\ Locals(sp.slot) = NoEntry
  BY SpawnHolder DEF NewEntry
<1>2. ASSUME NEW s, s = sp.slot PROVE FrameMap'[s] = FrameMap[ProcessMax]
  <2>1. Locals(s)' = Spawned(t) /\ s \in Holders
    BY <1>1, <1>2 DEF Locals, NewEntry
  <2> QED
    BY <2>1, SpawnedFields, HolderFrames, SpawnHolder DEF UserTable
<1>3. \A h \in Holders \ {sp.slot, ProcessMax} : Locals(h)' = Locals(h)
  BY Constants DEF Locals, NewEntry
<1>4. \A h \in Holders \ {sp.slot, ProcessMax} : FrameMap'[h] = FrameMap[h]
  BY <1>3, HolderFrames DEF UserTable
<1>5. \A r \in Roles : FrameMap[sp.slot][r] \notin Frames /\ FrameMap'[ProcessMax][r] \notin Frames
  BY <1>1, EmptyHolder, SpawnHolder, EmptyFields DEF HoldsNothing
<1>6. Moves(FrameMap, FrameMap', ProcessMax, sp.slot)
  BY <1>2, <1>4, <1>5 DEF Moves
<1> QED
  BY <1>1, <1>6, PartitionMove

LEMMA SpawnedMatches ==
  ASSUME IInv, NEW t, NewEntry(t)
  PROVE  EntriesMatchTasks'
<1>1. /\ process_table'[sp.slot].tid = t /\ process_table'[sp.slot].is_kernel = sp.is_kernel
      /\ state'[t] # "UNUSED" /\ (kind'[t] = "kernel") = sp.is_kernel
  BY SpawnedFields DEF NewEntry, NewTask
<1>2. \A s \in Slots \ {sp.slot} : process_table'[s] = process_table[s]
  BY DEF NewEntry
<1>3. ASSUME NEW s \in Slots \ {sp.slot}, process_table[s].active
      PROVE  /\ state'[process_table[s].tid] = state[process_table[s].tid]
             /\ kind'[process_table[s].tid] = kind[process_table[s].tid]
             /\ process_table[s].tid # t
  BY <1>3, OldTasks DEF NewEntry
<1>4. ASSUME NEW s \in Slots, process_table'[s].active
      PROVE  /\ state'[process_table'[s].tid] # "UNUSED"
             /\ (kind'[process_table'[s].tid] = "kernel") = process_table'[s].is_kernel
  BY <1>1, <1>2, <1>3, <1>4 DEF IInv, EntriesMatchTasks
<1>5. ASSUME NEW s \in Slots, process_table'[s].active,
             NEW r \in Slots \ {s}, process_table'[r].active
      PROVE  process_table'[r].tid # process_table'[s].tid
  BY <1>1, <1>2, <1>3, <1>5 DEF IInv, EntriesMatchTasks
<1> QED
  BY <1>4, <1>5 DEF EntriesMatchTasks

LEMMA SpawnedHasEntry ==
  ASSUME IInv, NEW t, NewEntry(t)
  PROVE  UserTasksHaveEntries'
<1>1. ASSUME NEW u \in S!Tasks, u # t, kind'[u] = "user", state'[u] \in {"RUNNABLE", "RUNNING"}
      PROVE  \E s \in Slots : EntryOf(s, u)'
  <2>1. PICK s \in Slots : EntryOf(s, u)
    BY <1>1 DEF IInv, UserTasksHaveEntries, NewEntry, NewTask
  <2>2. s # sp.slot
    BY <2>1, EmptyFields DEF EntryOf, NewEntry
  <2> QED
    BY <2>1, <2>2 DEF EntryOf, NewEntry
<1>2. \E s \in Slots : EntryOf(s, t)'
  BY SpawnedFields DEF NewEntry, EntryOf
<1> QED
  BY <1>1, <1>2 DEF UserTasksHaveEntries

LEMMA SpawnedAlive ==
  ASSUME IInv, pc \in ReapedPcs, NEW t, NewEntry(t), NEW s \in Slots
  PROVE  ~Dead(s)'
<1>1. ~Dead(s)
  BY DEF IInv, Reaped
<1>2. CASE s = sp.slot
  BY <1>2, SpawnedFields DEF Dead, NewEntry, NewTask
<1>3. CASE s # sp.slot
  BY <1>1, <1>3, OldTasks DEF Dead, NewEntry
<1> QED
  BY <1>2, <1>3

LEMMA SpawnedPid ==
  ASSUME IInv, FreshPid, NEW t, NewEntry(t)
  PROVE  PidsUnique'
<1>1. /\ process_alloc_pid.pid # 0 /\ process_alloc_pid.pid # 1
      /\ \A s \in Slots : process_table[s].active => process_table[s].pid # process_alloc_pid.pid
  BY DEF FreshPid, process_pid_in_use
<1>2. process_table'[sp.slot].pid = process_alloc_pid.pid
  BY SpawnedFields DEF NewEntry
<1> QED
  BY <1>1, <1>2 DEF IInv, PidsUnique, NewEntry

LEMMA SpawnedTyped ==
  ASSUME IInv, FreshPid, NEW t, NewEntry(t), next_pid' = process_alloc_pid.next,
         process_table' = [process_table EXCEPT ![sp.slot] = Spawned(t)]
  PROVE  RestTypes'
<1>1. process_alloc_pid.pid \in 0..(PidMod - 1) /\ next_pid' \in 2..(PidMod - 1)
  BY ProcessAssumption DEF FreshPid
<1>2. Spawned(t) \in [active : BOOLEAN, pid : 0..(PidMod - 1), tid : S!Tasks,
                      cr3 : Frames \cup {NoFrame, KernelDir},
                      code : Frames \cup {NoFrame}, stack : Frames \cup {NoFrame},
                      is_kernel : BOOLEAN]
  BY <1>1, MemoryIs DEF Spawned, ShellTypes, NewEntry, NewTask
<1>3. kind' \in [S!Tasks -> {"kernel", "user"}]
  BY DEF NewEntry, NewTask
<1> QED
  BY <1>1, <1>2, <1>3, MemoryIs, ZenonT(60) DEF RestTypes

LEMMA SpawnedFormed ==
  ASSUME IInv, NEW t, NewEntry(t), UNCHANGED <<pde, pte>>
  PROVE  EntriesFormed'
<1>1. Formed(Spawned(t), pde, pte)
  BY SpawnedFields DEF Formed, Spaced, SharesKernelSpace, Built, NewEntry, NewTask
<1> QED
  BY <1>1, Constants DEF IInv, EntriesFormed, NewEntry

LEMMA SpawnCreateKeepsIInv ==
  ASSUME IInv, Given, SpawnCreate
  PROVE  IInv'
<1>1. /\ pc' = "batch" /\ sp' = NoLocals /\ UNCHANGED <<pde, pte, cpu, after, i>>
      /\ current_task = 0 /\ pc = "create" /\ pc \in ReapedPcs /\ next_pid' = process_alloc_pid.next
  BY EntryCreated, ZenonT(60) DEF SpawnCreate
<1>2. PICK t \in S!Tasks : NewEntry(t) /\ process_table' = [process_table EXCEPT ![sp.slot] = Spawned(t)]
  BY EntryCreated
<1>3. PICK g \in HeapGrowth : Grows(g)
  BY DEF SpawnCreate, Grows
<1>4. MemoryTypes' /\ KernelWindow' /\ Partitioned(FrameMap, free', heap_frames')
  BY <1>1, <1>3, HeapGrows
<1>5. FramesPartitioned'
  BY <1>1, <1>2, <1>4, SpawnPasses DEF FramesPartitioned, MemoryTypes
<1>6. ShellTypes' /\ ~Building /\ ~Building' /\ LocalsFormed'
  BY <1>1, MemoryIs, NoLocalsTyped DEF ShellTypes, Building, LocalsFormed, SpawnPcs
<1>7. RestTypes' /\ PidsUnique' /\ EntriesFormed' /\ EntriesMatchTasks' /\ UserTasksHaveEntries'
  BY <1>1, <1>2, SpawnedTyped, SpawnedPid, SpawnedFormed, SpawnedMatches, SpawnedHasEntry, PidIsFresh, ZenonT(60)
<1>8. Reaped'
  BY <1>1, <1>2, SpawnedAlive DEF Reaped
<1>9. NewTask(t, IF sp.is_kernel THEN "kernel" ELSE "user")
  BY <1>2 DEF NewEntry
<1>10. current_task' = 0 /\ kind'[0] = "kernel"
  BY <1>1, <1>9, Task0Kernel DEF NewTask
<1> QED
  BY <1>1, <1>4, <1>5, <1>6, <1>7, <1>8, <1>10, KernelStepKeepsIInv
-----------------------------------------------------------------------------
(* The end of a process *)

\* Entry H, with contents e, and its task are cleared.
Clears(H, e) ==
  /\ H \in Slots /\ H # 0 /\ e = process_table[H] /\ e.active /\ e.tid \in S!Tasks
  /\ Spaced(e, pde, pte) /\ e.is_kernel \in BOOLEAN
  /\ process_table'[H] = NoEntry
  /\ \A s \in Slots \ {H} : process_table'[s] = process_table[s]
  /\ \A u \in S!Tasks : state'[u] = IF u = e.tid THEN "UNUSED" ELSE state[u]
  /\ UNCHANGED <<kind, sp>>

\* Its address space goes with it, unless it is the kernel's.
GivesUpOwn(e) ==
  IF e.cr3 # NoFrame /\ e.cr3 # KernelDir
  THEN /\ pte' = Unmapped(e.cr3)
       /\ pde' = [pde EXCEPT ![e.cr3] = NoFrame]
       /\ free' = GiveBack(pmm_free(free, ReleasedTable(e.cr3)), e.cr3, e.code, e.stack)
  ELSE UNCHANGED <<pte, pde, free>>

LEMMA ReapClears ==
  ASSUME IInv, process_reap, NEW H, H = i, NEW e, e = process_table[i]
  PROVE  Clears(H, e) /\ GivesUpOwn(e)
<1>1. /\ ReapDue(i) /\ S!scheduler_reap_task(e.tid)
      /\ process_table' = [process_table EXCEPT ![i] = NoEntry]
      /\ GivesUpOwn(e) /\ UNCHANGED <<kind, sp>>
  BY ZenonT(60) DEF process_reap, GivesUpOwn
<1>2. H \in Slots /\ e.tid \in S!Tasks /\ e.is_kernel \in BOOLEAN
  BY MemoryIs, EntriesTyped DEF ShellTypes
<1>3. e.active /\ e.tid # 0
  BY <1>1 DEF ReapDue
<1>4. H # 0
  BY <1>3, EmptyFields DEF IInv, EntriesFormed
<1>5. Spaced(e, pde, pte)
  BY <1>2, <1>3, <1>4, EmptyFields DEF IInv, EntriesFormed, Formed
<1>6. \A u \in S!Tasks : state'[u] = IF u = e.tid THEN "UNUSED" ELSE state[u]
  BY <1>1, <1>2, ReapEffect
<1>7. process_table'[H] = NoEntry /\ \A s \in Slots \ {H} : process_table'[s] = process_table[s]
  BY <1>1, <1>2, MemoryIs DEF RestTypes
<1> QED
  BY <1>1, <1>2, <1>3, <1>4, <1>5, <1>6, <1>7 DEF Clears

LEMMA ClearedHolder ==
  ASSUME NEW H, NEW e, Clears(H, e)
  PROVE  H \in Holders /\ e = Locals(H) /\ OthersKept(H) /\ HoldsNothing(Locals(H)')
<1>1. H \in Holders /\ Locals(H) = e /\ Locals(H)' = NoEntry
  BY Constants DEF Clears, Locals
<1>2. OthersKept(H)
  BY Constants DEF Clears, Locals, OthersKept
<1> QED
  BY <1>1, <1>2, EmptyFields DEF HoldsNothing

LEMMA ReapedKernel ==
  ASSUME IInv, NEW H, NEW e, Clears(H, e), GivesUpOwn(e), heap_frames' = heap_frames, e.is_kernel
  PROVE  /\ MemoryTypes' /\ KernelWindow' /\ FramesPartitioned'
         /\ \A s \in Slots \ {H} : SpaceKept(process_table[s], pde, pte, pde', pte')
<1>1. SharesKernelSpace(e)
  BY DEF Clears, Spaced
<1>2. HoldsNothing(e) /\ UNCHANGED <<pte, pde, free>>
  BY <1>1 DEF SharesKernelSpace, HoldsNothing, GivesUpOwn
<1>3. MemoryTypes' /\ KernelWindow'
  BY <1>2, MemoryIs DEF MemoryTypes, IInv, KernelWindow
<1>4. Partitioned(FrameMap, free, heap_frames) /\ free \subseteq Frames /\ heap_frames \subseteq Frames
  BY MemoryIs DEF IInv, FramesPartitioned, MemoryTypes
<1>5. Partitioned(FrameMap', free, heap_frames)
  BY <1>2, <1>4, ClearedHolder, HeldNothing
<1> QED
  BY <1>2, <1>3, <1>5 DEF FramesPartitioned, SpaceKept

LEMMA ReapedUser ==
  ASSUME IInv, NEW H, NEW e, Clears(H, e), GivesUpOwn(e), heap_frames' = heap_frames, ~e.is_kernel
  PROVE  /\ MemoryTypes' /\ KernelWindow' /\ FramesPartitioned'
         /\ \A s \in Slots \ {H} : SpaceKept(process_table[s], pde, pte, pde', pte')
<1>1. HasSpace(e)
  BY DEF Clears, Spaced, Built, HasSpace
<1>2. {} \in SUBSET free /\ GivesUp(e, {})
  BY <1>1, Constants, GivesUpOnly DEF HasSpace, GivesUpOwn
<1> QED
  BY <1>1, <1>2, ClearedHolder, ReleaseSpace

LEMMA ReapedMemory ==
  ASSUME IInv, NEW H, NEW e, Clears(H, e), GivesUpOwn(e), heap_frames' = heap_frames
  PROVE  MemoryTypes' /\ KernelWindow' /\ FramesPartitioned' /\ EntriesFormed'
<1>1. /\ MemoryTypes' /\ KernelWindow' /\ FramesPartitioned'
      /\ \A s \in Slots \ {H} : SpaceKept(process_table[s], pde, pte, pde', pte')
  BY ReapedKernel, ReapedUser
<1>2. \A s \in Slots \ {H} : Formed(process_table[s], pde, pte) => Formed(process_table[s], pde', pte')
  BY <1>1, FormedKept
<1>3. Formed(NoEntry, pde', pte')
  BY DEF Formed
<1>4. EntriesFormed'
  BY <1>2, <1>3, Constants DEF IInv, EntriesFormed, Clears
<1> QED
  BY <1>1, <1>4

\* The entries that are left, and their tasks, are as before.
LEMMA LeftEntries ==
  ASSUME IInv, NEW H, NEW e, Clears(H, e), NEW s \in Slots, process_table'[s].active
  PROVE  /\ s # H /\ process_table'[s] = process_table[s] /\ process_table[s].active
         /\ state'[process_table[s].tid] = state[process_table[s].tid]
<1>1. s # H /\ process_table'[s] = process_table[s] /\ process_table[s].active
  BY EmptyFields DEF Clears
<1>2. process_table[s].tid # e.tid
  BY <1>1 DEF IInv, EntriesMatchTasks, Clears
<1> QED
  BY <1>1, <1>2, EntriesTyped DEF Clears

LEMMA ReapedTables ==
  ASSUME IInv, NEW H, NEW e, Clears(H, e)
  PROVE  EntriesMatchTasks' /\ UserTasksHaveEntries' /\ PidsUnique'
<1>1. kind' = kind
  BY DEF Clears
<1>2. EntriesMatchTasks'
  BY <1>1, LeftEntries DEF IInv, EntriesMatchTasks
<1>3. ASSUME NEW u \in S!Tasks, kind'[u] = "user", state'[u] \in {"RUNNABLE", "RUNNING"}
      PROVE  \E s \in Slots : EntryOf(s, u)'
  <2>1. u # e.tid /\ state'[u] = state[u]
    BY <1>3 DEF Clears
  <2>2. PICK s \in Slots : EntryOf(s, u)
    BY <1>1, <1>3, <2>1 DEF IInv, UserTasksHaveEntries
  <2> QED
    BY <2>1, <2>2 DEF EntryOf, Clears
<1>4. PidsUnique'
  BY LeftEntries DEF IInv, PidsUnique
<1> QED
  BY <1>2, <1>3, <1>4 DEF UserTasksHaveEntries

LEMMA ReapedSoFar ==
  ASSUME IInv, pc = "reap", NEW H, H = i, NEW e, Clears(H, e), NEW s \in Slots, s <= H
  PROVE  ~Dead(s)'
<1> SUFFICES ASSUME Dead(s)' PROVE FALSE
  OBVIOUS
<1>1. process_table'[s].active /\ state'[process_table'[s].tid] = "ZOMBIE"
  BY DEF Dead
<1>2. s # H /\ Dead(s)
  BY <1>1, LeftEntries DEF Dead
<1>3. s \in 0..(i - 1)
  BY <1>2, ProcessAssumption DEF Slots, Clears
<1> QED
  BY <1>2, <1>3 DEF IInv, Reaped

LEMMA ReapGoesOn ==
  ASSUME IInv, pc = "reap", ReapAdvance, UNCHANGED after,
         \A s \in Slots : s <= i => ~Dead(s)'
  PROVE  /\ i' \in Slots /\ pc' \in {"reap", "getchar", "batch"} /\ Reaped'
<1>1. i \in Slots /\ after \in {"getchar", "batch"}
  BY MemoryIs DEF ShellTypes
<1>2. CASE ReapLoopEnds
  <2>1. pc' = after /\ i' = 0
    BY <1>2 DEF ReapAdvance
  <2>2. i' \in Slots /\ \A s \in Slots : s <= i
    BY <1>2, <2>1, ProcessAssumption DEF ReapLoopEnds, Slots
  <2> QED
    BY <1>1, <2>1, <2>2 DEF Reaped
<1>3. CASE ~ReapLoopEnds
  <2>1. pc' = "reap" /\ i' = i + 1
    BY <1>3 DEF ReapAdvance
  <2>2. i' \in Slots /\ \A s \in 0..(i' - 1) : s \in Slots /\ s <= i
    BY <1>1, <1>3, <2>1, ProcessAssumption DEF ReapLoopEnds, Slots
  <2> QED
    BY <2>1, <2>2 DEF Reaped, ReapedPcs, SpawnPcs
<1> QED
  BY <1>2, <1>3

LEMMA ReapedTyped ==
  ASSUME IInv, process_table' = [process_table EXCEPT ![i] = NoEntry], UNCHANGED <<kind, next_pid>>
  PROVE  RestTypes'
<1>1. NoEntry \in [active : BOOLEAN, pid : 0..(PidMod - 1), tid : S!Tasks,
                   cr3 : Frames \cup {NoFrame, KernelDir},
                   code : Frames \cup {NoFrame}, stack : Frames \cup {NoFrame},
                   is_kernel : BOOLEAN]
  BY Constants, ProcessAssumption DEF NoEntry
<1> QED
  BY <1>1, MemoryIs, ZenonT(60) DEF RestTypes

LEMMA ReapKeepsIInv ==
  ASSUME IInv, Given, process_reap
  PROVE  IInv'
<1>1. /\ current_task = 0 /\ pc = "reap" /\ S!scheduler_reap_task(process_table[i].tid)
      /\ process_table' = [process_table EXCEPT ![i] = NoEntry]
      /\ ReapAdvance /\ UNCHANGED <<kind, next_pid, heap_frames, cpu, after, sp>>
  BY ZenonT(60) DEF process_reap, At
<1>2. PICK H, e : H = i /\ Clears(H, e) /\ GivesUpOwn(e)
  BY ReapClears
<1>3. MemoryTypes' /\ KernelWindow' /\ FramesPartitioned' /\ EntriesFormed'
  BY <1>1, <1>2, ReapedMemory
<1>4. EntriesMatchTasks' /\ UserTasksHaveEntries' /\ PidsUnique'
  BY <1>2, ReapedTables
<1>5. i' \in Slots /\ pc' \in {"reap", "getchar", "batch"} /\ Reaped'
  BY <1>1, <1>2, ReapedSoFar, ReapGoesOn
<1>6. ShellTypes' /\ ~Building /\ ~Building'
  BY <1>1, <1>5, MemoryIs DEF ShellTypes, Building
<1>7. LocalsFormed'
  BY <1>1, <1>5 DEF IInv, LocalsFormed, SpawnPcs
<1>8. RestTypes' /\ current_task' = 0 /\ kind'[0] = "kernel"
  BY <1>1, ReapedTyped, ReapEffect DEF IInv, Control
<1> QED
  BY <1>1, <1>3, <1>4, <1>5, <1>6, <1>7, <1>8, KernelStepKeepsIInv
=============================================================================
