------------------------------ MODULE Process -------------------------------
(***************************************************************************)
(* Processes from spawn to reap: kernel/process.c on top of the scheduler, *)
(* the frame pool and the user window of the page directories, driven by   *)
(* the only caller the kernel has, its main loop in task 0                 *)
(* (kernel/kernel.c), and disturbed by the timer and keyboard interrupts.  *)
(*                                                                         *)
(* The frame pool is the abstract one that pmm.c implements (FrameSet);    *)
(* kmalloc is reduced to which stack blocks are live and to the frames the *)
(* heap takes when it grows.  Of an address space the module keeps what    *)
(* differs between processes: the directory entry of the 4 MB user window  *)
(* and the code and stack page below it.                                   *)
(*                                                                         *)
(* context_switch saves no flags: the interrupt flag belongs to the        *)
(* CPU, and a task resumes with the flag its predecessor left.             *)
(***************************************************************************)
EXTENDS Integers, FiniteSets, FiniteSetsExt

CONSTANTS MaxTasks, Quantum, TickMod, Stacks, NoStack, \* see Scheduler
          ProcessMax,    \* PROCESS_MAX
          PidMod,        \* pids are uint32_t: 2^32
          NFrames,       \* the frames spawns and the growing heap take from
          HeapStarts,    \* how many of them the heap may have when the main loop starts
          HeapCaps,      \* bound: a heap that has taken n of them grows to the next cap
          UserFaults     \* may user programs fault?

ASSUME ProcessAssumption ==
  /\ MaxTasks \in Nat \ {0}
  /\ Quantum \in Nat \ {0} /\ TickMod \in Nat /\ Quantum < TickMod
  /\ NoStack \notin Stacks
  /\ ProcessMax \in Nat \ {0}
  /\ PidMod \in Nat
  /\ PidMod > ProcessMax + 2
  /\ NFrames \in Nat
  /\ HeapStarts \subseteq 0..NFrames
  /\ HeapCaps \subseteq Nat /\ HeapCaps # {}
  /\ UserFaults \in BOOLEAN

VARIABLES state, stack_base, heap, current_task, tick_since_switch, preempt_pending,
          kind,          \* what each task runs: a kernel function or user code
          process_table, next_pid,
          free,          \* the frame pool
          heap_frames,   \* frames the kernel heap has taken
          pde,           \* user-window entry of each directory: a table, or 0
          pte,           \* code and stack page of each table: a frame, or 0
          cr3,           \* paging_current_dir_phys
          mode,          \* "kernel", "user", or "stopped" after a panic
          iflag,            \* the CPU's interrupt flag
          esp0,          \* the task whose stack tss.esp0 points into
          pc, after,     \* where task 0 is, and where it goes from process_reap
          i,             \* process_reap's loop variable
          sp             \* the locals of process_spawn_common

sched == <<state, stack_base, heap, current_task, tick_since_switch, preempt_pending>>
procs == <<kind, process_table, next_pid>>
memory == <<free, heap_frames, pde, pte>>
cpu == <<cr3, mode, iflag, esp0>>
shell == <<pc, after, i, sp>>
vars == <<sched, procs, memory, cpu, shell>>

S == INSTANCE Scheduler

Slots == 0..(ProcessMax - 1)
Frames == 1..NFrames
NoFrame == 0
Pages == {"code", "stack"}

\* The kernel's own directory with its user-mode test pages, set up at boot
\* (paging_init, usermode_prepare) from frames that never return to the pool.
KernelDir == NFrames + 1
KernelTable == NFrames + 2
KernelPages == [code |-> NFrames + 3, stack |-> NFrames + 4]

EmptyTable == [p \in Pages |-> NoFrame]
NoEntry == [active |-> FALSE, pid |-> 0, tid |-> 0, cr3 |-> NoFrame,
            code |-> NoFrame, stack |-> NoFrame, is_kernel |-> FALSE]
KernelEntry == [active |-> TRUE, pid |-> 1, tid |-> 0, cr3 |-> KernelDir,
                code |-> NoFrame, stack |-> NoFrame, is_kernel |-> TRUE]
NoLocals == [slot |-> 0, is_kernel |-> FALSE, cr3 |-> NoFrame, code |-> NoFrame, stack |-> NoFrame]

\* The state process_init, usermode_prepare and the rest of the boot sequence
\* leave when kernel_main calls kernel_run_selftest.
\* When the main loop starts, the first n frames of the pool are the heap's.
InitWith(n) ==
  /\ S!Init
  /\ kind = [t \in S!Tasks |-> "kernel"]
  /\ process_table = [s \in Slots |-> IF s = 0 THEN KernelEntry ELSE NoEntry]
  /\ next_pid = 2
  /\ free = Frames \ (1..n)
  /\ heap_frames = 1..n
  /\ pde = [d \in Frames \cup {KernelDir} |-> IF d = KernelDir THEN KernelTable ELSE NoFrame]
  /\ pte = [t \in Frames \cup {KernelTable} |-> IF t = KernelTable THEN KernelPages ELSE EmptyTable]
  /\ cr3 = KernelDir
  /\ mode = "kernel"
  /\ iflag = TRUE
  /\ esp0 = 0
  /\ pc = "batch" /\ after = "getchar" /\ i = 0 /\ sp = NoLocals

Init == \E n \in HeapStarts : InitWith(n)
-----------------------------------------------------------------------------
(* The frame pool and the page tables *)

pmm_alloc(pool) == IF pool = {} THEN NoFrame ELSE Min(pool)
pmm_free(pool, f) == IF f = NoFrame THEN pool ELSE pool \cup {f}

HeapCap == Min({c \in HeapCaps : c >= Cardinality(heap_frames)})

\* The frames that may leave the pool when kmalloc grows the heap (heap_map_more):
\* none while a free block is large enough, else the lowest ones, page by page,
\* until there is room or growth fails.
HeapGrowth ==
  {g \in {{f \in free : f < m} : m \in free \cup {NFrames + 1}} :
     Cardinality(heap_frames \cup g) <= HeapCap}

\* The table paging_map_page uses for the user window of directory d: the one
\* that is there, or a new frame.
TableFor(d) == IF pde[d] # NoFrame THEN pde[d] ELSE pmm_alloc(free)

\* paging_unmap_page of both user pages in directory d.
Unmapped(d) == IF pde[d] = NoFrame THEN pte ELSE [pte EXCEPT ![pde[d]] = EmptyTable]

\* process_release_user_table on directory d, once its pages are unmapped: the
\* table is empty, so its frame is freed and the directory entry cleared.
ReleasedTable(d) == pde[d]

\* The frames of a process or of a failed spawn go back to the pool.
GiveBack_DirOnly(pool, d, code, stack) == pmm_free(pool, d)
GiveBack(pool, d, code, stack) ==
  pmm_free(pmm_free(pmm_free(pool, d), code), stack)

process_find_by_tid(tid) == {s \in Slots : process_table[s].active /\ process_table[s].tid = tid}

\* process_activate_tid: the directory of the first entry with this tid, else the
\* kernel's.
DirectoryOf(tid) ==
  LET found == process_find_by_tid(tid)
  IN  IF found # {} /\ process_table[Min(found)].cr3 # NoFrame
      THEN process_table[Min(found)].cr3
      ELSE KernelDir

\* The directory that is active after a call of the scheduler: it changes when
\* the task does.
ActivateNext ==
  cr3' = IF current_task' # current_task THEN DirectoryOf(current_task') ELSE cr3
-----------------------------------------------------------------------------
(* Tasks other than 0 *)

OtherTask(k, m) == current_task # 0 /\ kind[current_task] = k /\ mode = m

\* demo_task, app_counter and app_writer yield a number of times, then return
\* to scheduler_task_bootstrap, which exits.
KernelTaskYield ==
  /\ OtherTask("kernel", "kernel")
  /\ S!scheduler_yield
  /\ ActivateNext
  /\ UNCHANGED <<procs, memory, mode, iflag, esp0, shell>>

KernelTaskExit ==
  /\ OtherTask("kernel", "kernel")
  /\ S!scheduler_exit_current
  /\ ActivateNext
  /\ UNCHANGED <<procs, memory, mode, iflag, esp0, shell>>

EnteredStack_Stale == esp0
EnteredStack == current_task

\* process_user_task_entry: point tss.esp0 into this task's stack and iret to
\* ring 3 with interrupts enabled.
process_user_task_entry ==
  /\ OtherTask("user", "kernel")
  /\ esp0' = EnteredStack
  /\ mode' = "user"
  /\ iflag' = TRUE
  /\ UNCHANGED <<sched, procs, memory, cr3, shell>>

\* int 0x81 (usermode_exit_stub) and the process-exit system call enter through
\* trap gates, which leave the flag as it was in user mode.
ExitGateFlag_Interrupt == FALSE
ExitGateFlag == iflag
UserExit ==
  /\ OtherTask("user", "user")
  /\ S!scheduler_exit_current
  /\ ActivateNext
  /\ mode' = "kernel"
  /\ iflag' = ExitGateFlag
  /\ UNCHANGED <<procs, memory, esp0, shell>>

\* A page fault enters through an interrupt gate, which clears iflag, and
\* paging_handle_page_fault ends the task from there.
UserPageFault ==
  /\ UserFaults
  /\ OtherTask("user", "user")
  /\ S!scheduler_exit_current
  /\ ActivateNext
  /\ mode' = "kernel"
  /\ iflag' = FALSE
  /\ UNCHANGED <<procs, memory, esp0, shell>>

\* Any other CPU exception ends in interrupts_fault_panic, from user mode too.
UserException ==
  /\ UserFaults
  /\ OtherTask("user", "user")
  /\ mode' = "stopped"
  /\ iflag' = FALSE
  /\ UNCHANGED <<sched, procs, memory, cr3, esp0, shell>>
-----------------------------------------------------------------------------
(* Interrupts *)

Wake == pc' = IF current_task = 0 /\ pc = "hlt" THEN "poll" ELSE pc

timer_isr ==
  /\ iflag
  /\ S!scheduler_on_tick
  /\ Wake
  /\ UNCHANGED <<procs, memory, cpu, after, i, sp>>

keyboard_isr ==
  /\ iflag
  /\ pc = "hlt"
  /\ Wake
  /\ UNCHANGED <<sched, procs, memory, cpu, after, i, sp>>
-----------------------------------------------------------------------------
(* Task 0: the main loop of kernel_main and the commands that matter here *)

At(l) == current_task = 0 /\ mode = "kernel" /\ pc = l

\* scheduler_yield called by task 0, which goes on at l when it is resumed.
YieldTo(l) ==
  /\ \/ S!scheduler_yield
     \/ S!scheduler_pick_next(state, 0) < 0 /\ UNCHANGED sched
  /\ ActivateNext
  /\ pc' = l

\* Every turn of the loop calls process_reap between scheduler_run_pending and
\* keyboard_try_getchar.
AfterPoll_NoReap == "getchar"
AfterPoll == "reap"

Poll ==
  /\ At("poll")
  /\ IF preempt_pending THEN YieldTo(AfterPoll) ELSE pc' = AfterPoll /\ UNCHANGED <<sched, cr3>>
  /\ after' = "getchar" /\ i' = 0
  /\ UNCHANGED <<procs, memory, mode, iflag, esp0, sp>>

ReapDue(s) ==
  /\ process_table[s].active
  /\ process_table[s].tid # 0
  /\ state[process_table[s].tid] = "ZOMBIE"

ReapLoopEnds_Early == i = ProcessMax - 2
ReapLoopEnds == i = ProcessMax - 1
ReapAdvance ==
  IF ReapLoopEnds THEN pc' = after /\ i' = 0 ELSE i' = i + 1 /\ pc' = pc

\* One iteration of process_reap that finds a dead process.
process_reap ==
  LET e == process_table[i]
      user == e.cr3 # NoFrame /\ e.cr3 # KernelDir
  IN  /\ At("reap")
      /\ ReapDue(i)
      /\ IF user
         THEN /\ pte' = Unmapped(e.cr3)
              /\ pde' = [pde EXCEPT ![e.cr3] = NoFrame]
              /\ free' = GiveBack(pmm_free(free, ReleasedTable(e.cr3)), e.cr3, e.code, e.stack)
         ELSE UNCHANGED <<pte, pde, free>>
      /\ process_table' = [process_table EXCEPT ![i] = NoEntry]
      /\ S!scheduler_reap_task(e.tid)
      /\ ReapAdvance
      /\ UNCHANGED <<kind, next_pid, heap_frames, cpu, after, sp>>

ReapSkip ==
  /\ At("reap")
  /\ ~ReapDue(i)
  /\ ReapAdvance
  /\ UNCHANGED <<sched, procs, memory, cpu, after, sp>>

\* keyboard_try_getchar: no character, or the last one of a command line.
GetChar ==
  /\ At("getchar")
  /\ pc' \in {"hlt", "batch", "taskdemo"}
  /\ UNCHANGED <<sched, procs, memory, cpu, after, i, sp>>

\* run, sysrun, spawnproc, stressproc and selftest: any number of spawns, and of
\* yields each followed by process_reap.
BatchYield ==
  /\ At("batch")
  /\ YieldTo("reap")
  /\ after' = "batch" /\ i' = 0
  /\ UNCHANGED <<procs, memory, mode, iflag, esp0, sp>>

BatchDone ==
  /\ At("batch")
  /\ pc' = "poll"
  /\ UNCHANGED <<sched, procs, memory, cpu, after, i, sp>>

\* taskdemo creates two tasks that are no processes, and yields without reaping.
TaskDemoCreate ==
  /\ At("taskdemo") \/ At("taskdemo2")
  /\ \E t \in S!Tasks, b \in Stacks :
       /\ S!scheduler_create_task(t, b)
       /\ kind' = [kind EXCEPT ![t] = "kernel"]
  /\ pc' = IF pc = "taskdemo" THEN "taskdemo2" ELSE "demo"
  /\ \E g \in HeapGrowth : free' = free \ g /\ heap_frames' = heap_frames \cup g
  /\ UNCHANGED <<process_table, next_pid, pde, pte, cpu, after, i, sp>>

TaskDemoYield ==
  /\ At("demo")
  /\ YieldTo("demo")
  /\ UNCHANGED <<procs, memory, mode, iflag, esp0, after, i, sp>>

\* After its yields, or because a task could not be created.
TaskDemoDone ==
  /\ pc \in {"taskdemo", "taskdemo2", "demo"} /\ At(pc)
  /\ pc' = "poll"
  /\ UNCHANGED <<sched, procs, memory, cpu, after, i, sp>>
-----------------------------------------------------------------------------
(* process_spawn_common, called by task 0 from "batch" *)

\* Find a free slot; a kernel process shares the kernel's directory.
Spawn(is_kernel) ==
  LET idle == {s \in Slots : ~process_table[s].active}
  IN  /\ At("batch")
      /\ idle # {}
      /\ sp' = [NoLocals EXCEPT !.slot = Min(idle), !.is_kernel = is_kernel,
                                !.cr3 = IF is_kernel THEN KernelDir ELSE NoFrame]
      /\ pc' = IF is_kernel THEN "create" ELSE "clone"
      /\ UNCHANGED <<sched, procs, memory, cpu, after, i>>

\* paging_clone_kernel_directory: directory entries with the user flag are not
\* copied, the user window of the new directory is empty.
ClonedWindow == NoFrame

SpawnClone ==
  LET d == pmm_alloc(free)
  IN  /\ At("clone")
      /\ IF d = NoFrame
         THEN pc' = "batch" /\ sp' = NoLocals /\ UNCHANGED <<free, pde>>
         ELSE /\ free' = free \ {d}
              /\ pde' = [pde EXCEPT ![d] = ClonedWindow]
              /\ sp' = [sp EXCEPT !.cr3 = d]
              /\ pc' = "frames"
      /\ UNCHANGED <<sched, procs, heap_frames, pte, cpu, after, i>>

\* process_build_user_image, first part: switch to the new directory, unmap the
\* inherited pages, allocate the code and the stack frame.
SpawnFrames ==
  LET code == pmm_alloc(free)
      stack == pmm_alloc(free \ {code})
  IN  /\ At("frames")
      /\ cr3' = sp.cr3
      /\ pte' = Unmapped(sp.cr3)
      /\ free' = free \ {code, stack}
      /\ sp' = [sp EXCEPT !.code = code, !.stack = stack]
      /\ pc' = IF NoFrame \in {code, stack} THEN "fail" ELSE "map"
      /\ UNCHANGED <<sched, procs, heap_frames, pde, mode, iflag, esp0, after, i>>

\* Second part: map both pages.  The first paging_map_page allocates the table
\* and fails when there is no frame for it; the second finds the table.
SpawnMap ==
  LET table == TableFor(sp.cr3)
  IN  /\ At("map")
      /\ IF table = NoFrame
         THEN pc' = "fail" /\ UNCHANGED <<free, pde, pte>>
         ELSE /\ free' = free \ {table}
              /\ pde' = [pde EXCEPT ![sp.cr3] = table]
              /\ pte' = [pte EXCEPT ![table] = [code |-> sp.code, stack |-> sp.stack]]
              /\ pc' = "image"
      /\ UNCHANGED <<sched, procs, heap_frames, cpu, after, i, sp>>

\* Third part: the image is read through a heap buffer.  A rejected image fails
\* the spawn; without a file, or without memory for the buffer, a built-in
\* program is emitted.  On success the previous directory is restored.
SpawnImage ==
  /\ At("image")
  /\ \E g \in HeapGrowth : free' = free \ g /\ heap_frames' = heap_frames \cup g
  /\ \/ pc' = "fail" /\ UNCHANGED cr3
     \/ pc' = "create" /\ cr3' = KernelDir
  /\ UNCHANGED <<sched, procs, pde, pte, mode, iflag, esp0, after, i, sp>>

\* paging_switch_directory(prev_cr3) under the fail label: task 0 came from the
\* kernel's directory.
FailDirectory_Kept == cr3
FailDirectory == KernelDir

\* The fail label of process_build_user_image, and the pmm_free_frame of the
\* directory in its caller.
SpawnFail ==
  /\ At("fail")
  /\ pte' = Unmapped(sp.cr3)
  /\ free' = GiveBack(pmm_free(free, ReleasedTable(sp.cr3)), sp.cr3, sp.code, sp.stack)
  /\ pde' = [pde EXCEPT ![sp.cr3] = NoFrame]
  /\ cr3' = FailDirectory
  /\ pc' = "batch" /\ sp' = NoLocals
  /\ UNCHANGED <<sched, procs, heap_frames, mode, iflag, esp0, after, i>>

process_pid_in_use(p) == \E s \in Slots : process_table[s].active /\ process_table[s].pid = p

\* The k-th pid process_alloc_pid tries: next_pid counts up, and after a wrap
\* past 2^32 goes on at 2.
PidTry(k) == 2 + ((next_pid - 2 + k) % (PidMod - 2))

PidTries_One == 0..0
PidTries == 0..ProcessMax
process_alloc_pid ==
  LET hits == {k \in PidTries : ~process_pid_in_use(PidTry(k))}
  IN  IF hits # {} THEN [pid |-> PidTry(Min(hits)), next |-> PidTry(Min(hits) + 1)]
                   ELSE [pid |-> 2, next |-> PidTry(ProcessMax + 1)]

\* Create the task and fill in the table entry, with interrupts off.
SpawnCreate ==
  /\ At("create")
  /\ \E t \in S!Tasks, b \in Stacks :
       /\ S!scheduler_create_task(t, b)
       /\ kind' = [kind EXCEPT ![t] = IF sp.is_kernel THEN "kernel" ELSE "user"]
       /\ process_table' = [process_table EXCEPT ![sp.slot] =
            [active |-> TRUE, pid |-> process_alloc_pid.pid, tid |-> t, cr3 |-> sp.cr3,
             code |-> sp.code, stack |-> sp.stack, is_kernel |-> sp.is_kernel]]
       /\ next_pid' = process_alloc_pid.next
  /\ \E g \in HeapGrowth : free' = free \ g /\ heap_frames' = heap_frames \cup g
  /\ pc' = "batch" /\ sp' = NoLocals
  /\ UNCHANGED <<pde, pte, cpu, after, i>>

\* scheduler_create_task returns -1: no slot, or no memory for the stack.
SpawnCreateFails ==
  /\ At("create")
  /\ \E g \in HeapGrowth :
       /\ heap_frames' = heap_frames \cup g
       /\ IF sp.is_kernel
          THEN free' = free \ g /\ UNCHANGED <<pde, pte>>
          ELSE /\ free' = GiveBack(pmm_free(free \ g, ReleasedTable(sp.cr3)), sp.cr3, sp.code, sp.stack)
               /\ pde' = [pde EXCEPT ![sp.cr3] = NoFrame]
               /\ pte' = Unmapped(sp.cr3)
  /\ pc' = "batch" /\ sp' = NoLocals
  /\ UNCHANGED <<sched, procs, cpu, after, i>>
-----------------------------------------------------------------------------
TaskStep == KernelTaskYield \/ KernelTaskExit \/ process_user_task_entry \/ UserExit
Faults == UserPageFault \/ UserException
SpawnStep ==
  \/ SpawnClone \/ SpawnFrames \/ SpawnMap \/ SpawnImage \/ SpawnFail
  \/ SpawnCreate \/ SpawnCreateFails
LoopStep == Poll \/ process_reap \/ ReapSkip \/ GetChar
CommandStep ==
  \/ \E k \in BOOLEAN : Spawn(k)
  \/ BatchYield \/ BatchDone \/ TaskDemoCreate \/ TaskDemoYield \/ TaskDemoDone

CommandEnds == BatchDone \/ TaskDemoDone

Next == TaskStep \/ Faults \/ SpawnStep \/ LoopStep \/ CommandStep \/ timer_isr \/ keyboard_isr

Spec == Init /\ [][Next]_vars

(***************************************************************************)
(* The timer keeps ticking, the CPU keeps executing the task it is in, and *)
(* every loop of the code that is run here is bounded: a kernel task has a *)
(* bounded number of yields, a command a bounded number of spawns and      *)
(* yields, a user program ends.                                            *)
(***************************************************************************)
FairSpec ==
  /\ Spec
  /\ WF_vars(timer_isr)
  /\ WF_vars(LoopStep)
  /\ WF_vars(SpawnStep)
  /\ WF_vars(process_user_task_entry)
  /\ WF_vars(UserExit)
  /\ \A t \in S!Tasks \ {0} : SF_vars(current_task = t /\ KernelTaskExit)
  /\ SF_vars(CommandEnds)

\* The same without the assumption that the tasks' own code comes to an end.
AnyProgramFairSpec ==
  /\ Spec
  /\ WF_vars(timer_isr)
  /\ WF_vars(LoopStep)
  /\ WF_vars(SpawnStep)
  /\ WF_vars(process_user_task_entry)
  /\ SF_vars(CommandEnds)
-----------------------------------------------------------------------------
SpawnPcs == {"clone", "frames", "map", "image", "fail", "create"}

TypeOK ==
  /\ S!TypeOK
  /\ kind \in [S!Tasks -> {"kernel", "user"}]
  /\ process_table \in
       [Slots -> [active : BOOLEAN, pid : 0..(PidMod - 1), tid : S!Tasks,
                  cr3 : Frames \cup {NoFrame, KernelDir},
                  code : Frames \cup {NoFrame}, stack : Frames \cup {NoFrame},
                  is_kernel : BOOLEAN]]
  /\ next_pid \in 2..(PidMod - 1)
  /\ free \subseteq Frames
  /\ heap_frames \subseteq Frames
  /\ pde \in [Frames \cup {KernelDir} -> Frames \cup {NoFrame, KernelTable}]
  /\ pte \in [Frames \cup {KernelTable} -> [Pages -> 0..(NFrames + 4)]]
  /\ cr3 \in Frames \cup {KernelDir}
  /\ mode \in {"kernel", "user", "stopped"}
  /\ iflag \in BOOLEAN
  /\ esp0 \in S!Tasks
  /\ pc \in SpawnPcs \cup {"poll", "reap", "getchar", "hlt", "batch", "taskdemo", "taskdemo2", "demo"}
  /\ after \in {"getchar", "batch"}
  /\ i \in Slots
  /\ sp \in [slot : Slots, is_kernel : BOOLEAN, cr3 : Frames \cup {NoFrame, KernelDir},
            code : Frames \cup {NoFrame}, stack : Frames \cup {NoFrame}]

\* Who holds frames: the process of a table slot, or the spawn in progress.
Holders == 0..ProcessMax
Locals(h) == IF h = ProcessMax THEN sp ELSE process_table[h]
UserTable(d) == IF d \in Frames THEN pde[d] ELSE NoFrame
FrameOf(h, role) ==
  LET e == Locals(h)
  IN  CASE role = "dir"   -> e.cr3
        [] role = "table" -> UserTable(e.cr3)
        [] role = "code"  -> e.code
        [] role = "stack" -> e.stack
Roles == {"dir", "table", "code", "stack"}

\* No frame is lost, shared or freed twice, on any path through spawn, its
\* failures, exit and reap: every frame of the pool is free, or the heap's, or
\* has one role for one process or for the spawn in progress.
FramesAccounted ==
  \A f \in Frames :
    LET uses == {u \in Holders \X Roles : FrameOf(u[1], u[2]) = f}
    IN  Cardinality(uses) + (IF f \in free THEN 1 ELSE 0) + (IF f \in heap_frames THEN 1 ELSE 0) = 1

\* The user window of a process maps its own code and stack frame and nothing
\* else, from its spawn to its reap, and spawning never disturbs the kernel's
\* own user-mode test mapping.
WindowsPrivate ==
  /\ \A s \in Slots :
       LET e == process_table[s]
       IN  e.active /\ ~e.is_kernel =>
             /\ pde[e.cr3] # NoFrame
             /\ pte[pde[e.cr3]] = [code |-> e.code, stack |-> e.stack]
  /\ pde[KernelDir] = KernelTable
  /\ pte[KernelTable] = KernelPages

\* The CPU runs every task in that task's own directory, a task without a process
\* in the kernel's, and never in a freed frame; only task 0 leaves its directory,
\* while it builds an image.
DirectoryFollowsTask ==
  /\ cr3 \notin free
  /\ IF pc \in {"map", "image", "fail"} /\ current_task = 0
     THEN cr3 = sp.cr3
     ELSE \/ \E s \in Slots : LET e == process_table[s]
                            IN  e.active /\ e.tid = current_task /\ e.cr3 = cr3
          \/ cr3 = KernelDir /\ kind[current_task] = "kernel"

\* A process runs in its own address space: the directory loaded is the running
\* task's, and what it maps in the user window is that process's code and stack.
OwnSpace == DirectoryFollowsTask /\ WindowsPrivate

\* The process table and the task table agree: an active entry has a live or
\* zombie task of its kind, and no two have the same task.  scheduler_create_task
\* would hand out the slot of a zombie that process_reap has not seen, so this
\* rests on task 0 reaping before it creates tasks.
EntriesMatchTasks ==
  \A s \in Slots :
    LET e == process_table[s]
    IN  e.active =>
          /\ state[e.tid] # "UNUSED"
          /\ (kind[e.tid] = "kernel") = e.is_kernel
          /\ \A r \in Slots \ {s} : process_table[r].active => process_table[r].tid # e.tid

\* The tables keep their types and agree with each other.
TablesAgree == TypeOK /\ EntriesMatchTasks

\* A pid names one process: process_alloc_pid skips the pids that are in use, also
\* once next_pid has wrapped around, and never gives out the kernel's pid 1.
PidsUnique ==
  \A s \in Slots :
    process_table[s].active =>
      /\ process_table[s].pid = 1 <=> s = 0
      /\ process_table[s].pid # 0
      /\ \A r \in Slots \ {s} :
           process_table[r].active => process_table[r].pid # process_table[s].pid

\* When user code runs, tss.esp0 points into the kernel stack of the running
\* task, and that stack is allocated: an interrupt from ring 3 lands there.
TrapStackOwned == mode = "user" => esp0 = current_task /\ stack_base[esp0] \in heap

\* The main loop halts only with interrupts enabled: a CPU that executes hlt
\* with the flag cleared is never woken, by the timer nor by the keyboard.
HaltsAwake == At("hlt") => iflag

\* Every process that is spawned ends up reaped, its slot and frames free again.
EveryProcessReaped == \A s \in Slots \ {0} : process_table[s].active ~> ~process_table[s].active

\* Task switching is preemptive: a task whose quantum has expired loses the CPU,
\* whatever its code does.
Preempted ==
  \A t \in S!Tasks : current_task = t /\ preempt_pending ~> current_task # t \/ ~preempt_pending
=============================================================================
