-------------------------- MODULE ProcessLoopProofs -------------------------
(***************************************************************************)
(* The steps that leave the process table and memory alone preserve the    *)
(* invariant of ProcessProofs: those of the tasks and of user programs,    *)
(* the interrupts, and task 0's main loop as far as it only moves on.      *)
(***************************************************************************)
EXTENDS ProcessProofs

USE SMTT(60)

Stored == EntriesFormed /\ LocalsFormed /\ KernelWindow /\ FramesPartitioned /\ PidsUnique

LEMMA StoredKept ==
  ASSUME Stored, UNCHANGED <<procs, memory, sp>>,
         pc' = pc \/ (pc \notin SpawnPcs /\ pc' \notin SpawnPcs)
  PROVE  Stored'
<1>1. EntriesFormed' /\ KernelWindow'
  BY DEF Stored, EntriesFormed, KernelWindow, procs, memory
<1>2. LocalsFormed'
  BY DEF Stored, LocalsFormed, procs, memory, SpawnPcs
<1>3. FramesPartitioned'
  <2>1. FrameMap' = FrameMap
    BY DEF FrameMap, Locals, UserTable, procs, memory
  <2> QED
    BY <2>1 DEF Stored, FramesPartitioned, memory
<1>4. PidsUnique'
  BY DEF Stored, PidsUnique, procs
<1> QED
  BY <1>1, <1>2, <1>3, <1>4 DEF Stored

\* The directory process_activate_tid loads is the one of the task's entry.
LEMMA DirectoryOfTask ==
  ASSUME IInv, LeastNumbers, NEW t \in S!Tasks
  PROVE  \/ \E s \in Slots : EntryOf(s, t) /\ process_table[s].cr3 = DirectoryOf(t)
         \/ DirectoryOf(t) = KernelDir /\ \A s \in Slots : ~EntryOf(s, t)
<1> DEFINE found == process_find_by_tid(t)
<1>1. \A s \in Slots : s \in found <=> EntryOf(s, t)
  BY DEF process_find_by_tid, EntryOf
<1>2. found \in SUBSET Nat /\ found \subseteq Slots
  BY Constants, ZenonT(60) DEF process_find_by_tid
<1>3. CASE found = {}
  BY <1>1, <1>3 DEF DirectoryOf
<1>4. CASE found # {}
  <2>1. Min(found) \in Slots /\ EntryOf(Min(found), t)
    BY <1>1, <1>2, <1>4, LeastIn
  <2>2. \A s \in Slots : process_table[s].active => process_table[s].cr3 # NoFrame
    BY ActiveHasDirectory DEF IInv, EntriesFormed
  <2>3. process_table[Min(found)].cr3 # NoFrame
    BY <2>1, <2>2 DEF EntryOf
  <2> QED
    BY <1>4, <2>1, <2>3 DEF DirectoryOf
<1> QED
  BY <1>3, <1>4

\* After a switch the directory is the new task's.
LEMMA SwitchLoads ==
  ASSUME IInv, LeastNumbers, ActivateNext, UNCHANGED process_table, current_task' \in S!Tasks,
         ~Building, ~Building'
  PROVE  DirectoryRight'
<1>1. CASE current_task' = current_task
  BY <1>1 DEF IInv, DirectoryRight, ActivateNext, EntryOf
<1>2. CASE current_task' # current_task
  <2>1. cr3' = DirectoryOf(current_task')
    BY <1>2 DEF ActivateNext
  <2>2. \/ \E s \in Slots : EntryOf(s, current_task') /\ process_table[s].cr3 = cr3'
        \/ cr3' = KernelDir /\ \A s \in Slots : ~EntryOf(s, current_task')
    BY <2>1, DirectoryOfTask
  <2> QED
    BY <2>2 DEF DirectoryRight, EntryOf
<1> QED
  BY <1>1, <1>2

LEMMA DirectoryTyped ==
  ASSUME IInv, DirectoryRight', RestTypes', ~Building', EntriesFormed'
  PROVE  cr3' \in Frames \cup {KernelDir}
<1>1. \A s \in Slots : process_table'[s].active => process_table'[s].cr3 # NoFrame
  BY ActiveHasDirectory DEF EntriesFormed
<1>2. \A s \in Slots : process_table'[s].cr3 \in Frames \cup {NoFrame, KernelDir}
  BY DEF RestTypes
<1> QED
  BY <1>1, <1>2 DEF DirectoryRight, EntryOf

\* A step that may switch tasks, and leaves what is stored alone.
LEMMA SwitchKeepsIInv ==
  ASSUME IInv, Given, ActivateNext, UNCHANGED <<procs, memory, sp>>,
         pc \notin SpawnPcs, pc' \notin SpawnPcs,
         TasksKept,
         mode' \in {"kernel", "user", "stopped"}, iflag' \in BOOLEAN, esp0' \in S!Tasks,
         ShellTypes', Control', Reaped'
  PROVE  IInv'
<1>1. Stored'
  BY StoredKept DEF IInv, Stored
<1>2. EntriesMatchTasks' /\ UserTasksHaveEntries'
  BY TablesKept
<1>3. current_task' \in S!Tasks
  BY DEF Given, SchedulerInv, S!TypeOK
<1>4. ~Building /\ ~Building'
  BY DEF Building, SpawnPcs
<1>5. DirectoryRight'
  BY <1>3, <1>4, SwitchLoads DEF procs, Given
<1>6. RestTypes' /\ MemoryTypes'
  BY TypeParts DEF IInv, RestTypes, MemoryTypes, procs, memory
<1>7. CpuTypes'
  BY <1>1, <1>4, <1>5, <1>6, DirectoryTyped DEF CpuTypes, Stored
<1> QED
  BY <1>1, <1>2, <1>5, <1>6, <1>7, TypeParts DEF IInv, Stored, Given, SchedulerInv

\* A step of the task that keeps the CPU, which leaves what is stored alone.
LEMMA StayKeepsIInv ==
  ASSUME IInv, Given, UNCHANGED <<procs, memory, sp, state, current_task, cr3>>,
         pc' = pc \/ (pc \notin SpawnPcs /\ pc' \notin SpawnPcs),
         mode' \in {"kernel", "user", "stopped"}, iflag' \in BOOLEAN, esp0' \in S!Tasks,
         ShellTypes', Control', Reaped'
  PROVE  IInv'
<1>1. Stored'
  BY StoredKept DEF IInv, Stored
<1>2. EntriesMatchTasks' /\ UserTasksHaveEntries'
  BY TablesKept DEF TasksKept
<1>3. Building' = Building
  BY DEF Building, SpawnPcs
<1>4. DirectoryRight'
  BY <1>3 DEF IInv, DirectoryRight, EntryOf, procs
<1>5. RestTypes' /\ MemoryTypes' /\ CpuTypes'
  BY TypeParts DEF IInv, RestTypes, MemoryTypes, CpuTypes, procs, memory
<1> QED
  BY <1>1, <1>2, <1>4, <1>5, TypeParts DEF IInv, Stored, Given, SchedulerInv

LEMMA StutterKeepsIInv ==
  ASSUME IInv, Given, UNCHANGED vars
  PROVE  IInv'
<1>1. ShellTypes' /\ CpuTypes'
  BY MemoryIs DEF vars, cpu, shell, ShellTypes, CpuTypes
<1>2. Control' /\ Reaped'
  BY DEF IInv, Control, Reaped, Dead, vars, sched, procs, cpu, shell
<1> QED
  BY <1>1, <1>2, StayKeepsIInv DEF CpuTypes, vars, sched, cpu, shell

\* Another task than task 0 runs: where task 0 is.
LEMMA OtherRuns ==
  ASSUME IInv, current_task # 0
  PROVE  /\ pc \in {"reap", "demo"} /\ pc \notin SpawnPcs /\ pc \notin ReapedPcs
         /\ pc = "reap" => i = 0
BY DEF IInv, Control, SpawnPcs, ReapedPcs

LEMMA ReapedWhenFresh ==
  ASSUME pc' \in {"reap", "demo", "poll"}, pc' = "reap" => i' = 0
  PROVE  Reaped'
<1>1. pc' \notin ReapedPcs
  BY DEF ReapedPcs, SpawnPcs
<1>2. 0..(0 - 1) = {}
  OBVIOUS
<1> QED
  BY <1>1, <1>2 DEF Reaped

LEMMA TaskStepKeepsIInv ==
  ASSUME IInv, Given, TaskStep \/ Faults
  PROVE  IInv'
<1> USE DEF OtherTask
<1>1. current_task # 0 /\ pc' = pc /\ i' = i /\ UNCHANGED <<procs, memory, shell>>
  BY DEF TaskStep, Faults, KernelTaskYield, KernelTaskExit, process_user_task_entry, UserExit,
         UserPageFault, UserException, shell
<1>2. ShellTypes' /\ Reaped' /\ pc \notin SpawnPcs
  BY <1>1, OtherRuns, ReapedWhenFresh, TypeParts DEF IInv, ShellTypes, shell
<1>3. esp0 \in S!Tasks /\ mode \in {"kernel", "user", "stopped"} /\ iflag \in BOOLEAN /\ current_task \in S!Tasks
  BY DEF IInv, TypeOK, S!TypeOK
<1>4. CASE KernelTaskYield
  <2>1. TasksKept
    BY <1>4 DEF KernelTaskYield, Given
  <2>2. Control'
    BY <1>1, <1>4, OtherRuns DEF KernelTaskYield, IInv, Control, procs
  <2> QED
    BY <1>1, <1>2, <1>3, <1>4, <2>1, <2>2, SwitchKeepsIInv DEF KernelTaskYield, shell
<1>5. CASE KernelTaskExit \/ UserExit \/ UserPageFault
  <2>1. S!scheduler_exit_current /\ ActivateNext /\ mode' = "kernel" /\ esp0' = esp0
    BY <1>5 DEF KernelTaskExit, UserExit, UserPageFault
  <2>2. TasksKept
    BY <2>1 DEF Given
  <2>3. iflag' \in BOOLEAN /\ (~UserFaults => iflag')
    BY <1>3, <1>5, ZenonT(60) DEF KernelTaskExit, UserExit, UserPageFault, ExitGateFlag, IInv, Control
  <2>4. Control'
    BY <1>1, <2>1, <2>3, OtherRuns DEF IInv, Control, procs
  <2> QED
    BY <1>1, <1>2, <1>3, <2>1, <2>2, <2>3, <2>4, SwitchKeepsIInv DEF shell
<1>6. CASE process_user_task_entry
  <2>1. Control'
    BY <1>1, <1>6, OtherRuns DEF process_user_task_entry, EnteredStack, IInv, Control, procs, sched
  <2>2. mode' = "user" /\ iflag' = TRUE /\ esp0' = current_task /\ UNCHANGED <<state, current_task, cr3>>
    BY <1>6 DEF process_user_task_entry, EnteredStack, sched
  <2> QED
    BY <1>1, <1>2, <1>3, <2>1, <2>2, StayKeepsIInv, ZenonT(60) DEF shell
<1>7. CASE UserException
  <2>1. Control'
    BY <1>1, <1>7, OtherRuns DEF UserException, IInv, Control, procs, sched
  <2>2. mode' = "stopped" /\ iflag' = FALSE /\ esp0' = esp0 /\ UNCHANGED <<state, current_task, cr3>>
    BY <1>7 DEF UserException, sched
  <2> QED
    BY <1>1, <1>2, <1>3, <2>1, <2>2, StayKeepsIInv, ZenonT(60) DEF shell
<1> QED
  BY <1>4, <1>5, <1>6, <1>7 DEF TaskStep, Faults

LEMMA InterruptKeepsIInv ==
  ASSUME IInv, Given, timer_isr \/ keyboard_isr
  PROVE  IInv'
<1>1. /\ UNCHANGED <<procs, memory, cpu, after, i, sp, state, current_task>>
      /\ pc' = IF current_task = 0 /\ pc = "hlt" THEN "poll" ELSE pc
  BY TickEffect DEF timer_isr, keyboard_isr, Wake, sched
<1>2. ShellTypes'
  BY <1>1, TypeParts DEF IInv, ShellTypes
<1>3. Control'
  BY <1>1 DEF IInv, Control, cpu, procs
<1>4. Reaped'
  BY <1>1 DEF IInv, Reaped, ReapedPcs, SpawnPcs, Dead, procs
<1>5. mode' \in {"kernel", "user", "stopped"} /\ iflag' \in BOOLEAN /\ esp0' \in S!Tasks
  BY <1>1, TypeParts DEF IInv, CpuTypes, cpu
<1> QED
  BY <1>1, <1>2, <1>3, <1>4, <1>5, StayKeepsIInv DEF cpu, SpawnPcs
-----------------------------------------------------------------------------
(* The main loop, as far as it only moves on *)

LEMMA Task0Runs ==
  ASSUME IInv, NEW l, At(l)
  PROVE  current_task = 0 /\ mode = "kernel" /\ pc = l
BY DEF At

LEMMA YieldToEffect ==
  ASSUME IInv, Given, NEW l, YieldTo(l)
  PROVE  /\ ActivateNext /\ pc' = l
         /\ TasksKept
<1>1. CASE S!scheduler_yield
  BY <1>1 DEF YieldTo, Given
<1>2. CASE UNCHANGED sched
  BY <1>2 DEF YieldTo, TasksKept, sched
<1> QED
  BY <1>1, <1>2 DEF YieldTo

LEMMA YieldStepKeepsIInv ==
  ASSUME IInv, Given, Poll \/ BatchYield \/ TaskDemoYield
  PROVE  IInv'
<1>1. /\ current_task = 0 /\ mode = "kernel" /\ pc \in {"poll", "batch", "demo"}
      /\ pc' \in {"reap", "demo"} /\ (pc' = "reap" => i' = 0)
      /\ UNCHANGED <<procs, memory, mode, iflag, esp0, sp>>
      /\ after' \in {"getchar", "batch"} /\ i' \in Slots
  BY Constants DEF Poll, BatchYield, TaskDemoYield, YieldTo, AfterPoll, At, IInv, TypeOK
<1>2. /\ ActivateNext
      /\ TasksKept
  <2>1. CASE Poll /\ ~preempt_pending
    BY <2>1 DEF Poll, TasksKept, sched, ActivateNext
  <2>2. CASE \E l : YieldTo(l)
    BY <2>2, YieldToEffect
  <2> QED
    BY <2>1, <2>2 DEF Poll, BatchYield, TaskDemoYield
<1>3. ShellTypes'
  BY <1>1, TypeParts DEF IInv, ShellTypes
<1>4. Control'
  BY <1>1 DEF IInv, Control, procs
<1>5. Reaped'
  BY <1>1, ReapedWhenFresh
<1>6. mode' \in {"kernel", "user", "stopped"} /\ iflag' \in BOOLEAN /\ esp0' \in S!Tasks
  BY <1>1, TypeParts DEF IInv, CpuTypes
<1>7. pc \notin SpawnPcs /\ pc' \notin SpawnPcs
  BY <1>1 DEF SpawnPcs
<1> QED
  BY <1>1, <1>2, <1>3, <1>4, <1>5, <1>6, <1>7, SwitchKeepsIInv

LEMMA ReapSkipKeepsIInv ==
  ASSUME IInv, Given, ReapSkip
  PROVE  IInv'
<1>1. /\ current_task = 0 /\ mode = "kernel" /\ pc = "reap"
      /\ UNCHANGED <<sched, procs, memory, cpu, after, sp>>
      /\ IF i = ProcessMax - 1 THEN pc' = after /\ i' = 0 ELSE i' = i + 1 /\ pc' = pc
  BY DEF ReapSkip, ReapAdvance, ReapLoopEnds, At
<1>2. i \in Slots /\ after \in {"getchar", "batch"}
  BY DEF IInv, TypeOK
<1>3. i' \in Slots /\ pc' \in {"reap", "getchar", "batch"}
  BY <1>1, <1>2, ProcessAssumption DEF Slots
<1>4. ~Dead(i)
  <2>1. process_table[0].tid = 0 /\ state[0] # "ZOMBIE"
    BY EmptyFields DEF IInv, EntriesFormed, SchedulerInv
  <2> QED
    BY <2>1 DEF ReapSkip, ReapDue, Dead
<1>5. \A s \in 0..i : ~Dead(s)
  <2>1. \A s \in 0..(i - 1) : ~Dead(s)
    BY <1>1 DEF IInv, Reaped
  <2> QED
    BY <1>2, <1>4, <2>1 DEF Slots
<1>6. \A s \in Slots : Dead(s)' = Dead(s)
  BY <1>1 DEF Dead, sched, procs
<1>7. Reaped'
  <2>1. CASE i = ProcessMax - 1
    <3>1. \A s \in Slots : ~Dead(s)'
      BY <1>5, <1>6, <2>1 DEF Slots
    <3>2. pc' # "reap"
      BY <1>1, <1>2, <2>1
    <3> QED
      BY <3>1, <3>2 DEF Reaped
  <2>2. CASE i # ProcessMax - 1
    <3>1. pc' = "reap" /\ i' - 1 = i /\ 0..i \subseteq Slots
      BY <1>1, <1>2, <2>2, ProcessAssumption DEF Slots
    <3>2. pc' \notin ReapedPcs
      BY <3>1 DEF ReapedPcs, SpawnPcs
    <3> QED
      BY <1>5, <1>6, <3>1, <3>2 DEF Reaped
  <2> QED
    BY <2>1, <2>2
<1>8. ShellTypes'
  BY <1>1, <1>3, TypeParts DEF IInv, ShellTypes
<1>9. Control'
  BY <1>1 DEF IInv, Control, cpu, procs, sched
<1>10. mode' \in {"kernel", "user", "stopped"} /\ iflag' \in BOOLEAN /\ esp0' \in S!Tasks
  BY <1>1, TypeParts DEF IInv, CpuTypes, cpu
<1>11. pc \notin SpawnPcs /\ pc' \notin SpawnPcs
  BY <1>1, <1>3 DEF SpawnPcs
<1> QED
  BY <1>1, <1>7, <1>8, <1>9, <1>10, <1>11, StayKeepsIInv DEF cpu, sched

LEMMA MoveOnKeepsIInv ==
  ASSUME IInv, Given, GetChar \/ BatchDone \/ TaskDemoDone
  PROVE  IInv'
<1>1. /\ current_task = 0 /\ mode = "kernel"
      /\ \/ pc = "getchar" /\ pc' \in {"hlt", "batch", "taskdemo"}
         \/ pc \in {"batch", "taskdemo", "taskdemo2", "demo"} /\ pc' = "poll"
      /\ UNCHANGED <<sched, procs, memory, cpu, after, i, sp>>
  BY DEF GetChar, BatchDone, TaskDemoDone, At
<1>2. ShellTypes'
  BY <1>1, TypeParts DEF IInv, ShellTypes
<1>3. Control'
  BY <1>1 DEF IInv, Control, cpu, procs, sched
<1>4. Reaped'
  BY <1>1 DEF IInv, Reaped, ReapedPcs, SpawnPcs, Dead, procs, sched
<1>5. mode' \in {"kernel", "user", "stopped"} /\ iflag' \in BOOLEAN /\ esp0' \in S!Tasks
  BY <1>1, TypeParts DEF IInv, CpuTypes, cpu
<1>6. pc \notin SpawnPcs /\ pc' \notin SpawnPcs
  BY <1>1 DEF SpawnPcs
<1> QED
  BY <1>1, <1>2, <1>3, <1>4, <1>5, <1>6, StayKeepsIInv DEF cpu, sched
-----------------------------------------------------------------------------
(* What the scheduler sees of a step *)

\* Whatever Process does, the scheduler sees a call of its interface or nothing.
LEMMA YieldToSchedules ==
  ASSUME NEW l, YieldTo(l)
  PROVE  [S!Next]_(S!vars)
BY DEF YieldTo, S!Next, S!vars, sched

LEMMA StepSchedules ==
  ASSUME IInv, [Next]_vars
  PROVE  [S!Next]_(S!vars)
<1>1. CASE TaskStep \/ Faults
  BY <1>1 DEF TaskStep, Faults, KernelTaskYield, KernelTaskExit,
     process_user_task_entry, UserExit, UserPageFault, UserException, sched, S!Next, S!vars
<1>2. CASE SpawnStep
  <2>1. CASE SpawnCreate
    BY <2>1 DEF SpawnCreate, S!Next
  <2> QED
    BY <1>2, <2>1 DEF SpawnStep, SpawnClone, SpawnFrames, SpawnMap, SpawnImage, SpawnFail,
       SpawnCreateFails, sched, S!vars
<1>3. CASE LoopStep
  <2>1. CASE Poll
    BY <2>1, YieldToSchedules DEF Poll, sched, S!vars
  <2>2. CASE process_reap
    <3>1. process_table[i].tid \in S!Tasks
      BY DEF IInv, TypeOK
    <3> QED
      BY <2>2, <3>1 DEF process_reap, S!Next
  <2> QED
    BY <1>3, <2>1, <2>2 DEF LoopStep, ReapSkip, GetChar, sched, S!vars
<1>4. CASE CommandStep
  <2>1. CASE BatchYield \/ TaskDemoYield
    BY <2>1, YieldToSchedules DEF BatchYield, TaskDemoYield
  <2>2. CASE TaskDemoCreate
    BY <2>2 DEF TaskDemoCreate, S!Next
  <2> QED
    BY <1>4, <2>1, <2>2, ZenonT(60) DEF CommandStep, Spawn, BatchDone, TaskDemoDone, sched, S!vars
<1>5. CASE timer_isr
  BY <1>5 DEF timer_isr, S!Next
<1>6. CASE keyboard_isr \/ UNCHANGED vars
  BY <1>6 DEF keyboard_isr, vars, sched, S!vars
<1> QED
  BY <1>1, <1>2, <1>3, <1>4, <1>5, <1>6 DEF Next
=============================================================================
