--------------------------- MODULE ProcessTheorems --------------------------
(***************************************************************************)
(* What holds of processes at all times: the steps preserve the invariant  *)
(* of ProcessProofs, and the properties of Process follow from it.         *)
(*                                                                         *)
(* Every step of Process is a call of the scheduler's interface or leaves  *)
(* the scheduler alone, so the scheduler's invariant carries over.  A pid  *)
(* is found because process_alloc_pid tries one more than there are slots. *)
(***************************************************************************)
EXTENDS ProcessLoopProofs, ProcessSpawnProofs, ProcessTaskProofs, FiniteSetTheorems

Sched == INSTANCE SchedulerProofs

USE SMTT(60)
-----------------------------------------------------------------------------
(* The scheduler *)

LEMMA SchedulerConstants == Sched!SchedulerAssumption
BY ProcessAssumption DEF Sched!SchedulerAssumption

LEMMA SameTasks == S!Tasks = Sched!Tasks
BY DEF S!Tasks, Sched!Tasks

LEMMA SamePick == \A s, c : S!scheduler_pick_next(s, c) = Sched!scheduler_pick_next(s, c)
BY DEF S!scheduler_pick_next, Sched!scheduler_pick_next, S!Runnable, Sched!Runnable,
       S!RoundDistance, Sched!RoundDistance, S!Tasks, Sched!Tasks

LEMMA SameOperations ==
  /\ S!scheduler_yield => Sched!scheduler_yield
  /\ S!scheduler_exit_current => Sched!scheduler_exit_current
  /\ S!scheduler_on_tick => Sched!scheduler_on_tick
  /\ \A t, b : S!scheduler_create_task(t, b) => Sched!scheduler_create_task(t, b)
  /\ \A t : S!scheduler_reap_task(t) => Sched!scheduler_reap_task(t)
<1>1. S!scheduler_yield => Sched!scheduler_yield
  BY SamePick, ZenonT(60) DEF S!scheduler_yield, Sched!scheduler_yield, S!Demoted, Sched!Demoted,
                  S!QuantumReset, Sched!QuantumReset
<1>2. S!scheduler_exit_current => Sched!scheduler_exit_current
  BY SamePick, ZenonT(60) DEF S!scheduler_exit_current, Sched!scheduler_exit_current, S!ExitState, Sched!ExitState,
                  S!ExitGuard, Sched!ExitGuard, S!Successor, Sched!Successor
<1>3. S!scheduler_on_tick => Sched!scheduler_on_tick
  BY DEF S!scheduler_on_tick, Sched!scheduler_on_tick, S!TickAfter, Sched!TickAfter
<1>4. \A t, b : S!scheduler_create_task(t, b) => Sched!scheduler_create_task(t, b)
  BY DEF S!scheduler_create_task, Sched!scheduler_create_task, S!CreateSlot, Sched!CreateSlot,
         S!Reusable, Sched!Reusable, S!FreedOnReuse, Sched!FreedOnReuse, S!Tasks, Sched!Tasks
<1>5. \A t : S!scheduler_reap_task(t) => Sched!scheduler_reap_task(t)
  BY DEF S!scheduler_reap_task, Sched!scheduler_reap_task, S!ReapedStack, Sched!ReapedStack
<1> QED
  BY <1>1, <1>2, <1>3, <1>4, <1>5

LEMMA SchedulerSame ==
  /\ SchedulerInv => Sched!IInv
  /\ Sched!IInv' => SchedulerInv'
BY DEF SchedulerInv, Sched!IInv, Sched!Task0Alive, S!TypeOK, Sched!TypeOK, S!Tasks, Sched!Tasks,
       S!States, Sched!States, S!OnlyCurrentRuns, Sched!OnlyCurrentRuns,
       S!StacksOwned, Sched!StacksOwned, S!ExpiryPending, Sched!ExpiryPending

LEMMA SchedulerInvKept ==
  ASSUME SchedulerInv, [S!Next]_(S!vars)
  PROVE  SchedulerInv'
<1>1. [Sched!Next]_(Sched!vars)
  BY SameOperations, SameTasks
     DEF S!Next, Sched!Next, S!scheduler_run_pending, Sched!scheduler_run_pending, S!vars, Sched!vars
<1> QED
  BY <1>1, SchedulerConstants, SchedulerSame, Sched!StepIInv

LEMMA SwitchKeepsTasks ==
  ASSUME SchedulerInv, S!scheduler_yield \/ S!scheduler_exit_current
  PROVE  TasksKept
<1>1. Sched!IInv /\ (Sched!scheduler_yield \/ Sched!scheduler_exit_current)
  BY SchedulerSame, SameOperations
<1> QED
  BY <1>1, SchedulerConstants, SameTasks, Sched!YieldEffect, Sched!ExitEffect DEF TasksKept
-----------------------------------------------------------------------------
(* The facts the steps take for given *)

LEMMA LeastNumber == LeastNumbers
<1> SUFFICES ASSUME NEW T \in SUBSET Nat, T # {} PROVE Min(T) \in T
  BY DEF LeastNumbers
<1>1. \E x \in T : \A y \in T : x <= y
  BY SchedulerConstants, Sched!NatMin
<1> QED
  BY <1>1, ZenonT(60) DEF Min

LEMMA EnoughTries == MoreTriesThanSlots
<1>1. ProcessMax \in Nat /\ 0 \in Int /\ ProcessMax \in Int /\ ProcessMax - 1 \in Int
  BY ProcessAssumption
<1>2. IsFiniteSet(0..ProcessMax) /\ Cardinality(0..ProcessMax) = ProcessMax + 1
  BY <1>1, FS_Interval
<1>3. IsFiniteSet(0..(ProcessMax - 1)) /\ Cardinality(0..(ProcessMax - 1)) = ProcessMax
  BY <1>1, FS_Interval
<1>4. Cardinality(Slots) < Cardinality(PidTries)
  BY <1>1, <1>2, <1>3 DEF PidTries, Slots
<1>5. IsFiniteSet(PidTries) /\ IsFiniteSet(Slots)
  BY <1>2, <1>3 DEF PidTries, Slots
<1> QED
  BY <1>4, <1>5, FS_PigeonHole DEF MoreTriesThanSlots

LEMMA StepIsGiven ==
  ASSUME IInv, [Next]_vars
  PROVE  Given
<1>1. SchedulerInv /\ SchedulerInv'
  BY StepSchedules, SchedulerInvKept DEF IInv
<1> QED
  BY <1>1, SwitchKeepsTasks, LeastNumber, EnoughTries DEF Given
-----------------------------------------------------------------------------
(* The invariant *)

LEMMA NextKeepsIInv ==
  ASSUME IInv, Next
  PROVE  IInv'
<1>1. Given
  BY StepIsGiven
<1>2. CASE TaskStep \/ Faults
  BY <1>1, <1>2, TaskStepKeepsIInv
<1>3. CASE SpawnStep
  BY <1>1, <1>3, SpawnCloneKeepsIInv, SpawnFramesKeepsIInv, SpawnMapKeepsIInv, SpawnImageKeepsIInv,
     SpawnFailKeepsIInv, SpawnCreateKeepsIInv, SpawnCreateFailsKeepsIInv DEF SpawnStep
<1>4. CASE LoopStep
  BY <1>1, <1>4, YieldStepKeepsIInv, ReapKeepsIInv, ReapSkipKeepsIInv, MoveOnKeepsIInv DEF LoopStep
<1>5. CASE CommandStep
  BY <1>1, <1>5, SpawnKeepsIInv, YieldStepKeepsIInv, MoveOnKeepsIInv, TaskDemoCreateKeepsIInv DEF CommandStep
<1>6. CASE timer_isr \/ keyboard_isr
  BY <1>1, <1>6, InterruptKeepsIInv
<1> QED
  BY <1>2, <1>3, <1>4, <1>5, <1>6 DEF Next

LEMMA StepKeepsIInv == IInv /\ [Next]_vars => IInv'
<1> SUFFICES ASSUME IInv, [Next]_vars PROVE IInv'
  OBVIOUS
<1>1. CASE Next
  BY <1>1, NextKeepsIInv
<1>2. CASE UNCHANGED vars
  BY <1>2, StepIsGiven, StutterKeepsIInv
<1> QED
  BY <1>1, <1>2

LEMMA Invariant == Spec => []IInv
BY InitIInv, StepKeepsIInv, PTL DEF Spec
-----------------------------------------------------------------------------
(* What holds at all times *)

\* The process table and the task table keep their types and agree at all times,
\* whatever is spawned, ends, faults and is reaped in between: no entry of
\* process_table names a task slot that was given to someone else.
THEOREM ProcessTablesAgree == Spec => []TablesAgree
<1>1. IInv => TablesAgree
  BY DEF IInv, TablesAgree
<1> QED
  BY <1>1, Invariant, PTL

\* On every path through process_spawn_common, its failures, exit and
\* process_reap, each frame is free, the heap's, or has one role for one process.
THEOREM ProcessFramesAccounted == Spec => []FramesAccounted
<1>1. ASSUME IInv, NEW f \in Frames, NEW uses, uses = {u \in Holders \X Roles : FrameOf(u[1], u[2]) = f}
      PROVE  Cardinality(uses) + (IF f \in free THEN 1 ELSE 0) + (IF f \in heap_frames THEN 1 ELSE 0) = 1
  <2>1. Cardinality({}) = 0 /\ \A u : Cardinality({u}) = 1
    BY FS_EmptySet, FS_Singleton, ZenonT(60)
  <2>2. \/ Cardinality(uses) = 0 /\ f \in free /\ f \notin heap_frames
        \/ Cardinality(uses) = 0 /\ f \notin free /\ f \in heap_frames
        \/ Cardinality(uses) = 1 /\ f \notin free /\ f \notin heap_frames
    BY <1>1, <2>1, FrameUses, ZenonT(60)
  <2> QED
    BY <2>2
<1>2. IInv => FramesAccounted
  BY <1>1 DEF FramesAccounted
<1> QED
  BY <1>2, Invariant, PTL

\* The CPU is always in the directory of the task it runs, or of the image task 0
\* is building, that directory is never a free frame, and the user window of a
\* process maps its own two frames.
THEOREM ProcessOwnSpace == Spec => []OwnSpace
BY IInvOwnSpace, Invariant, PTL

\* No two processes have the same pid, also after next_pid has wrapped around.
THEOREM ProcessPidsUnique == Spec => []PidsUnique
<1>1. IInv => PidsUnique
  BY DEF IInv
<1> QED
  BY <1>1, Invariant, PTL

\* While user code runs, tss.esp0 is in the running task's own, allocated stack.
THEOREM ProcessTrapStackOwned == Spec => []TrapStackOwned
BY IInvTrapStackOwned, Invariant, PTL

\* As long as no user program faults, hlt is never executed with interrupts off.
THEOREM ProcessHaltsAwake ==
  ASSUME ~UserFaults
  PROVE  Spec => []HaltsAwake
<1>1. IInv => HaltsAwake
  BY DEF IInv, Control, HaltsAwake
<1> QED
  BY <1>1, Invariant, PTL

\* Processes use the scheduler as its specification allows: each step of the
\* kernel is one call of the scheduler's interface, or none.
THEOREM ProcessImplementsScheduler == Spec => S!Spec
<1>1. Init => S!Init
  BY DEF Init, InitWith
<1>2. IInv /\ [Next]_vars => [S!Next]_(S!vars)
  BY StepSchedules
<1> QED
  BY <1>1, <1>2, Invariant, PTL DEF Spec, S!Spec
=============================================================================
