----------------------------- MODULE Scheduler ------------------------------
(***************************************************************************)
(* The round-robin scheduler, kernel/scheduler.c.                          *)
(*                                                                         *)
(* There is one CPU.  The timer interrupt only counts and raises           *)
(* preempt_pending; the CPU changes task inside scheduler_yield and        *)
(* scheduler_task_exit, so what a task does between two such calls is one  *)
(* step with respect to the other tasks.  Here any running task may make   *)
(* any call of the interface; which calls the kernel really makes, and in  *)
(* what order, is the subject of the modules that instantiate this one.    *)
(*                                                                         *)
(* Init is the state that scheduler_init leaves (scheduler_started = 1).   *)
(***************************************************************************)
EXTENDS Integers, FiniteSets

CONSTANTS MaxTasks, \* MAX_TASKS
          Quantum,  \* SCHED_QUANTUM_TICKS
          TickMod,  \* tick_since_switch is a uint32_t: 2^32
          Stacks,   \* the blocks kmalloc may return for a task stack
          NoStack   \* the null pointer

ASSUME SchedulerAssumption ==
  /\ MaxTasks \in Nat \ {0}
  /\ Quantum \in Nat \ {0}
  /\ TickMod \in Nat
  /\ Quantum < TickMod
  /\ NoStack \notin Stacks

VARIABLES state,             \* tasks[].state
          stack_base,        \* tasks[].stack_base
          heap,              \* the stack blocks that are allocated
          current_task,
          tick_since_switch,
          preempt_pending

vars == <<state, stack_base, heap, current_task, tick_since_switch, preempt_pending>>

Tasks == 0..(MaxTasks - 1)
States == {"UNUSED", "RUNNABLE", "RUNNING", "ZOMBIE"}

Init ==
  /\ state = [t \in Tasks |-> IF t = 0 THEN "RUNNING" ELSE "UNUSED"]
  /\ stack_base = [t \in Tasks |-> NoStack]
  /\ heap = {}
  /\ current_task = 0
  /\ tick_since_switch = 0
  /\ preempt_pending = FALSE

-----------------------------------------------------------------------------
\* The i of scheduler_pick_next's loop for which (c + i) % MAX_TASKS is t.
RoundDistance(c, t) == IF t > c THEN t - c ELSE t - c + MaxTasks

Runnable(s, c) == {t \in Tasks \ {c} : s[t] = "RUNNABLE"}

scheduler_pick_next_FromZero(s, c) ==
  LET ready == Runnable(s, c)
  IN  IF ready # {}
      THEN CHOOSE t \in ready : \A u \in ready : t <= u
      ELSE IF c # 0 /\ s[0] \notin {"UNUSED", "ZOMBIE"} THEN 0 ELSE -1
scheduler_pick_next(s, c) ==
  LET ready == Runnable(s, c)
  IN  IF ready # {}
      THEN CHOOSE t \in ready : \A u \in ready : RoundDistance(c, t) <= RoundDistance(c, u)
      ELSE IF c # 0 /\ s[0] \notin {"UNUSED", "ZOMBIE"} THEN 0 ELSE -1

\* scheduler_create_task takes the first slot from 1 on that is unused or
\* holds a zombie, whose stack it frees after it has allocated the new one.
Reusable(t) == t # 0 /\ state[t] \in {"UNUSED", "ZOMBIE"}

CreateSlot(t) == Reusable(t) /\ \A u \in Tasks : u < t => ~Reusable(u)

FreedOnReuse_Leak(t) == {}
FreedOnReuse(t) == IF state[t] = "ZOMBIE" THEN {stack_base[t]} ELSE {}

scheduler_create_task(t, b) ==
  /\ CreateSlot(t)
  /\ b \in Stacks \ heap
  /\ heap' = (heap \cup {b}) \ FreedOnReuse(t)
  /\ stack_base' = [stack_base EXCEPT ![t] = b]
  /\ state' = [state EXCEPT ![t] = "RUNNABLE"]
  /\ UNCHANGED <<current_task, tick_since_switch, preempt_pending>>

Demoted(s, c) == IF s[c] = "RUNNING" THEN [s EXCEPT ![c] = "RUNNABLE"] ELSE s

QuantumReset_Flag == preempt_pending' = FALSE /\ UNCHANGED tick_since_switch
QuantumReset == preempt_pending' = FALSE /\ tick_since_switch' = 0

scheduler_yield ==
  LET next == scheduler_pick_next(state, current_task)
  IN  /\ next >= 0
      /\ state' = [Demoted(state, current_task) EXCEPT ![next] = "RUNNING"]
      /\ current_task' = next
      /\ QuantumReset
      /\ UNCHANGED <<stack_base, heap>>

scheduler_run_pending == preempt_pending /\ scheduler_yield

(***************************************************************************)
(* scheduler_exit_current and scheduler_task_bootstrap's call of           *)
(* scheduler_task_exit.  The loop of scheduler_task_exit halts and retries *)
(* while there is no successor; nothing could produce one by then, so a    *)
(* dead end shows as a current task that stays a zombie.                   *)
(***************************************************************************)
Successor(s, next) == IF next >= 0 THEN [s EXCEPT ![next] = "RUNNING"] ELSE s

ExitState(c) == [state EXCEPT ![c] = "ZOMBIE"]

ExitGuard_None == state[current_task] = "RUNNING"
ExitGuard == current_task # 0 /\ state[current_task] = "RUNNING"

scheduler_exit_current ==
  LET dead == ExitState(current_task)
      next == scheduler_pick_next(dead, current_task)
  IN  /\ ExitGuard
      /\ state' = Successor(dead, next)
      /\ current_task' = IF next >= 0 THEN next ELSE current_task
      /\ UNCHANGED <<stack_base, heap, tick_since_switch, preempt_pending>>

ReapedStack(t) == [stack_base EXCEPT ![t] = NoStack]

scheduler_reap_task(t) ==
  /\ t # 0
  /\ state[t] = "ZOMBIE"
  /\ heap' = heap \ {stack_base[t]}
  /\ stack_base' = ReapedStack(t)
  /\ state' = [state EXCEPT ![t] = "UNUSED"]
  /\ UNCHANGED <<current_task, tick_since_switch, preempt_pending>>

\* The timer interrupt; tick_since_switch wraps.
TickAfter == (tick_since_switch + 1) % TickMod

scheduler_on_tick ==
  /\ tick_since_switch' = TickAfter
  /\ preempt_pending' = (preempt_pending \/ tick_since_switch' >= Quantum)
  /\ UNCHANGED <<state, stack_base, heap, current_task>>

Next ==
  \/ \E t \in Tasks, b \in Stacks : scheduler_create_task(t, b)
  \/ scheduler_yield
  \/ scheduler_run_pending
  \/ scheduler_exit_current
  \/ \E t \in Tasks : scheduler_reap_task(t)
  \/ scheduler_on_tick

Spec == Init /\ [][Next]_vars

\* Tasks cooperate: a task that holds the CPU gives it up in the end.  The
\* scheduler cannot take it away, so this is asked of the task code.
FairSpec == Spec /\ WF_vars(scheduler_yield \/ scheduler_exit_current)
-----------------------------------------------------------------------------
TypeOK ==
  /\ state \in [Tasks -> States]
  /\ stack_base \in [Tasks -> Stacks \cup {NoStack}]
  /\ heap \subseteq Stacks
  /\ current_task \in Tasks
  /\ tick_since_switch \in 0..(TickMod - 1)
  /\ preempt_pending \in BOOLEAN

\* Exactly the task the CPU executes is marked RUNNING: context_switch never
\* leaves two running tasks behind, and never resumes a zombie.
OnlyCurrentRuns == \A t \in Tasks : state[t] = "RUNNING" <=> t = current_task

\* Task 0, the kernel's main loop, never dies and is never reused, so an exiting
\* task always finds a successor: the halt loop of scheduler_task_exit is dead
\* code, which is what the comment in scheduler_pick_next claims.
ExitFindsSuccessor ==
  /\ state[0] \in {"RUNNING", "RUNNABLE"}
  /\ current_task # 0 => scheduler_pick_next(ExitState(current_task), current_task) >= 0

\* Stack blocks are neither leaked nor shared nor freed under a task: the
\* allocated blocks are exactly those of the tasks that are not UNUSED, each of
\* which (but task 0, which runs on the boot stack) has one of its own.
StacksOwned ==
  /\ heap = {stack_base[t] : t \in Tasks} \ {NoStack}
  /\ \A t \in Tasks : stack_base[t] = NoStack <=> t = 0 \/ state[t] = "UNUSED"
  /\ \A t, u \in Tasks : stack_base[t] = stack_base[u] /\ stack_base[t] # NoStack => t = u

\* An expired quantum is never forgotten: as long as the count of ticks since the
\* last yield shows it, preempt_pending tells scheduler_run_pending about it.
ExpiryPending == tick_since_switch >= Quantum => preempt_pending

\* Round robin does not starve: a runnable task gets the CPU, whatever tasks are
\* created, exit and are reaped in the meantime.
NoStarvation == \A t \in Tasks : state[t] = "RUNNABLE" ~> current_task = t
=============================================================================
