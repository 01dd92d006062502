-------------------------- MODULE SchedulerProofs ---------------------------
(***************************************************************************)
(* Proofs about the scheduler, for every table size, quantum and set of    *)
(* stack blocks.  OnlyCurrentRuns, the first conjunct of                   *)
(* ExitFindsSuccessor and the type invariant support one another: the      *)
(* invariant proved by induction is their conjunction.                     *)
(***************************************************************************)
EXTENDS Scheduler, WellFoundedInduction, TLAPS

Task0Alive == state[0] \in {"RUNNING", "RUNNABLE"}

IInv == TypeOK /\ OnlyCurrentRuns /\ Task0Alive /\ StacksOwned /\ ExpiryPending

\* Every non-empty set of naturals has a least element.
LEMMA NatMin ==
  ASSUME NEW T \in SUBSET Nat, T # {}
  PROVE  \E x \in T : \A y \in T : x <= y
<1> DEFINE R == {ss \in Nat \X Nat : ss[1] < ss[2]}
<1>1. IsWellFoundedOn(R, Nat)
  BY NatLessThanWellFounded, Zenon DEF OpToRel
<1> HIDE DEF R
<1>2. PICK x \in T : \A y \in T : <<y, x>> \notin R
  BY <1>1, WFMin
<1>3. ASSUME NEW y \in T PROVE x <= y
  <2>1. x \in Nat /\ y \in Nat
    OBVIOUS
  <2>2. <<y, x>> \in Nat \X Nat /\ ~(y < x)
    BY <1>2, <2>1 DEF R
  <2> QED
    BY <2>1, <2>2
<1> QED
  BY <1>3

\* Task 0 exists.
LEMMA ZeroIsTask == 0 \in Tasks
BY SchedulerAssumption DEF Tasks

\* scheduler_pick_next returns a runnable task other than the caller's, or
\* task 0 as the fallback, or -1.
LEMMA PickNextSound ==
  ASSUME NEW s \in [Tasks -> States], NEW c \in Tasks
  PROVE  \/ /\ Runnable(s, c) # {}
            /\ scheduler_pick_next(s, c) \in Runnable(s, c)
         \/ /\ Runnable(s, c) = {}
            /\ c # 0 /\ s[0] \notin {"UNUSED", "ZOMBIE"}
            /\ scheduler_pick_next(s, c) = 0
         \/ /\ Runnable(s, c) = {}
            /\ c = 0 \/ s[0] \in {"UNUSED", "ZOMBIE"}
            /\ scheduler_pick_next(s, c) = -1
<1>1. CASE Runnable(s, c) # {}
  <2> DEFINE ready == Runnable(s, c)
  <2> DEFINE dist == {RoundDistance(c, t) : t \in ready}
  <2>1. \A t \in ready : RoundDistance(c, t) \in Nat
    BY SchedulerAssumption DEF Runnable, RoundDistance, Tasks
  <2>2. dist \in SUBSET Nat /\ dist # {}
    BY <1>1, <2>1
  <2>3. \E x \in dist : \A y \in dist : x <= y
    BY <2>2, NatMin
  <2>4. \E t \in ready : \A u \in ready : RoundDistance(c, t) <= RoundDistance(c, u)
    BY <2>3
  <2>5. (CHOOSE t \in ready : \A u \in ready : RoundDistance(c, t) <= RoundDistance(c, u)) \in ready
    BY <2>4
  <2> QED
    BY <1>1, <2>5 DEF scheduler_pick_next
<1>2. CASE Runnable(s, c) = {}
  BY <1>2 DEF scheduler_pick_next
<1> QED
  BY <1>1, <1>2

\* What the callers need of it: a non-negative result is a task other than the
\* caller's, and it is runnable or it is task 0, alive.
LEMMA PickNextIsTask ==
  ASSUME NEW s \in [Tasks -> States], NEW c \in Tasks, scheduler_pick_next(s, c) >= 0
  PROVE  /\ scheduler_pick_next(s, c) \in Tasks \ {c}
         /\ s[scheduler_pick_next(s, c)] \notin {"UNUSED", "ZOMBIE"}
<1>1. Runnable(s, c) \subseteq {t \in Tasks \ {c} : s[t] = "RUNNABLE"}
  BY DEF Runnable
<1> QED
  BY <1>1, PickNextSound, ZeroIsTask

\* An exiting task finds a successor as long as task 0 is runnable.
LEMMA ExitHasSuccessor ==
  ASSUME TypeOK, Task0Alive, OnlyCurrentRuns, current_task # 0
  PROVE  /\ ExitState(current_task) \in [Tasks -> States]
         /\ scheduler_pick_next(ExitState(current_task), current_task) \in Tasks \ {current_task}
         /\ ExitState(current_task)[scheduler_pick_next(ExitState(current_task), current_task)]
              = "RUNNABLE"
<1> DEFINE s == ExitState(current_task)
<1>1. s \in [Tasks -> States]
  BY DEF ExitState, TypeOK, States
<1>2. 0 \in Runnable(s, current_task)
  BY ZeroIsTask DEF ExitState, TypeOK, Task0Alive, OnlyCurrentRuns, Runnable
<1>3. current_task \in Tasks
  BY DEF TypeOK
<1>4. scheduler_pick_next(s, current_task) \in Runnable(s, current_task)
  BY <1>1, <1>2, <1>3, PickNextSound
<1> HIDE DEF s
<1>5. scheduler_pick_next(s, current_task) \in Tasks \ {current_task}
      /\ s[scheduler_pick_next(s, current_task)] = "RUNNABLE"
  BY <1>4 DEF Runnable
<1> QED
  BY <1>1, <1>5 DEF s
-----------------------------------------------------------------------------
LEMMA InitIInv == Init => IInv
<1> SUFFICES ASSUME Init PROVE IInv
  OBVIOUS
<1>1. TypeOK
  <2>1. tick_since_switch \in 0..(TickMod - 1)
    BY SchedulerAssumption DEF Init
  <2>2. preempt_pending \in BOOLEAN
    BY Zenon DEF Init
  <2>3. state \in [Tasks -> States] /\ stack_base \in [Tasks -> Stacks \cup {NoStack}]
    BY DEF Init, States
  <2> QED
    BY ZeroIsTask, <2>1, <2>2, <2>3 DEF Init, TypeOK
<1>2. OnlyCurrentRuns /\ Task0Alive
  BY ZeroIsTask DEF Init, OnlyCurrentRuns, Task0Alive
<1>3. StacksOwned
  BY ZeroIsTask DEF Init, StacksOwned
<1>4. ExpiryPending
  BY SchedulerAssumption DEF Init, ExpiryPending
<1> QED
  BY <1>1, <1>2, <1>3, <1>4 DEF IInv

LEMMA CreateIInv ==
  ASSUME IInv, NEW t \in Tasks, NEW b \in Stacks, scheduler_create_task(t, b)
  PROVE  IInv'
<1> USE DEF IInv
<1>1. t # 0 /\ state[t] \in {"UNUSED", "ZOMBIE"} /\ b \in Stacks \ heap
  BY DEF scheduler_create_task, CreateSlot, Reusable
<1>2. TypeOK'
  BY DEF TypeOK, scheduler_create_task, States
<1>3. OnlyCurrentRuns' /\ Task0Alive'
  BY <1>1, ZeroIsTask DEF TypeOK, OnlyCurrentRuns, Task0Alive, scheduler_create_task
<1>4. StacksOwned'
  <2>1. stack_base' = [stack_base EXCEPT ![t] = b] /\ state' = [state EXCEPT ![t] = "RUNNABLE"]
    BY DEF scheduler_create_task
  <2>2. \A u \in Tasks : stack_base[u] # b
    BY <1>1, SchedulerAssumption DEF StacksOwned
  <2>3. b # NoStack
    BY SchedulerAssumption
  <2>4. \A u, v \in Tasks : stack_base'[u] = stack_base'[v] /\ stack_base'[u] # NoStack => u = v
    BY <2>1, <2>2 DEF TypeOK, StacksOwned
  <2>5. \A u \in Tasks : stack_base'[u] = NoStack <=> u = 0 \/ state'[u] = "UNUSED"
    BY <1>1, <2>1, <2>3 DEF TypeOK, StacksOwned
  <2>6. heap' = {stack_base'[u] : u \in Tasks} \ {NoStack}
    <3>1. heap' = (heap \cup {b}) \ FreedOnReuse(t)
      BY DEF scheduler_create_task
    <3>2. \A x : x \in FreedOnReuse(t) <=> state[t] = "ZOMBIE" /\ x = stack_base[t]
      BY DEF FreedOnReuse
    <3>3. state[t] = "UNUSED" <=> stack_base[t] = NoStack
      BY <1>1 DEF StacksOwned
    <3>4. ASSUME NEW x
          PROVE  x \in heap' <=> x # NoStack /\ \E u \in Tasks : stack_base'[u] = x
      <4>1. x \in heap <=> x # NoStack /\ \E u \in Tasks : stack_base[u] = x
        BY DEF StacksOwned
      <4>2. x \in FreedOnReuse(t) <=> x # NoStack /\ x = stack_base[t]
        BY <1>1, <3>2, <3>3
      <4>3. \A u \in Tasks : stack_base'[u] = IF u = t THEN b ELSE stack_base[u]
        BY <2>1 DEF TypeOK
      <4>4. \A u \in Tasks : u # t /\ stack_base[u] # NoStack => stack_base[u] # stack_base[t]
        BY DEF StacksOwned
      <4> QED
        BY <2>2, <2>3, <3>1, <4>1, <4>2, <4>3, <4>4
    <3> QED
      BY <3>4
  <2> QED
    BY <2>4, <2>5, <2>6 DEF StacksOwned
<1>5. ExpiryPending'
  BY DEF ExpiryPending, scheduler_create_task
<1> QED
  BY <1>2, <1>3, <1>4, <1>5

LEMMA YieldIInv ==
  ASSUME IInv, scheduler_yield
  PROVE  IInv'
<1> USE DEF IInv
<1> DEFINE next == scheduler_pick_next(state, current_task)
<1>1. next \in Tasks \ {current_task} /\ state[next] \notin {"UNUSED", "ZOMBIE"}
  BY PickNextIsTask DEF scheduler_yield, TypeOK
<1>2. /\ state' = [Demoted(state, current_task) EXCEPT ![next] = "RUNNING"]
      /\ current_task' = next
      /\ UNCHANGED <<stack_base, heap>>
  BY DEF scheduler_yield
<1>3. state[current_task] = "RUNNING" /\ current_task \in Tasks
  BY DEF TypeOK, OnlyCurrentRuns
<1> HIDE DEF next
<1>4. state' = [state EXCEPT ![current_task] = "RUNNABLE", ![next] = "RUNNING"]
  BY <1>2, <1>3 DEF Demoted
<1>5. TypeOK'
  <2>1. tick_since_switch' \in 0..(TickMod - 1)
    BY SchedulerAssumption DEF scheduler_yield, QuantumReset
  <2>2. preempt_pending' \in BOOLEAN
    BY Zenon DEF scheduler_yield, QuantumReset
  <2> QED
    BY <1>1, <1>2, <1>3, <1>4, <2>1, <2>2 DEF TypeOK, States
<1>6. OnlyCurrentRuns'
  BY <1>1, <1>2, <1>3, <1>4 DEF TypeOK, OnlyCurrentRuns
<1>7. Task0Alive'
  BY <1>1, <1>3, <1>4, ZeroIsTask DEF TypeOK, Task0Alive
<1>8. StacksOwned'
  <2>1. \A t \in Tasks : state'[t] = "UNUSED" <=> state[t] = "UNUSED"
    BY <1>1, <1>3, <1>4 DEF TypeOK
  <2> QED
    BY <1>2, <2>1 DEF StacksOwned
<1>9. ExpiryPending'
  BY SchedulerAssumption DEF scheduler_yield, QuantumReset, ExpiryPending
<1> QED
  BY <1>5, <1>6, <1>7, <1>8, <1>9

LEMMA ExitIInv ==
  ASSUME IInv, scheduler_exit_current
  PROVE  IInv'
<1> USE DEF IInv
<1> DEFINE next == scheduler_pick_next(ExitState(current_task), current_task)
<1>1. /\ next \in Tasks \ {current_task}
      /\ ExitState(current_task)[next] = "RUNNABLE"
      /\ current_task # 0
  BY ExitHasSuccessor DEF scheduler_exit_current, ExitGuard
<1>2. current_task \in Tasks /\ state[current_task] = "RUNNING"
  BY DEF TypeOK, OnlyCurrentRuns
<1>3. next >= 0
  BY <1>1, SchedulerAssumption DEF Tasks
<1>4. /\ state' = [ExitState(current_task) EXCEPT ![next] = "RUNNING"]
      /\ current_task' = next
      /\ UNCHANGED <<stack_base, heap, tick_since_switch, preempt_pending>>
  BY <1>3 DEF scheduler_exit_current, Successor
<1> HIDE DEF next
<1>5. state' = [state EXCEPT ![current_task] = "ZOMBIE", ![next] = "RUNNING"]
      /\ state[next] = "RUNNABLE"
  BY <1>1, <1>2, <1>4 DEF ExitState, TypeOK
<1>6. TypeOK'
  BY <1>1, <1>2, <1>4, <1>5 DEF TypeOK, States
<1>7. OnlyCurrentRuns'
  BY <1>1, <1>2, <1>4, <1>5 DEF TypeOK, OnlyCurrentRuns
<1>8. Task0Alive'
  BY <1>1, <1>5, ZeroIsTask DEF TypeOK, Task0Alive
<1>9. StacksOwned'
  <2>1. \A t \in Tasks : state'[t] = "UNUSED" <=> state[t] = "UNUSED"
    BY <1>1, <1>2, <1>5 DEF TypeOK
  <2> QED
    BY <1>4, <2>1 DEF StacksOwned
<1>10. ExpiryPending'
  BY <1>4 DEF ExpiryPending
<1> QED
  BY <1>6, <1>7, <1>8, <1>9, <1>10

LEMMA ReapIInv ==
  ASSUME IInv, NEW t \in Tasks, scheduler_reap_task(t)
  PROVE  IInv'
<1> USE DEF IInv
<1>1. /\ t # 0 /\ state[t] = "ZOMBIE"
      /\ heap' = heap \ {stack_base[t]}
      /\ stack_base' = [stack_base EXCEPT ![t] = NoStack]
      /\ state' = [state EXCEPT ![t] = "UNUSED"]
      /\ UNCHANGED <<current_task, tick_since_switch, preempt_pending>>
  BY DEF scheduler_reap_task, ReapedStack
<1>2. TypeOK'
  BY <1>1 DEF TypeOK, States
<1>3. OnlyCurrentRuns' /\ Task0Alive'
  BY <1>1, ZeroIsTask DEF TypeOK, OnlyCurrentRuns, Task0Alive
<1>4. StacksOwned'
  <2>1. \A u \in Tasks : stack_base'[u] = IF u = t THEN NoStack ELSE stack_base[u]
    BY <1>1 DEF TypeOK
  <2>2. \A u \in Tasks : stack_base'[u] = NoStack <=> u = 0 \/ state'[u] = "UNUSED"
    BY <1>1, <2>1 DEF TypeOK, StacksOwned
  <2>3. \A u, v \in Tasks : stack_base'[u] = stack_base'[v] /\ stack_base'[u] # NoStack => u = v
    BY <2>1 DEF StacksOwned
  <2>4. ASSUME NEW x
        PROVE  x \in heap' <=> x # NoStack /\ \E u \in Tasks : stack_base'[u] = x
    <3>1. x \in heap <=> x # NoStack /\ \E u \in Tasks : stack_base[u] = x
      BY DEF StacksOwned
    <3>2. \A u \in Tasks : u # t /\ stack_base[u] # NoStack => stack_base[u] # stack_base[t]
      BY DEF StacksOwned
    <3> QED
      BY <1>1, <2>1, <3>1, <3>2
  <2>5. heap' = {stack_base'[u] : u \in Tasks} \ {NoStack}
    BY <2>4
  <2> QED
    BY <2>2, <2>3, <2>5 DEF StacksOwned
<1>5. ExpiryPending'
  BY <1>1 DEF ExpiryPending
<1> QED
  BY <1>2, <1>3, <1>4, <1>5

LEMMA TickIInv ==
  ASSUME IInv, scheduler_on_tick
  PROVE  IInv'
<1> USE DEF IInv
<1>1. tick_since_switch' \in 0..(TickMod - 1)
  BY SchedulerAssumption DEF scheduler_on_tick, TickAfter, TypeOK
<1>2. TypeOK'
  BY <1>1 DEF scheduler_on_tick, TickAfter, TypeOK
<1>3. ExpiryPending'
  BY DEF scheduler_on_tick, TickAfter, ExpiryPending
<1> QED
  BY <1>2, <1>3 DEF scheduler_on_tick, TickAfter, OnlyCurrentRuns, Task0Alive, StacksOwned

LEMMA StepIInv == IInv /\ [Next]_vars => IInv'
<1> SUFFICES ASSUME IInv, [Next]_vars PROVE IInv'
  OBVIOUS
<1>1. CASE \E t \in Tasks, b \in Stacks : scheduler_create_task(t, b)
  BY <1>1, CreateIInv
<1>2. CASE scheduler_yield \/ scheduler_run_pending
  BY <1>2, YieldIInv DEF scheduler_run_pending
<1>3. CASE scheduler_exit_current
  BY <1>3, ExitIInv
<1>4. CASE \E t \in Tasks : scheduler_reap_task(t)
  BY <1>4, ReapIInv
<1>5. CASE scheduler_on_tick
  BY <1>5, TickIInv
<1>6. CASE UNCHANGED vars
  BY <1>6 DEF vars, IInv, TypeOK, OnlyCurrentRuns, Task0Alive, StacksOwned, ExpiryPending
<1> QED
  BY <1>1, <1>2, <1>3, <1>4, <1>5, <1>6 DEF Next

\* The scheduler's variables keep their types.
THEOREM SchedulerTypeOK == Spec => []TypeOK
<1>1. IInv => TypeOK
  BY DEF IInv
<1> QED
  BY InitIInv, StepIInv, <1>1, PTL DEF Spec

\* At all times the task that executes is the one marked RUNNING, and the only
\* one: yields and exits move the mark together with current_task.
THEOREM SchedulerOnlyCurrentRuns == Spec => []OnlyCurrentRuns
<1>1. IInv => OnlyCurrentRuns
  BY DEF IInv
<1> QED
  BY InitIInv, StepIInv, <1>1, PTL DEF Spec

\* Task 0 never dies and scheduler_task_exit never runs out of successors: its
\* halt loop is unreachable for every number of tasks.
THEOREM SchedulerExitFindsSuccessor == Spec => []ExitFindsSuccessor
<1>1. IInv => ExitFindsSuccessor
  <2> SUFFICES ASSUME IInv PROVE ExitFindsSuccessor
    OBVIOUS
  <2>1. ASSUME current_task # 0
        PROVE  scheduler_pick_next(ExitState(current_task), current_task) >= 0
    <3>1. scheduler_pick_next(ExitState(current_task), current_task) \in Tasks
      BY <2>1, ExitHasSuccessor DEF IInv
    <3> QED
      BY <3>1, SchedulerAssumption DEF Tasks
  <2> QED
    BY <2>1 DEF IInv, Task0Alive, ExitFindsSuccessor
<1> QED
  BY InitIInv, StepIInv, <1>1, PTL DEF Spec

\* No stack block is leaked, shared, or freed while its task can still run.
THEOREM SchedulerStacksOwned == Spec => []StacksOwned
<1>1. IInv => StacksOwned
  BY DEF IInv
<1> QED
  BY InitIInv, StepIInv, <1>1, PTL DEF Spec

\* An expired quantum stays pending until the next yield.
THEOREM SchedulerExpiryPending == Spec => []ExpiryPending
<1>1. IInv => ExpiryPending
  BY DEF IInv
<1> QED
  BY InitIInv, StepIInv, <1>1, PTL DEF Spec
-----------------------------------------------------------------------------
(* What its callers see of a switch: the slots stay taken, and no task ends    *)
(* but the one that exits.                                                     *)

LEMMA YieldEffect ==
  ASSUME IInv, scheduler_yield
  PROVE  /\ current_task' \in Tasks /\ current_task' # current_task
         /\ \A t \in Tasks : /\ state'[t] = "UNUSED" <=> state[t] = "UNUSED"
                             /\ state'[t] = "ZOMBIE" <=> state[t] = "ZOMBIE"
<1> DEFINE next == scheduler_pick_next(state, current_task)
<1>1. next \in Tasks \ {current_task} /\ state[next] \notin {"UNUSED", "ZOMBIE"}
  BY PickNextIsTask DEF scheduler_yield, TypeOK, IInv
<1>2. /\ state' = [Demoted(state, current_task) EXCEPT ![next] = "RUNNING"]
      /\ current_task' = next
  BY DEF scheduler_yield
<1>3. state[current_task] = "RUNNING" /\ current_task \in Tasks /\ state \in [Tasks -> States]
  BY DEF TypeOK, OnlyCurrentRuns, IInv
<1> HIDE DEF next
<1>4. state' = [state EXCEPT ![current_task] = "RUNNABLE", ![next] = "RUNNING"]
  BY <1>2, <1>3 DEF Demoted
<1> QED
  BY <1>1, <1>2, <1>3, <1>4

LEMMA ExitEffect ==
  ASSUME IInv, scheduler_exit_current
  PROVE  /\ current_task # 0 /\ current_task' \in Tasks /\ current_task' # current_task
         /\ \A t \in Tasks : /\ state'[t] = "UNUSED" <=> state[t] = "UNUSED"
                             /\ state'[t] = "ZOMBIE" <=> state[t] = "ZOMBIE" \/ t = current_task
<1> DEFINE next == scheduler_pick_next(ExitState(current_task), current_task)
<1>1. /\ next \in Tasks \ {current_task}
      /\ ExitState(current_task)[next] = "RUNNABLE"
      /\ current_task # 0
  BY ExitHasSuccessor DEF scheduler_exit_current, ExitGuard, IInv
<1>2. next >= 0
  BY <1>1, SchedulerAssumption DEF Tasks
<1>3. /\ state' = [ExitState(current_task) EXCEPT ![next] = "RUNNING"]
      /\ current_task' = next
  BY <1>2 DEF scheduler_exit_current, Successor
<1>4. state[current_task] = "RUNNING" /\ current_task \in Tasks /\ state \in [Tasks -> States]
  BY DEF TypeOK, OnlyCurrentRuns, IInv
<1> HIDE DEF next
<1>5. state' = [state EXCEPT ![current_task] = "ZOMBIE", ![next] = "RUNNING"]
      /\ state[next] = "RUNNABLE"
  BY <1>1, <1>3, <1>4 DEF ExitState
<1> QED
  BY <1>1, <1>3, <1>4, <1>5
=============================================================================
