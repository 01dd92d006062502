---------------------------- MODULE MCInterrupts ----------------------------
(***************************************************************************)
(* The three components an interrupt handler shares state with, checked    *)
(* side by side: the scheduler, the keyboard and the timer have no         *)
(* variable in common, so a behaviour moves one of them, the part, and     *)
(* leaves the others as they were initialised.                             *)
(***************************************************************************)
EXTENDS Scheduler, Keyboard, Timer

VARIABLE part

mcVars == <<part, vars, keyVars, timerVars>>

MCInit ==
  /\ part \in {"scheduler", "keyboard", "timer"}
  /\ Init /\ KeyInit /\ TimerInit

OnScheduler(A) == part = "scheduler" /\ A /\ UNCHANGED <<part, keyVars, timerVars>>
OnKeyboard(A) == part = "keyboard" /\ A /\ UNCHANGED <<part, vars, timerVars>>
OnTimer(A) == part = "timer" /\ A /\ UNCHANGED <<part, vars, keyVars>>

MCNext == OnScheduler(Next) \/ OnKeyboard(KeyNext) \/ OnTimer(TimerNext)

\* The fairness of each component's own specification
MCFairSpec ==
  /\ MCInit /\ [][MCNext]_mcVars
  /\ WF_mcVars(OnScheduler(scheduler_yield \/ scheduler_exit_current))
  /\ WF_mcVars(OnKeyboard(MainLoop)) /\ WF_mcVars(OnKeyboard(timer_interrupt))
  /\ WF_mcVars(OnTimer(Reader)) /\ WF_mcVars(OnTimer(timer_isr))
=============================================================================
