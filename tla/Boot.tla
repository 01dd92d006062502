-------------------------------- MODULE Boot --------------------------------
(***************************************************************************)
(* How the kernel comes up: kernel_main, kernel/kernel.c, one step per     *)
(* component, with the timer and keyboard interrupts that arrive from the  *)
(* sti of interrupts_init on, in the middle of the rest.                   *)
(***************************************************************************)
EXTENDS Integers, Sequences

CONSTANTS Quantum, \* SCHED_QUANTUM_TICKS
          MaxTicks, MaxKeys \* bounds: interrupts

ASSUME BootAssumption == Quantum \in Nat \ {0} /\ MaxTicks \in Nat /\ MaxKeys \in Nat

\* The steps of kernel_main, in order
Order == <<"console", "magic", "gdt", "interrupts", "timer", "pmm", "paging", "kheap",
           "scheduler", "process", "exec", "ipc", "usermode", "vfs", "selftest", "shell">>

Components == {Order[k] : k \in 1..Len(Order)}

VARIABLES boot_at,  \* the step to come, an index of Order
          ready,    \* the components whose initialisation has succeeded
          halted, iflag,
          ticks, timed, \* timer_ticks, and the ticks since timer_init
          tick_since_switch, preempt_pending,
          keys      \* bytes in the keyboard's buffer

clock == <<ticks, timed, tick_since_switch, preempt_pending>>
bootVars == <<boot_at, ready, halted, iflag, clock, keys>>

BootInit ==
  /\ boot_at = 1 /\ ready = {} /\ halted = FALSE
  /\ iflag = FALSE \* as the boot loader hands over
  /\ ticks = 0 /\ timed = 0 /\ tick_since_switch = 0 /\ preempt_pending = FALSE
  /\ keys = 0
-----------------------------------------------------------------------------
\* The components that may turn out not to be ready: pmm without a memory map,
\* paging without pmm or frames, kheap without paging or frames, usermode and
\* vfs without memory, a boot loader that is not one, a self test that fails.
MayFail(c) == c \in {"magic", "pmm", "paging", "kheap", "usermode", "vfs", "selftest"}
MaySucceed(c) ==
  /\ c = "paging" => "pmm" \in ready
  /\ c \in {"kheap", "usermode"} => "paging" \in ready
  /\ c = "vfs" => "kheap" \in ready

\* The failures kernel_main halts on; the others leave the component out.
Halts_NotOnHeap(c) == c \in {"magic", "process", "exec", "ipc", "vfs", "selftest"}
Halts(c) == c \in {"magic", "kheap", "process", "exec", "ipc", "vfs", "selftest"}

\* What an initialisation does besides making its component ready
Effect_NoReset(c) == UNCHANGED <<clock, keys>> /\ iflag' = (iflag \/ c = "interrupts")
Effect(c) ==
  /\ iflag' = (iflag \/ c = "interrupts")
  /\ keys' = IF c = "interrupts" THEN 0 ELSE keys
  /\ ticks' = IF c = "timer" THEN 0 ELSE ticks
  /\ timed' = timed
  /\ tick_since_switch' = IF c = "scheduler" THEN 0 ELSE tick_since_switch
  /\ preempt_pending' = (c # "scheduler" /\ preempt_pending)

InitSucceeds(c) ==
  /\ ~halted /\ boot_at <= Len(Order) /\ c = Order[boot_at]
  /\ MaySucceed(c)
  /\ ready' = ready \cup {c}
  /\ boot_at' = boot_at + 1
  /\ Effect(c)
  /\ UNCHANGED halted

InitFails(c) ==
  /\ ~halted /\ boot_at <= Len(Order) /\ c = Order[boot_at]
  /\ MayFail(c)
  /\ halted' = Halts(c)
  /\ boot_at' = IF Halts(c) THEN boot_at ELSE boot_at + 1
  /\ UNCHANGED <<ready, iflag, clock, keys>>
-----------------------------------------------------------------------------
(* Interrupts; a halted kernel still takes them *)

\* timer_isr, and scheduler_on_tick, which returns until scheduler_started
irq0 ==
  /\ iflag /\ ticks + timed < MaxTicks
  /\ ticks' = ticks + 1
  /\ timed' = IF "timer" \in ready THEN timed + 1 ELSE timed
  /\ IF "scheduler" \in ready
     THEN /\ tick_since_switch' = tick_since_switch + 1
          /\ preempt_pending' = (preempt_pending \/ tick_since_switch' >= Quantum)
     ELSE UNCHANGED <<tick_since_switch, preempt_pending>>
  /\ UNCHANGED <<boot_at, ready, halted, iflag, keys>>

irq1 ==
  /\ iflag /\ keys < MaxKeys
  /\ keys' = keys + 1
  /\ UNCHANGED <<boot_at, ready, halted, iflag, clock>>

BootNext == (\E c \in Components : InitSucceeds(c) \/ InitFails(c)) \/ irq0 \/ irq1

BootSpec == BootInit /\ [][BootNext]_bootVars
-----------------------------------------------------------------------------
\* What an initialisation calls
Needs ==
  [c \in Components |->
     CASE c = "kheap" -> {"pmm", "paging"}
       [] c = "process" -> {"paging"}
       [] c = "vfs" -> {"kheap"}
       [] c = "selftest" -> {"gdt", "interrupts", "kheap", "scheduler", "process", "exec", "vfs"}
       [] c = "shell" -> Components \ {"usermode", "shell"}
       [] OTHER -> {}]

\* No component comes up before the ones its initialisation calls, whatever
\* fails: kernel_main halts, or the component it goes on without is one
\* nothing later needs. The shell runs only on a kernel that is complete but
\* for the ring 3 test.
NeedsMet == \A c \in ready : Needs[c] \subseteq ready

\* Ticks that come during the boot are not lost or counted twice: from
\* timer_init on timer_ticks is the number of ticks since, and none of those
\* before scheduler_init can make a switch pending.
EarlyTicks ==
  /\ "timer" \in ready => ticks = timed
  /\ preempt_pending => "scheduler" \in ready /\ tick_since_switch >= Quantum
=============================================================================
