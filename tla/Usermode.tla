----------------------------- MODULE Usermode -------------------------------
(***************************************************************************)
(* The usertest command: kernel/usermode.c and kernel/usermode_asm.s send  *)
(* task 0 to ring 3 and bring it back through int 0x81.                    *)
(*                                                                         *)
(* The module follows the words of task 0's kernel stack.  stack[n] is the *)
(* n-th word below the stack pointer that usermode_enter_test samples, and *)
(* esp the number of words pushed below it.  A word is named for what it   *)
(* holds; a code address is the name of the place.                         *)
(***************************************************************************)
EXTENDS Integers, Sequences

CONSTANT Pad \* words the compiler leaves between the sample and the arguments
             \* of the call: 2 in the build's 16-byte aligned call sequence

VARIABLES stack, esp,
          esp0,       \* tss.esp0
          saved_esp,  \* usermode_saved_kernel_esp
          pc

vars == <<stack, esp, esp0, saved_esp, pc>>

\* Twelve saved registers and dispatch's argument and return address at most,
\* on top of a trap frame.
StackWords == 1..(5 + 14 + Pad + 8)

\* The test program usermode_prepare writes, and where each instruction leads.
UserCode == {"mov", "int80a", "int80b", "int81"}
NextInstruction ==
  [mov |-> "int80a", int80a |-> "int80b", int80b |-> "int81", int81 |-> "jmp"]

Pushed(top, words) ==
  [n \in StackWords |-> IF n > top /\ n <= top + Len(words) THEN words[n - top] ELSE stack[n]]

\* What the CPU pushes at tss.esp0 on a trap or interrupt from ring 3.
TrapFrame(eip) == <<"user ss", "user esp", "eflags", "user cs", eip>>
SavedRegisters == [n \in 1..14 |-> "saved"]

Init ==
  /\ stack = [n \in StackWords |-> "unused"]
  /\ esp = 0
  /\ esp0 = 0
  /\ saved_esp = 0
  /\ pc = "usertest"

usermode_enter_test ==
  LET words == [n \in 1..Pad |-> "pad"] \o <<"user stack", "entry", "returned">>
  IN  /\ pc = "usertest"
      /\ esp0' = esp
      /\ stack' = Pushed(esp, words)
      /\ esp' = esp + Len(words)
      /\ pc' = "usermode_switch"
      /\ UNCHANGED saved_esp

\* Saves esp, builds an iret frame below it and leaves for ring 3.
usermode_switch ==
  /\ pc = "usermode_switch"
  /\ saved_esp' = esp
  /\ stack' = Pushed(esp, TrapFrame("mov"))
  /\ pc' = "mov"
  /\ UNCHANGED <<esp, esp0>>

UserMov ==
  /\ pc = "mov"
  /\ pc' = NextInstruction[pc]
  /\ UNCHANGED <<stack, esp, esp0, saved_esp>>

\* A system call runs on the stack at esp0 and returns to the next instruction.
syscall_stub ==
  /\ pc \in {"int80a", "int80b"}
  /\ stack' = Pushed(esp0, TrapFrame(NextInstruction[pc]) \o SavedRegisters)
  /\ pc' = NextInstruction[pc]
  /\ UNCHANGED <<esp, esp0, saved_esp>>

\* A timer or keyboard interrupt in ring 3 returns where it came from.
irq_stub ==
  /\ pc \in UserCode
  /\ stack' = Pushed(esp0, TrapFrame(pc) \o SavedRegisters)
  /\ UNCHANGED <<esp, esp0, saved_esp, pc>>

\* int 0x81 in task 0: restore the saved stack pointer and return through it.
usermode_exit_stub ==
  /\ pc = "int81"
  /\ stack' = Pushed(esp0, TrapFrame(NextInstruction[pc]) \o <<"call">>)
  /\ esp' = saved_esp - 1
  /\ pc' = stack'[saved_esp]
  /\ UNCHANGED <<esp0, saved_esp>>

\* Back in usermode_enter_test, which returns to the command.
Returned ==
  /\ pc = "returned"
  /\ esp' = 0
  /\ pc' = "usertest"
  /\ UNCHANGED <<stack, esp0, saved_esp>>

Next ==
  \/ usermode_enter_test \/ usermode_switch \/ UserMov \/ syscall_stub \/ irq_stub
  \/ usermode_exit_stub \/ Returned

Spec == Init /\ [][Next]_vars
-----------------------------------------------------------------------------
\* The jump after int 0x81 in the test program is unreachable, as usermode.c says
\* of it: int 0x81 does not come back, usermode_exit_stub returns to the command.
JumpUnreachable == pc # "jmp"
=============================================================================
