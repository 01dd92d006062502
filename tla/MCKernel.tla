------------------------------ MODULE MCKernel ------------------------------
(***************************************************************************)
(* kernel.c: the boot, the self test and the demos, the line editor, the   *)
(* parsers of numbers. They have no variable in common, so a behaviour     *)
(* moves one of them, the part, and leaves the others parked in an initial *)
(* state.                                                                  *)
(***************************************************************************)
EXTENDS Parse, Boot

VARIABLES part,
          state, current_task, left, pings, entry, user_pings, test_pc, after, k,
          run, made, trouble, verdict, commands,                      \* Selftest
          line, cursor_pos, history, history_cursor, screen, entered, midEdit \* Shell

Test == INSTANCE Selftest WITH
  MaxTasks <- 5, ProcessMax <- 5, Rounds <- {1, 2}, MaxCommands <- 2, pc <- test_pc

Console == INSTANCE Shell WITH
  Width <- 2, Height <- 2, LineMax <- 3, HistoryMax <- 2, Letters <- {1, 2}, MaxLines <- 3

ASSUME Test!SelftestAssumption
ASSUME Console!VgaAssumption /\ Console!ShellAssumption

testVars == <<state, current_task, left, pings, entry, user_pings, test_pc, after, k,
              run, made, trouble, verdict, commands>>
consoleVars == <<line, cursor_pos, history, history_cursor, screen, entered, midEdit>>
mcVars == <<part, parseVars, bootVars, testVars, consoleVars>>

MCInit ==
  /\ part \in {"numbers", "boot", "selftest", "shell"}
  /\ ParseInit /\ (part # "numbers" => base = 10)
  /\ BootInit /\ Test!Init
  /\ Console!Init /\ (part # "shell" => screen.row = 0)

MCNext ==
  \/ part = "numbers" /\ ParseNext /\ UNCHANGED <<part, bootVars, testVars, consoleVars>>
  \/ part = "boot" /\ BootNext /\ UNCHANGED <<part, parseVars, testVars, consoleVars>>
  \/ part = "selftest" /\ Test!Next /\ UNCHANGED <<part, parseVars, bootVars, consoleVars>>
  \/ part = "shell" /\ Console!Next /\ UNCHANGED <<part, parseVars, bootVars, testVars>>

MCSpec == MCInit /\ [][MCNext]_mcVars
-----------------------------------------------------------------------------
(* run_selftest, stressproc and taskdemo *)

\* The self test passes exactly when nothing went wrong in it: the fixed numbers
\* of yields are enough for its programs, and it notices failed spawns.
VerdictRight == Test!VerdictRight

\* Every process has ended and been reaped when stressproc counts what remains, and
\* taskdemo's forty yields let both of its tasks end.
YieldsSuffice == Test!YieldsSuffice
-----------------------------------------------------------------------------
(* The line editor of kernel_main's loop, over vga.c *)

\* The history is the last lines entered, as and in the order they were entered
\* (shell_store_history), whatever UP, DOWN and editing did in between.
HistoryExact == part = "shell" => Console!HistoryExact

\* While the line is changed only at its end, the screen shows the prompt and the
\* line up to the cursor, through wrapped rows and scrolling, and nothing after; the
\* line never outgrows its buffer.
ShowsLine == part = "shell" => Console!ShowsLine
=============================================================================
