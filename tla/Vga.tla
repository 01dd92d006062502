-------------------------------- MODULE Vga ---------------------------------
(***************************************************************************)
(* The text screen, kernel/vga.c, as operators on a record of the cells    *)
(* and the cursor. A cell holds a character; its colour never changes.     *)
(***************************************************************************)
EXTENDS Integers, Sequences

CONSTANTS Width, Height \* VGA_WIDTH, VGA_HEIGHT

VgaAssumption == Width \in Nat \ {0} /\ Height \in Nat \ {0}

LOCAL INSTANCE SequencesExt

Blank == 0
Newline == -1
Cells == 0..(Width * Height - 1)

\* cursor_row * VGA_WIDTH + cursor_col
Position(s) == s.row * Width + s.col

vga_clear == [cells |-> [i \in Cells |-> Blank], row |-> 0, col |-> 0]

vga_scroll(cells) == [i \in Cells |-> IF i + Width \in Cells THEN cells[i + Width] ELSE Blank]

vga_newline(s) ==
  IF s.row + 1 < Height THEN [s EXCEPT !.row = @ + 1, !.col = 0]
  ELSE [s EXCEPT !.cells = vga_scroll(@), !.col = 0]

\* A full row is left only when the next character comes.
Wrapped(s) == IF s.col >= Width THEN vga_newline(s) ELSE s

vga_putc(s, c) ==
  LET t == Wrapped(s)
  IN  IF c = Newline THEN vga_newline(s)
      ELSE [t EXCEPT !.cells = [@ EXCEPT ![Position(t)] = c], !.col = @ + 1]

vga_puts(s, text) == FoldLeft(vga_putc, s, text)

\* From the first column to the end of the row above
vga_backspace_SameRow(s) ==
  IF s.col = 0 THEN s
  ELSE [s EXCEPT !.cells = [@ EXCEPT ![Position(s) - 1] = Blank], !.col = @ - 1]
vga_backspace(s) ==
  IF s.col = 0 /\ s.row = 0 THEN s
  ELSE LET t == IF s.col = 0 THEN [s EXCEPT !.row = @ - 1, !.col = Width] ELSE s
       IN  [t EXCEPT !.cells = [@ EXCEPT ![Position(t) - 1] = Blank], !.col = @ - 1]

\* n calls of vga_backspace
Backspaces(s, n) == FoldLeft(LAMBDA t, k : vga_backspace(t), s, [k \in 1..n |-> k])

OnScreen(s) ==
  /\ s.cells \in [Cells -> Int]
  /\ s.row \in 0..(Height - 1) /\ s.col \in 0..Width
=============================================================================
