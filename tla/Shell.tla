------------------------------- MODULE Shell --------------------------------
(***************************************************************************)
(* The shell's line editor and history, the main loop of kernel/kernel.c,  *)
(* with the screen it draws on. An action is what one key does. What a     *)
(* command prints is not told apart: it leaves old output in the rows      *)
(* above the cursor and nothing below.                                     *)
(***************************************************************************)
EXTENDS Vga

CONSTANTS LineMax,    \* SHELL_LINE_MAX
          HistoryMax, \* SHELL_HISTORY_MAX
          Letters,
          MaxLines    \* bound: lines entered

ShellAssumption ==
  /\ LineMax \in Nat \ {0} /\ HistoryMax \in Nat \ {0}
  /\ Letters \subseteq Nat \ {0}
  /\ LineMax < Width * Height \* the prompt, one character, and a line fit
  /\ MaxLines \in Nat

S == INSTANCE SequencesExt

VARIABLES line, cursor_pos,
          history, history_cursor,
          screen,
          entered,  \* the lines entered so far
          midEdit   \* the line was changed before its end

vars == <<line, cursor_pos, history, history_cursor, screen, entered, midEdit>>

Prompt == -2
Old == -3

\* The screen when a command has returned: old output up to row r, none after clear.
AfterOutput(r) ==
  [vga_clear EXCEPT !.cells = [i \in Cells |-> IF i < r * Width THEN Old ELSE @[i]], !.row = r]

Init ==
  /\ \E r \in 0..(Height - 1) : screen = vga_putc(AfterOutput(r), Prompt)
  /\ line = <<>> /\ cursor_pos = 0
  /\ history = <<>> /\ history_cursor = -1
  /\ entered = <<>> /\ midEdit = FALSE
-----------------------------------------------------------------------------
RestOf(text, k) == SubSeq(text, k + 1, Len(text))

\* shell_move_cursor_to_end, then shell_replace_line
Cut(text) == SubSeq(text, 1, S!Min({Len(text), LineMax - 1}))

Replaced(text) == vga_puts(Backspaces(vga_puts(screen, RestOf(line, cursor_pos)), Len(line)), Cut(text))

Recall(k) ==
  LET text == IF k < 0 THEN <<>> ELSE history[k + 1]
  IN  /\ history_cursor' = k
      /\ screen' = Replaced(text)
      /\ line' = Cut(text)
      /\ cursor_pos' = Len(line')
      /\ UNCHANGED <<history, entered, midEdit>>

\* shell_redraw_line
shell_redraw_line(text, at) ==
  Backspaces(vga_puts(Backspaces(screen, Len(text)), text), Len(text) - at)

Up ==
  /\ history # <<>>
  /\ Recall(IF history_cursor < 0 THEN Len(history) - 1
            ELSE IF history_cursor > 0 THEN history_cursor - 1 ELSE 0)

Down ==
  /\ history_cursor >= 0
  /\ Recall(IF history_cursor + 1 >= Len(history) THEN -1 ELSE history_cursor + 1)

Left ==
  /\ cursor_pos > 0
  /\ cursor_pos' = cursor_pos - 1
  /\ screen' = vga_backspace(screen)
  /\ UNCHANGED <<line, history, history_cursor, entered, midEdit>>

Right ==
  /\ cursor_pos < Len(line)
  /\ cursor_pos' = cursor_pos + 1
  /\ screen' = vga_putc(screen, line[cursor_pos + 1])
  /\ UNCHANGED <<line, history, history_cursor, entered, midEdit>>

Delete ==
  /\ cursor_pos < Len(line)
  /\ line' = S!RemoveAt(line, cursor_pos + 1)
  /\ screen' = shell_redraw_line(line', cursor_pos)
  /\ midEdit' = TRUE
  /\ UNCHANGED <<cursor_pos, history, history_cursor, entered>>

Backspace ==
  /\ cursor_pos > 0
  /\ line' = S!RemoveAt(line, cursor_pos)
  /\ cursor_pos' = cursor_pos - 1
  /\ IF cursor_pos = Len(line)
     THEN screen' = vga_backspace(screen) /\ UNCHANGED midEdit
     ELSE screen' = shell_redraw_line(line', cursor_pos') /\ midEdit' = TRUE
  /\ UNCHANGED <<history, history_cursor, entered>>

Room == Len(line) < LineMax - 1

Insert(c) ==
  /\ Room
  /\ line' = S!InsertAt(line, cursor_pos + 1, c)
  /\ cursor_pos' = cursor_pos + 1
  /\ IF cursor_pos = Len(line)
     THEN screen' = vga_putc(screen, c) /\ UNCHANGED midEdit
     ELSE screen' = shell_redraw_line(line', cursor_pos') /\ midEdit' = TRUE
  /\ UNCHANGED <<history, history_cursor, entered>>
-----------------------------------------------------------------------------
\* shell_store_history: the oldest line makes room.
shell_store_history_Newest(h, text) ==
  IF text = <<>> \/ (h # <<>> /\ h[Len(h)] = text) THEN h
  ELSE IF Len(h) < HistoryMax THEN Append(h, text)
  ELSE [h EXCEPT ![Len(h)] = text]
shell_store_history(h, text) ==
  IF text = <<>> \/ (h # <<>> /\ h[Len(h)] = text) THEN h
  ELSE IF Len(h) < HistoryMax THEN Append(h, text)
  ELSE Append(Tail(h), text)

\* A new line, the command, and the next prompt
Enter ==
  /\ Len(entered) < MaxLines
  /\ history' = shell_store_history(history, line)
  /\ entered' = Append(entered, line)
  /\ \E r \in 0..(Height - 1) : screen' = vga_putc(AfterOutput(r), Prompt)
  /\ line' = <<>> /\ cursor_pos' = 0
  /\ history_cursor' = -1 /\ midEdit' = FALSE

Next ==
  \/ Up \/ Down \/ Left \/ Right \/ Delete \/ Backspace
  \/ \E c \in Letters : Insert(c)
  \/ Enter

Spec == Init /\ [][Next]_vars
-----------------------------------------------------------------------------
TypeOK ==
  /\ line \in Seq(Letters) /\ Len(line) < LineMax
  /\ cursor_pos \in 0..Len(line)
  /\ Len(history) <= HistoryMax
  /\ history_cursor \in -1..(Len(history) - 1)
  /\ OnScreen(screen)

\* The lines entered, without empty ones and without repetitions in a row
Distinct ==
  LET texts == SelectSeq(entered, LAMBDA t : t # <<>>)
      news == {k \in 1..Len(texts) : k = 1 \/ texts[k] # texts[k - 1]}
      nth(j) == CHOOSE k \in news : j = Len(SelectSeq([x \in 1..k |-> x], LAMBDA x : x \in news))
  IN  [j \in 1..Len(SelectSeq([x \in 1..Len(texts) |-> x], LAMBDA x : x \in news)) |-> texts[nth(j)]]

\* The history is the last lines entered, in the order they were entered:
\* shell_store_history drops the oldest when it is full, and whatever UP, DOWN
\* and editing a recalled line do, the lines kept stay as they were entered.
HistoryExact ==
  history = SubSeq(Distinct, Len(Distinct) - Len(history) + 1, Len(Distinct))
    /\ Len(history) = IF Len(Distinct) < HistoryMax THEN Len(Distinct) ELSE HistoryMax

\* While the line is changed only at its end, the screen shows what is before
\* the cursor: the prompt and the characters up to cursor_pos end where the
\* screen's cursor is, nothing follows, and the output above is untouched,
\* through wrapped rows, scrolling, LEFT, RIGHT, UP and DOWN.
LineShown ==
  ~midEdit =>
    LET end == Position(screen)
        start == end - cursor_pos
    IN  /\ start > 0 /\ screen.cells[start - 1] = Prompt
        /\ \A k \in 1..cursor_pos : screen.cells[start + k - 1] = line[k]
        /\ \A i \in Cells : /\ i >= end => screen.cells[i] = Blank
                            /\ i < start - 1 => screen.cells[i] = Old

\* The line fits its buffer, its cursor and the screen's stay within bounds, and
\* the screen shows the line.
ShowsLine == TypeOK /\ LineShown
=============================================================================
