------------------------------ MODULE KeyFifo -------------------------------
(***************************************************************************)
(* What the keyboard buffer promises: a bounded first-in first-out queue   *)
(* of characters.  A character that finds the queue full is dropped; every *)
(* other one is returned once, in the order of the key presses.            *)
(***************************************************************************)
EXTENDS Integers, Sequences

CONSTANTS Chars, NoChar, Capacity

VARIABLES queue, \* the characters not yet returned
          got    \* the result of the last call of keyboard_try_getchar

vars == <<queue, got>>

Init == queue = <<>> /\ got = NoChar

Press(c) ==
  /\ Len(queue) < Capacity
  /\ queue' = Append(queue, c)
  /\ UNCHANGED got

Return ==
  /\ queue # <<>>
  /\ got' = Head(queue)
  /\ queue' = Tail(queue)

ReturnNothing ==
  /\ queue = <<>>
  /\ got' = NoChar
  /\ UNCHANGED queue

Next == (\E c \in Chars : Press(c)) \/ Return \/ ReturnNothing

Spec == Init /\ [][Next]_vars
=============================================================================
