------------------------------ MODULE Keyboard ------------------------------
(***************************************************************************)
(* The keyboard, kernel/keyboard.c, and its reader, the main loop of       *)
(* kernel_main.  The interrupt handler runs between any two memory         *)
(* accesses of keyboard_try_getchar and may fall between the test that     *)
(* finds the buffer empty and the hlt that follows it.                     *)
(*                                                                         *)
(* KeyInit is the state keyboard_buffer_reset leaves; interrupts_init      *)
(* calls it before it enables interrupts.                                  *)
(***************************************************************************)
EXTENDS Integers, Sequences

CONSTANT Size \* KEYBOARD_BUFFER_SIZE; the uint8_t indices wrap at the same value

ASSUME KeyboardAssumption == Size \in Nat /\ Size > 1

VARIABLES buffer, buffer_head, buffer_tail, shift, extended,
          pc,  \* where the reader is
          c,   \* the character keyboard_try_getchar has read
          got  \* what its last call returned

keyVars == <<buffer, buffer_head, buffer_tail, shift, extended, pc, c, got>>

NoChar == "none"
Chars == {"plain", "shifted", "special"}
Indices == 0..(Size - 1)

\* Scancodes by how keyboard_handle_scancode treats them: the prefix 0xE0, the
\* shift keys, an ordinary key, a key that means something only after the prefix
\* (the arrows and delete), any other release, and an interrupt with no byte in
\* the controller.
Scancodes == {"E0", "shift down", "shift up", "key", "arrow", "release", "no data"}

KeyInit ==
  /\ buffer = [k \in Indices |-> NoChar]
  /\ buffer_head = 0
  /\ buffer_tail = 0
  /\ shift = FALSE
  /\ extended = FALSE
  /\ pc = "test" /\ c = NoChar /\ got = NoChar

NextIndex(k) == IF k = Size - 1 THEN 0 ELSE k + 1
-----------------------------------------------------------------------------
(* The interrupt handler *)

\* The character a scancode yields.
Decoded(scancode) ==
  CASE extended -> IF scancode = "arrow" THEN "special" ELSE NoChar
    [] ~extended /\ scancode = "key" -> IF shift THEN "shifted" ELSE "plain"
    [] OTHER -> NoChar

Full_OneMore == FALSE
Full == NextIndex(buffer_head) = buffer_tail

keyboard_buffer_push(ch) ==
  IF ch = NoChar \/ Full
  THEN UNCHANGED <<buffer, buffer_head>>
  ELSE /\ buffer' = [buffer EXCEPT ![buffer_head] = ch]
       /\ buffer_head' = NextIndex(buffer_head)

Wake == pc' = IF pc = "hlt" THEN "test" ELSE pc

keyboard_isr(scancode) ==
  /\ extended' = IF scancode = "no data" THEN extended ELSE scancode = "E0"
  /\ shift' = IF extended \/ scancode \notin {"shift down", "shift up"}
              THEN shift
              ELSE scancode = "shift down"
  /\ keyboard_buffer_push(Decoded(scancode))
  /\ Wake
  /\ UNCHANGED <<buffer_tail, c, got>>

TimerWakes_Not == FALSE
TimerWakes == pc = "hlt"

timer_interrupt ==
  /\ TimerWakes
  /\ Wake
  /\ UNCHANGED <<buffer, buffer_head, buffer_tail, shift, extended, c, got>>
-----------------------------------------------------------------------------
(* The main loop: keyboard_try_getchar, then hlt or the command line *)

ring == <<buffer, buffer_head, buffer_tail, shift, extended>>

\* Only the reader moves buffer_tail, so the comparison is one read of buffer_head.
TestEmpty ==
  /\ pc = "test"
  /\ buffer_head = buffer_tail
  /\ pc' = "empty"
  /\ got' = NoChar
  /\ UNCHANGED <<ring, c>>

TestNonEmpty ==
  /\ pc = "test"
  /\ buffer_head # buffer_tail
  /\ pc' = "read"
  /\ UNCHANGED <<ring, c, got>>

ReadChar ==
  /\ pc = "read"
  /\ c' = buffer[buffer_tail]
  /\ pc' = "advance"
  /\ UNCHANGED <<ring, got>>

AdvanceTail == NextIndex(buffer_tail)

Advance ==
  /\ pc = "advance"
  /\ buffer_tail' = AdvanceTail
  /\ got' = c
  /\ pc' = "handle"
  /\ UNCHANGED <<buffer, buffer_head, shift, extended, c>>

HandleChar ==
  /\ pc = "handle"
  /\ pc' = "test"
  /\ UNCHANGED <<ring, c, got>>

Halt ==
  /\ pc = "empty"
  /\ pc' = "hlt"
  /\ UNCHANGED <<ring, c, got>>

MainLoop == TestEmpty \/ TestNonEmpty \/ ReadChar \/ Advance \/ HandleChar \/ Halt

KeyNext == MainLoop \/ timer_interrupt \/ \E scancode \in Scancodes : keyboard_isr(scancode)

KeySpec == KeyInit /\ [][KeyNext]_keyVars

\* The CPU executes the main loop, and the timer keeps interrupting it.
KeyFairSpec == KeySpec /\ WF_keyVars(MainLoop) /\ WF_keyVars(timer_interrupt)
-----------------------------------------------------------------------------
KeyTypeOK ==
  /\ buffer \in [Indices -> Chars \cup {NoChar}]
  /\ buffer_head \in Indices
  /\ buffer_tail \in Indices
  /\ shift \in BOOLEAN
  /\ extended \in BOOLEAN
  /\ pc \in {"test", "read", "advance", "handle", "empty", "hlt"}
  /\ c \in Chars \cup {NoChar}
  /\ got \in Chars \cup {NoChar}

\* The slot the reader is taking a character from is not reused under it: from the
\* test to the advance the buffer stays non-empty, its oldest character is a real
\* one and is the one that was read, however many interrupts arrive in between.
ReadStable ==
  /\ pc \in {"read", "advance"} => buffer_head # buffer_tail /\ buffer[buffer_tail] # NoChar
  /\ pc = "advance" => c = buffer[buffer_tail]

\* The characters between tail and head, oldest first.
Count == IF buffer_head >= buffer_tail THEN buffer_head - buffer_tail ELSE buffer_head - buffer_tail + Size
Slot(k) == IF buffer_tail + k - 1 < Size THEN buffer_tail + k - 1 ELSE buffer_tail + k - 1 - Size
Contents == [k \in 1..Count |-> buffer[Slot(k)]]

Fifo == INSTANCE KeyFifo WITH Capacity <- Size - 1, queue <- Contents

\* The buffer and its handlers implement the bounded queue: no key is lost while
\* there is room, none is returned twice, out of order or made up.
FifoSpec == Fifo!Spec

\* A key in the buffer is handled, even one whose interrupt came just before the
\* hlt and so cannot wake it.
KeyHandled == buffer_head # buffer_tail ~> pc = "handle"
=============================================================================
