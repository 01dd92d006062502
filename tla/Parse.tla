------------------------------- MODULE Parse --------------------------------
(***************************************************************************)
(* parse_u32 and parse_u32_auto, kernel/kernel.c: the numbers in the       *)
(* shell's commands, one character at a time. parse_u32 reads base 10;     *)
(* parse_u32_auto reads base 16 behind 0x. The characters are chosen as    *)
(* they are read: a digit's value, or NotADigit.                           *)
(***************************************************************************)
EXTENDS Words

CONSTANT Bases \* {10, 16}

ASSUME ParseAssumption ==
  /\ Word \in Nat \ {0}
  /\ Bases \subseteq 2..Word

VARIABLES base, value,
          exact, \* the number the characters read so far stand for
          read,  \* whether there are any
          parse_at \* loop, accepted or rejected

parseVars == <<base, value, exact, read, parse_at>>

NotADigit == -1
Digits == 0..15

ParseInit ==
  /\ base \in Bases
  /\ value = 0 /\ exact = 0 /\ read = FALSE /\ parse_at = "loop"
-----------------------------------------------------------------------------
\* A sum or a product below 2 * Word, as a word
Wrap(x) == IF x < Word THEN x ELSE x - Word

Times(d) == Wrap(value * base + d)

\* The two tests for overflow, before and after the multiplication
Fits_BeforeOnly(d) == value <= UINT32_MAX \div base
Fits(d) == value <= UINT32_MAX \div base /\ Times(d) >= d

Digit(d) ==
  /\ parse_at = "loop"
  /\ d \in 0..(base - 1) /\ Fits(d)
  /\ value' = Times(d)
  /\ exact' = exact * base + d
  /\ read' = TRUE
  /\ UNCHANGED <<base, parse_at>>

Reject(d) ==
  /\ parse_at = "loop"
  /\ d \notin 0..(base - 1) \/ ~Fits(d)
  /\ parse_at' = "rejected"
  /\ exact' = IF d \in 0..(base - 1) THEN exact * base + d ELSE NotADigit
  /\ UNCHANGED <<base, value, read>>

ParseEnd ==
  /\ parse_at = "loop"
  /\ IF read THEN parse_at' = "accepted" /\ UNCHANGED exact
     ELSE parse_at' = "rejected" /\ exact' = NotADigit
  /\ UNCHANGED <<base, value, read>>

ParseNext ==
  \/ \E d \in Digits : Digit(d)
  \/ \E d \in Digits \cup {NotADigit} : Reject(d)
  \/ ParseEnd

ParseSpec == ParseInit /\ [][ParseNext]_parseVars
-----------------------------------------------------------------------------
\* The value is the number that was typed, never that number modulo 2^32: of
\* the two tests, the second sees every overflow the first lets through.
ValueExact == parse_at # "rejected" => value = exact

\* A number is rejected only if it is no number or needs more than 32 bits.
RejectedTooLarge == parse_at = "rejected" => exact = NotADigit \/ exact > UINT32_MAX
=============================================================================
