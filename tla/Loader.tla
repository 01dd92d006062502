------------------------------- MODULE Loader -------------------------------
(***************************************************************************)
(* Where the code of a user process comes from, kernel/process.c: the file *)
(* named after the program, or app.<name>, decoded from hexadecimal by     *)
(* parse_user_image_hex, or a program built into the kernel. Elf models    *)
(* what happens to an image that starts with the ELF magic.                *)
(*                                                                         *)
(* A text is a sequence of characters: digits 0..Base-1, white space, the  *)
(* word MARSHEX and anything else.                                         *)
(***************************************************************************)
EXTENDS Integers, Sequences, SequencesExt

CONSTANTS Base,     \* 16
          ImageMax, \* PROCESS_USER_IMAGE_MAX
          CodeSize, \* PROCESS_USER_CODE_SIZE
          MaxText   \* bound: characters in a file

LoaderAssumption ==
  /\ Base \in Nat \ {0, 1}
  /\ ImageMax \in Nat \ {0} /\ CodeSize \in Nat \ {0} /\ CodeSize <= ImageMax
  /\ MaxText \in Nat

Digits == 0..(Base - 1)
Space == -1
Marshex == -2
Other == -3
Characters == Digits \cup {Space, Marshex, Other}
NoFile == <<-4>>

VARIABLES own, alt,   \* the files <name> and app.<name>
          memory,     \* kmalloc(PROCESS_USER_IMAGE_MAX) succeeds
          p,          \* how much of the text has been read
          image,      \* the bytes decoded so far
          pc,         \* open, decode, place, done
          source      \* what the process will run: elf, flat or builtin, or why it
                      \* will not: failed, or refused by process_load_elf32_single_page

inputs == <<own, alt, memory>>
vars == <<inputs, p, image, pc, source>>

Texts == BoundedSeq(Characters, MaxText)

Init ==
  /\ \/ own \in Texts /\ alt = NoFile \* alt is not looked at
     \/ own = NoFile /\ alt \in Texts \cup {NoFile}
  /\ memory \in BOOLEAN
  /\ p = 0 /\ image = <<>> /\ pc = "open" /\ source = "none"
-----------------------------------------------------------------------------
Stored == IF own # NoFile THEN own ELSE alt
Ends(result) == pc' = "done" /\ source' = result

\* skip_ws: the first place from k on that holds no white space
skip_ws(k) == CHOOSE j \in k..Len(Stored) : /\ \A x \in (k + 1)..j : Stored[x] = Space
                                           /\ j < Len(Stored) => Stored[j + 1] # Space

\* str_len counts characters; MARSHEX has seven.
TooShort == Len(Stored) = 0 \/ (Len(Stored) = 1 /\ Stored[1] # Marshex)

Builtin ==
  /\ pc = "open"
  /\ ~memory \/ Stored = NoFile
  /\ Ends("builtin")
  /\ UNCHANGED <<inputs, p, image>>

Short ==
  /\ pc = "open" /\ memory /\ Stored # NoFile
  /\ TooShort
  /\ Ends("failed")
  /\ UNCHANGED <<inputs, p, image>>

Open ==
  /\ pc = "open" /\ memory /\ Stored # NoFile
  /\ ~TooShort
  /\ LET k == skip_ws(0)
     IN  p' = IF k < Len(Stored) /\ Stored[k + 1] = Marshex THEN k + 1 ELSE k
  /\ pc' = "decode"
  /\ UNCHANGED <<inputs, image, source>>
-----------------------------------------------------------------------------
(* parse_user_image_hex, one round of its loop *)

IsPair(k) == k + 2 <= Len(Stored) /\ Stored[k + 1] \in Digits /\ Stored[k + 2] \in Digits

Full == Len(image) >= ImageMax

Byte_Swapped(k) == Stored[k + 2] * Base + Stored[k + 1]
Byte(k) == Stored[k + 1] * Base + Stored[k + 2]

Pair ==
  LET k == skip_ws(p)
  IN  /\ pc = "decode"
      /\ k < Len(Stored) /\ IsPair(k) /\ ~Full
      /\ image' = Append(image, Byte(k))
      /\ p' = k + 2
      /\ UNCHANGED <<inputs, pc, source>>

NoPair ==
  LET k == skip_ws(p)
  IN  /\ pc = "decode"
      /\ k < Len(Stored) /\ (~IsPair(k) \/ Full)
      /\ Ends("failed")
      /\ UNCHANGED <<inputs, p, image>>

EndOfText ==
  /\ pc = "decode"
  /\ skip_ws(p) = Len(Stored)
  /\ IF image = <<>> THEN Ends("failed") ELSE pc' = "place" /\ UNCHANGED source
  /\ UNCHANGED <<inputs, p, image>>
-----------------------------------------------------------------------------
(* process_build_user_image, once it has the bytes *)

FlatFits == Len(image) <= CodeSize

Place ==
  /\ pc = "place"
  /\ \/ Ends("elf") \/ Ends("refused")
     \/ Ends(IF FlatFits THEN "flat" ELSE "failed")
  /\ UNCHANGED <<inputs, p, image>>

Next == Builtin \/ Short \/ Open \/ Pair \/ NoPair \/ EndOfText \/ Place

Spec == Init /\ [][Next]_vars
-----------------------------------------------------------------------------
TypeOK ==
  /\ p \in 0..(Len(Stored) + 1)
  /\ image \in Seq(0..(Base * Base - 1)) /\ Len(image) <= ImageMax
  /\ pc \in {"open", "decode", "place", "done"}
  /\ source \in {"none", "elf", "flat", "builtin", "failed", "refused"}

(* What a text means, said without a cursor: white space separates words, and
   each word is an even number of digits. *)
Body ==
  LET spaces == {k \in 0..Len(Stored) : \A x \in 1..k : Stored[x] = Space}
      first == CHOOSE k \in spaces : \A j \in spaces : j <= k
  IN  IF first < Len(Stored) /\ Stored[first + 1] = Marshex
      THEN SubSeq(Stored, first + 2, Len(Stored)) ELSE Stored

IsWord(a, b) ==
  /\ \A x \in a..b : Body[x] # Space
  /\ a = 1 \/ Body[a - 1] = Space
  /\ b = Len(Body) \/ Body[b + 1] = Space

WellFormed ==
  \A a \in 1..Len(Body) : \A b \in a..Len(Body) :
    IsWord(a, b) => (b - a) % 2 = 1 /\ \A x \in a..b : Body[x] \in Digits

DigitsOf == SelectSeq(Body, LAMBDA c : c \in Digits)
Meaning == [k \in 1..(Len(DigitsOf) \div 2) |-> DigitsOf[2 * k - 1] * Base + DigitsOf[2 * k]]

\* A process runs the code of a file only if the whole file is well formed, and
\* then the code is what the file says ("rejects malformed image content
\* instead of silently executing it").
CodeIsFile ==
  source \in {"elf", "flat"} =>
    /\ WellFormed
    /\ image = Meaning
    /\ source = "flat" => Len(Meaning) <= CodeSize

\* An image is given up only because of what the file holds: too little,
\* something malformed, or more than fits.
FailsForCause ==
  source = "failed" =>
    \/ TooShort \/ ~WellFormed \/ Meaning = <<>>
    \/ Len(Meaning) > CodeSize

\* The file alone decides: what it says is run, never in part and never past the
\* end of the image buffer, or it is given up for what it holds.
FileDecides == TypeOK /\ CodeIsFile /\ FailsForCause
=============================================================================
