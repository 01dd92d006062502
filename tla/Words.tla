------------------------------- MODULE Words --------------------------------
(***************************************************************************)
(* uint32_t, with a word size that a model may make smaller.               *)
(***************************************************************************)
EXTENDS Integers

CONSTANT Word \* 2^32

UINT32_MAX == Word - 1
=============================================================================
