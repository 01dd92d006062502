------------------------------ MODULE FrameSet ------------------------------
(***************************************************************************)
(* What the physical memory manager promises its callers: a pool of        *)
(* frames, of which a set is free.  An allocation takes the lowest free    *)
(* frame and fails only when there is none.  A free gives back a frame of  *)
(* the pool that is in use, and refuses everything else.  The bitmap, the  *)
(* counters and the search hint of pmm.c are absent here.                  *)
(***************************************************************************)
EXTENDS Integers

CONSTANTS Pool,     \* the frames that exist
          Reserved, \* those in use from the start
          Args      \* every argument a caller may pass to Free

VARIABLES free,     \* the free frames
          call      \* the last call: <<operation, argument, return value>>

Init ==
  /\ free = Pool \ Reserved
  /\ call = <<"init", 0, 0>>

Alloc(f) ==
  /\ f \in free
  /\ \A g \in free : f <= g
  /\ free' = free \ {f}
  /\ call' = <<"alloc", 0, f>>

AllocFails ==
  /\ free = {}
  /\ call' = <<"alloc", 0, 0>>
  /\ UNCHANGED free

Free(f) ==
  /\ f \in Pool \ free
  /\ free' = free \cup {f}
  /\ call' = <<"free", f, 1>>

FreeRefused(a) ==
  /\ a \notin Pool \ free
  /\ call' = <<"free", a, 0>>
  /\ UNCHANGED free

Next ==
  \/ \E f \in Pool : Alloc(f) \/ Free(f)
  \/ AllocFails
  \/ \E a \in Args : FreeRefused(a)

Spec == Init /\ [][Next]_<<free, call>>
=============================================================================
