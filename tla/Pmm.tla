-------------------------------- MODULE Pmm ---------------------------------
(***************************************************************************)
(* The physical memory manager, kernel/pmm.c: a bitmap with one bit per    *)
(* frame, the counters pmm_used and pmm_total, and pmm_hint_frame, the     *)
(* frame at which the next search starts.                                  *)
(*                                                                         *)
(* A frame is its index (address / PAGE_SIZE).  Frame 0 is never usable,   *)
(* so the 0 that the C functions return for "no frame" is 0 here too.      *)
(***************************************************************************)
EXTENDS Integers, FiniteSets

CONSTANTS MaxFrames, \* PMM_MAX_FRAMES, the number of bits of the bitmap
          Regions,   \* the frames inside pmm_region_start/pmm_region_end
          BootData   \* the frames pmm_reserve_multiboot_data goes over

ASSUME PmmAssumption ==
  /\ MaxFrames \in Nat \ {0}
  /\ Regions \subseteq 1..(MaxFrames - 1)
  /\ BootData \subseteq 0..(MaxFrames - 1)

VARIABLES pmm_bitmap,     \* the frames whose bit is set
          pmm_used,
          pmm_total,
          pmm_hint_frame,
          call            \* the last call: <<operation, argument, result>>

vars == <<pmm_bitmap, pmm_used, pmm_total, pmm_hint_frame, call>>

Frames == 0..(MaxFrames - 1)

Unaligned == -1                 \* any address that is not a multiple of PAGE_SIZE
Addresses == Frames \cup {MaxFrames, Unaligned}

pmm_frame_in_regions(f) == f \in Regions

pmm_initialized == Regions # {}

(***************************************************************************)
(* pmm_init sets every bit, clears the bits of the usable regions counting *)
(* pmm_total, and reserves the frames that hold boot data, counting        *)
(* pmm_used.                                                               *)
(***************************************************************************)
Init ==
  LET reserved == {f \in BootData : pmm_frame_in_regions(f)}
  IN  /\ pmm_bitmap = (Frames \ Regions) \cup reserved
      /\ pmm_total = Cardinality(Regions)
      /\ pmm_used = Cardinality(reserved)
      /\ pmm_hint_frame = 0
      /\ call = <<"init", 0, 0>>

-----------------------------------------------------------------------------
(***************************************************************************)
(* pmm_alloc_frame walks the bitmap from the hint to the end and then from *)
(* 0 back to the hint, and takes the first clear bit that lies in a region.*)
(***************************************************************************)
VisitedBefore(g, f) ==
  \/ g >= pmm_hint_frame /\ f < pmm_hint_frame
  \/ g < f /\ (g >= pmm_hint_frame <=> f >= pmm_hint_frame)

Available(f) == f \notin pmm_bitmap /\ pmm_frame_in_regions(f)

FirstAvailable(f) ==
  Available(f) /\ \A g \in Frames : Available(g) => ~VisitedBefore(g, f)

NextHint(f) == IF f + 1 >= MaxFrames THEN 0 ELSE f + 1

pmm_alloc_frame(f) ==
  /\ pmm_initialized
  /\ pmm_used < pmm_total
  /\ FirstAvailable(f)
  /\ pmm_bitmap' = pmm_bitmap \cup {f}
  /\ pmm_hint_frame' = NextHint(f)
  /\ pmm_used' = pmm_used + 1
  /\ call' = <<"alloc", 0, f>>
  /\ UNCHANGED pmm_total

\* The three ways in which pmm_alloc_frame returns 0.
pmm_alloc_frame_fails ==
  /\ \/ ~pmm_initialized
     \/ pmm_used >= pmm_total
     \/ \A f \in Frames : ~Available(f)
  /\ call' = <<"alloc", 0, 0>>
  /\ UNCHANGED <<pmm_bitmap, pmm_used, pmm_total, pmm_hint_frame>>

Freeable(a) ==
  /\ pmm_initialized
  /\ a # Unaligned
  /\ a < MaxFrames
  /\ pmm_frame_in_regions(a)
  /\ a \in pmm_bitmap

HintAfterFree_Kept(f) == pmm_hint_frame
HintAfterFree(f) == IF f < pmm_hint_frame THEN f ELSE pmm_hint_frame

UsedAfterFree == IF pmm_used > 0 THEN pmm_used - 1 ELSE pmm_used

pmm_free_frame(a) ==
  /\ Freeable(a)
  /\ pmm_bitmap' = pmm_bitmap \ {a}
  /\ pmm_hint_frame' = HintAfterFree(a)
  /\ pmm_used' = UsedAfterFree
  /\ call' = <<"free", a, 1>>
  /\ UNCHANGED pmm_total

pmm_free_frame_refused(a) ==
  /\ ~Freeable(a)
  /\ call' = <<"free", a, 0>>
  /\ UNCHANGED <<pmm_bitmap, pmm_used, pmm_total, pmm_hint_frame>>

Next ==
  \/ \E f \in Frames : pmm_alloc_frame(f)
  \/ pmm_alloc_frame_fails
  \/ \E a \in Addresses : pmm_free_frame(a)
  \/ \E a \in Addresses : pmm_free_frame_refused(a)

Spec == Init /\ [][Next]_vars

\* What pmm_free_frames reports to the shell's mem command.
pmm_free_frames == IF pmm_used >= pmm_total THEN 0 ELSE pmm_total - pmm_used
-----------------------------------------------------------------------------
TypeOK ==
  /\ pmm_bitmap \subseteq Frames
  /\ pmm_used \in Nat
  /\ pmm_total \in Nat
  /\ pmm_hint_frame \in Frames
  /\ call \in {"init", "alloc", "free"} \X Addresses \X Frames

(***************************************************************************)
(* The counters are exact: pmm_used is the number of usable frames whose   *)
(* bit is set, so that pmm_alloc_frame's early return on pmm_used >=       *)
(* pmm_total is taken when, and only when, no frame is left, and           *)
(* pmm_free_frames tells the shell the number of clear bits.               *)
(***************************************************************************)
CountersExact ==
  /\ pmm_total = Cardinality(Regions)
  /\ pmm_used = Cardinality(Regions \cap pmm_bitmap)
  /\ pmm_free_frames = Cardinality(Regions \ pmm_bitmap)

(***************************************************************************)
(* The hint never passes a free frame: the search that starts at the hint  *)
(* (pmm_alloc_frame) skips only frames that are in use, whatever sequence  *)
(* of allocations and frees came before.                                   *)
(***************************************************************************)
NoFreeBelowHint == \A f \in Regions : f < pmm_hint_frame => f \in pmm_bitmap

(***************************************************************************)
(* pmm.c implements the abstract pool: an allocation returns the lowest    *)
(* free frame and fails only when none is free, a free succeeds for        *)
(* exactly the frames of the pool that are in use.                         *)
(***************************************************************************)
Pool == INSTANCE FrameSet WITH
          Pool <- Regions, Reserved <- BootData, Args <- Addresses,
          free <- Regions \ pmm_bitmap
PoolSpec == Pool!Spec
=============================================================================
