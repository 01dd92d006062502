---------------------------- MODULE CountProofs -----------------------------
(***************************************************************************)
(* Proofs about what the kernel counts: the frames of the physical memory  *)
(* manager, the messages in their table and the ticks of the timer.        *)
(***************************************************************************)
EXTENDS Pmm, Ipc, Timer, FiniteSetTheorems, TLAPS

USE SMTT(60)
-----------------------------------------------------------------------------
(***************************************************************************)
(* Proofs about the physical memory manager, for every bitmap size, every  *)
(* set of usable frames and every set of boot-data frames.                 *)
(*                                                                         *)
(* The counters are needed to show that an allocation fails only when no   *)
(* frame is free, and the hint to show that it returns the lowest one; so  *)
(* the inductive invariant is their conjunction.                           *)
(***************************************************************************)

UsedExact ==
  /\ pmm_total = Cardinality(Regions)
  /\ pmm_used = Cardinality(Regions \cap pmm_bitmap)

PmmIInv == TypeOK /\ UsedExact /\ NoFreeBelowHint

\* The usable frames are finitely many, so that they can be counted.
LEMMA RegionsFinite ==
  ASSUME NEW S \in SUBSET Regions
  PROVE  IsFiniteSet(S) /\ Cardinality(S) \in Nat
<1>1. IsFiniteSet(1..(MaxFrames - 1))
  BY PmmAssumption, FS_Interval
<1>2. S \subseteq 1..(MaxFrames - 1)
  BY PmmAssumption
<1>3. IsFiniteSet(S)
  BY <1>1, <1>2, FS_Subset, ZenonT(60)
<1> QED
  BY <1>3, FS_CardinalityType

\* Counting the used and the free part of the pool counts the pool.
LEMMA UsedPlusFree ==
  ASSUME NEW B
  PROVE  /\ Cardinality(Regions) = Cardinality(Regions \cap B) + Cardinality(Regions \ B)
         /\ Cardinality(Regions) \in Nat
         /\ Cardinality(Regions \cap B) \in Nat
         /\ Cardinality(Regions \ B) \in Nat
<1>1. /\ IsFiniteSet(Regions) /\ IsFiniteSet(Regions \cap B) /\ IsFiniteSet(Regions \ B)
      /\ Cardinality(Regions) \in Nat
      /\ Cardinality(Regions \cap B) \in Nat
      /\ Cardinality(Regions \ B) \in Nat
  BY RegionsFinite
<1>2. Cardinality(Regions \ B) = Cardinality(Regions) - Cardinality(Regions \cap B)
  BY <1>1, FS_Difference, ZenonT(60)
<1> QED
  BY <1>1, <1>2

\* pmm_used >= pmm_total, the early return of pmm_alloc_frame, means that
\* every usable frame has its bit set.
LEMMA FullMeansNoneFree ==
  ASSUME UsedExact
  PROVE  pmm_used >= pmm_total <=> Regions \ pmm_bitmap = {}
<1>1. Cardinality(Regions \ pmm_bitmap) = 0 <=> Regions \ pmm_bitmap = {}
  BY RegionsFinite, FS_EmptySet
<1>2. /\ pmm_total = pmm_used + Cardinality(Regions \ pmm_bitmap)
      /\ pmm_used \in Nat /\ Cardinality(Regions \ pmm_bitmap) \in Nat
  BY UsedPlusFree DEF UsedExact
<1> QED
  BY <1>1, <1>2

\* Under the invariant, the frame pmm_alloc_frame finds from the hint is the
\* lowest free frame of the pool.
LEMMA FirstIsLowest ==
  ASSUME PmmIInv, NEW f \in Frames, FirstAvailable(f)
  PROVE  /\ f \in Regions \ pmm_bitmap
         /\ \A g \in Regions \ pmm_bitmap : f <= g
<1>1. f \in Regions \ pmm_bitmap
  BY DEF FirstAvailable, Available, pmm_frame_in_regions
<1>2. ASSUME NEW g \in Regions \ pmm_bitmap
      PROVE  f <= g
  <2>1. g \in Frames /\ g \in Int /\ f \in Int
    BY PmmAssumption DEF Frames
  <2>2. ~VisitedBefore(g, f)
    BY <2>1 DEF FirstAvailable, Available, pmm_frame_in_regions
  <2>3. g >= pmm_hint_frame /\ f >= pmm_hint_frame /\ pmm_hint_frame \in Int
    BY <1>1, <2>1, PmmAssumption DEF PmmIInv, TypeOK, NoFreeBelowHint, Frames
  <2> QED
    BY <2>1, <2>2, <2>3 DEF VisitedBefore
<1> QED
  BY <1>1, <1>2

-----------------------------------------------------------------------------
LEMMA PmmInitIInv == Init => PmmIInv
<1> SUFFICES ASSUME Init PROVE PmmIInv
  OBVIOUS
<1> DEFINE reserved == {f \in BootData : pmm_frame_in_regions(f)}
<1>1. Regions \cap pmm_bitmap = reserved
  BY PmmAssumption DEF Init, pmm_frame_in_regions, Frames
<1>2. UsedExact
  BY <1>1 DEF Init, UsedExact
<1>3. TypeOK
  <2>1. pmm_bitmap \subseteq Frames
    BY PmmAssumption, ZenonT(60) DEF Init, Frames
  <2>2. pmm_used \in Nat /\ pmm_total \in Nat
    BY <1>2, UsedPlusFree, ZenonT(60) DEF UsedExact
  <2>3. pmm_hint_frame \in Frames /\ 0 \in Frames /\ 0 \in Addresses
    BY PmmAssumption DEF Init, Frames, Addresses
  <2> QED
    BY <2>1, <2>2, <2>3 DEF Init, TypeOK
<1>4. NoFreeBelowHint
  BY PmmAssumption DEF Init, NoFreeBelowHint
<1> QED
  BY <1>2, <1>3, <1>4 DEF PmmIInv

LEMMA AllocIInv ==
  ASSUME PmmIInv, NEW f \in Frames, pmm_alloc_frame(f)
  PROVE  PmmIInv'
<1>1. f \in Regions \ pmm_bitmap /\ \A g \in Regions \ pmm_bitmap : f <= g
  BY FirstIsLowest DEF pmm_alloc_frame
<1>2. f \in Int /\ 0 <= f /\ f < MaxFrames /\ MaxFrames \in Int
  BY PmmAssumption DEF Frames
<1>3. NextHint(f) \in Frames /\ NextHint(f) <= f + 1
  BY <1>2, PmmAssumption DEF NextHint, Frames
<1>4. TypeOK'
  <2>1. f \in Frames /\ 0 \in Addresses
    BY PmmAssumption DEF Frames, Addresses
  <2>2. pmm_bitmap' \subseteq Frames /\ pmm_used' \in Nat /\ pmm_total' \in Nat
    BY <2>1 DEF PmmIInv, TypeOK, pmm_alloc_frame
  <2> QED
    BY <2>1, <2>2, <1>3 DEF PmmIInv, TypeOK, pmm_alloc_frame
<1>5. UsedExact'
  <2>1. Regions \cap pmm_bitmap' = (Regions \cap pmm_bitmap) \cup {f}
    BY <1>1 DEF pmm_alloc_frame
  <2>2. f \notin Regions \cap pmm_bitmap
    BY <1>1
  <2>3. Cardinality((Regions \cap pmm_bitmap) \cup {f}) = Cardinality(Regions \cap pmm_bitmap) + 1
    BY <2>2, RegionsFinite, FS_AddElement
  <2> QED
    BY <2>1, <2>3 DEF PmmIInv, UsedExact, pmm_alloc_frame
<1>6. NoFreeBelowHint'
  <2> SUFFICES ASSUME NEW g \in Regions, g < pmm_hint_frame'
               PROVE  g \in pmm_bitmap'
    BY DEF NoFreeBelowHint
  <2>1. g \in Int
    BY PmmAssumption
  <2>2. g <= f
    BY <1>2, <1>3, <2>1, PmmAssumption DEF pmm_alloc_frame, Frames
  <2>3. g = f \/ g \in pmm_bitmap
    BY <1>1, <1>2, <2>1, <2>2
  <2> QED
    BY <2>3 DEF pmm_alloc_frame
<1> QED
  BY <1>4, <1>5, <1>6 DEF PmmIInv

LEMMA FreeIInv ==
  ASSUME PmmIInv, NEW a \in Addresses, pmm_free_frame(a)
  PROVE  PmmIInv'
<1>1. a \in Regions /\ a \in pmm_bitmap
  BY DEF pmm_free_frame, Freeable, pmm_frame_in_regions
<1>2. a \in Frames /\ a \in Int /\ pmm_hint_frame \in Int
  BY <1>1, PmmAssumption DEF Frames, PmmIInv, TypeOK
<1>4. Cardinality(Regions \cap pmm_bitmap') = Cardinality(Regions \cap pmm_bitmap) - 1
      /\ Cardinality(Regions \cap pmm_bitmap') \in Nat
  <2>1. Regions \cap pmm_bitmap' = (Regions \cap pmm_bitmap) \ {a}
    BY DEF pmm_free_frame
  <2>2. a \in Regions \cap pmm_bitmap
    BY <1>1
  <2>3. IsFiniteSet(Regions \cap pmm_bitmap) /\ Cardinality(Regions \cap pmm_bitmap') \in Nat
    BY RegionsFinite
  <2>4. Cardinality((Regions \cap pmm_bitmap) \ {a}) = Cardinality(Regions \cap pmm_bitmap) - 1
    BY <2>2, <2>3, FS_RemoveElement
  <2> QED
    BY <2>1, <2>3, <2>4
<1>5. UsedExact'
  <2>1. pmm_used = Cardinality(Regions \cap pmm_bitmap) /\ pmm_used > 0
    BY <1>4, RegionsFinite DEF PmmIInv, UsedExact
  <2>2. pmm_used' = pmm_used - 1
    BY <2>1 DEF pmm_free_frame, UsedAfterFree
  <2> QED
    BY <1>4, <2>1, <2>2 DEF PmmIInv, UsedExact, pmm_free_frame
<1>6. TypeOK'
  <2>1. pmm_bitmap' \subseteq Frames
    BY DEF PmmIInv, TypeOK, pmm_free_frame
  <2>2. pmm_used' \in Nat /\ pmm_total' \in Nat
    BY <1>4, <1>5 DEF UsedExact, PmmIInv, TypeOK, pmm_free_frame
  <2>3. pmm_hint_frame' \in Frames
    BY <1>2 DEF PmmIInv, TypeOK, pmm_free_frame, HintAfterFree
  <2>4. 1 \in Frames
    BY <1>1, PmmAssumption DEF Frames
  <2> QED
    BY <2>1, <2>2, <2>3, <2>4 DEF TypeOK, pmm_free_frame
<1>7. NoFreeBelowHint'
  <2> SUFFICES ASSUME NEW g \in Regions, g < pmm_hint_frame'
               PROVE  g \in pmm_bitmap'
    BY DEF NoFreeBelowHint
  <2>1. g \in Int
    BY PmmAssumption
  <2>2. g < pmm_hint_frame /\ g < a
    BY <1>2, <2>1 DEF pmm_free_frame, HintAfterFree
  <2> QED
    BY <1>2, <2>1, <2>2 DEF PmmIInv, NoFreeBelowHint, pmm_free_frame
<1> QED
  BY <1>5, <1>6, <1>7 DEF PmmIInv

LEMMA PmmStep == PmmIInv /\ [Next]_vars => PmmIInv'
<1> SUFFICES ASSUME PmmIInv, [Next]_vars PROVE PmmIInv'
  OBVIOUS
<1>0. 0 \in Frames /\ 0 \in Addresses
  BY PmmAssumption DEF Frames, Addresses
<1>1. CASE \E f \in Frames : pmm_alloc_frame(f)
  BY <1>1, AllocIInv
<1>2. CASE pmm_alloc_frame_fails
  BY <1>0, <1>2 DEF pmm_alloc_frame_fails, PmmIInv, TypeOK, UsedExact, NoFreeBelowHint
<1>3. CASE \E a \in Addresses : pmm_free_frame(a)
  BY <1>3, FreeIInv
<1>4. CASE \E a \in Addresses : pmm_free_frame_refused(a)
  BY <1>0, <1>4 DEF pmm_free_frame_refused, PmmIInv, TypeOK, UsedExact, NoFreeBelowHint
<1>5. CASE UNCHANGED vars
  BY <1>5 DEF vars, PmmIInv, TypeOK, UsedExact, NoFreeBelowHint
<1> QED
  BY <1>1, <1>2, <1>3, <1>4, <1>5 DEF Next

\* The variables of pmm.c keep their types.
THEOREM PmmTypeOK == Spec => []TypeOK
<1>1. PmmIInv => TypeOK
  BY DEF PmmIInv
<1> QED
  BY PmmInitIInv, PmmStep, <1>1, PTL DEF Spec

\* No sequence of allocations and frees leaves a free frame below the hint at
\* which pmm_alloc_frame starts its search.
THEOREM PmmNoFreeBelowHint == Spec => []NoFreeBelowHint
<1>1. PmmIInv => NoFreeBelowHint
  BY DEF PmmIInv
<1> QED
  BY PmmInitIInv, PmmStep, <1>1, PTL DEF Spec

(***************************************************************************)
(* pmm_used, pmm_total and the number pmm_free_frames reports are exact    *)
(* in every reachable state.                                               *)
(***************************************************************************)
THEOREM PmmCountersExact == Spec => []CountersExact
<1>1. PmmIInv => CountersExact
  BY UsedPlusFree DEF PmmIInv, UsedExact, CountersExact, pmm_free_frames
<1> QED
  BY PmmInitIInv, PmmStep, <1>1, PTL DEF Spec

(***************************************************************************)
(* The bitmap allocator implements the abstract pool: every allocation     *)
(* returns the lowest free frame and fails only when there is none, every  *)
(* free is accepted exactly for a frame in use.                            *)
(***************************************************************************)
THEOREM PmmImplementsPool == Spec => PoolSpec
<1>1. Init => Pool!Init
  BY PmmAssumption DEF Init, Pool!Init, pmm_frame_in_regions, Frames
<1>2. PmmIInv /\ [Next]_vars => [Pool!Next]_<<Regions \ pmm_bitmap, call>>
  <2> SUFFICES ASSUME PmmIInv, [Next]_vars
               PROVE  Pool!Next \/ UNCHANGED <<Regions \ pmm_bitmap, call>>
    OBVIOUS
  <2>1. ASSUME NEW f \in Frames, pmm_alloc_frame(f)
        PROVE  Pool!Next
    <3>1. f \in Regions \ pmm_bitmap /\ \A g \in Regions \ pmm_bitmap : f <= g
      BY <2>1, FirstIsLowest DEF pmm_alloc_frame
    <3>2. Pool!Alloc(f)
      BY <2>1, <3>1 DEF Pool!Alloc, pmm_alloc_frame
    <3> QED
      BY <3>1, <3>2 DEF Pool!Next
  <2>2. ASSUME pmm_alloc_frame_fails
        PROVE  Pool!Next
    <3>1. Regions \ pmm_bitmap = {}
      <4>1. CASE ~pmm_initialized
        BY <4>1 DEF pmm_initialized
      <4>2. CASE pmm_used >= pmm_total
        BY <4>2, FullMeansNoneFree DEF PmmIInv
      <4>3. CASE \A f \in Frames : ~Available(f)
        <5>1. Regions \subseteq Frames
          BY PmmAssumption DEF Frames
        <5> QED
          BY <4>3, <5>1 DEF Available, pmm_frame_in_regions
      <4> QED
        BY <2>2, <4>1, <4>2, <4>3 DEF pmm_alloc_frame_fails
    <3> QED
      BY <2>2, <3>1 DEF pmm_alloc_frame_fails, Pool!AllocFails, Pool!Next
  <2>3. ASSUME NEW a \in Addresses, pmm_free_frame(a)
        PROVE  Pool!Next
    <3>1. a \in Regions /\ a \in pmm_bitmap
      BY <2>3 DEF pmm_free_frame, Freeable, pmm_frame_in_regions
    <3>2. Pool!Free(a)
      BY <2>3, <3>1 DEF Pool!Free, pmm_free_frame
    <3> QED
      BY <3>1, <3>2 DEF Pool!Next
  <2>4. ASSUME NEW a \in Addresses, pmm_free_frame_refused(a)
        PROVE  Pool!Next
    <3>1. a \notin Regions \ (Regions \ pmm_bitmap)
      <4>1. SUFFICES ASSUME a \in Regions, a \in pmm_bitmap PROVE FALSE
        OBVIOUS
      <4>2. a # Unaligned /\ a < MaxFrames
        BY <4>1, PmmAssumption DEF Unaligned
      <4> QED
        BY <2>4, <4>1, <4>2 DEF pmm_free_frame_refused, Freeable, pmm_initialized, pmm_frame_in_regions
    <3>2. Pool!FreeRefused(a)
      BY <2>4, <3>1 DEF pmm_free_frame_refused, Pool!FreeRefused
    <3> QED
      BY <3>2 DEF Pool!Next
  <2>5. CASE UNCHANGED vars
    BY <2>5 DEF vars
  <2> QED
    BY <2>1, <2>2, <2>3, <2>4, <2>5 DEF Next
<1> QED
  BY <1>1, <1>2, PmmInitIInv, PmmStep, PTL DEF Spec, PoolSpec, Pool!Spec

-----------------------------------------------------------------------------
(***************************************************************************)
(* Proofs about the message table, for any number of slots, any set of     *)
(* pids, any text limit and any number of sends.                           *)
(*                                                                         *)
(* The table implements the mailbox.  The mailbox holds a set of messages  *)
(* where the table has slots, so the argument needs that no two used slots *)
(* hold the same message: every send has a number of its own, larger than  *)
(* those in the table (Distinct).  Then there are as many messages as used *)
(* slots, and the table is full exactly when the mailbox is.               *)
(***************************************************************************)

Used(m) == {i \in Slots : m[i].used}
Pending(m) == {Content(m[i]) : i \in Used(m)}

Distinct(m, n) ==
  /\ \A i \in Used(m) : m[i].text.id <= n
  /\ \A i, j \in Used(m) : m[i].text.id = m[j].text.id => i = j

IpcIInv == IpcTypeOK /\ Distinct(ipc_messages, sends)

\* There are as many slots as IPC_MAX_MESSAGES says.
LEMMA SlotsFinite == IsFiniteSet(Slots) /\ Cardinality(Slots) = IpcMax
<1>1. IpcMax \in Int /\ IpcMax >= 1
  BY IpcAssumption
<1>2. /\ IsFiniteSet(0..(IpcMax - 1))
      /\ Cardinality(0..(IpcMax - 1)) = IF 0 > IpcMax - 1 THEN 0 ELSE (IpcMax - 1) - 0 + 1
  <2>1. 0 \in Int /\ IpcMax - 1 \in Int
    BY <1>1
  <2> QED
    BY <2>1, FS_Interval
<1>3. (IF 0 > IpcMax - 1 THEN 0 ELSE (IpcMax - 1) - 0 + 1) = IpcMax
  BY <1>1
<1> QED
  BY <1>2, <1>3 DEF Slots

\* A table has finitely many used slots, and all of them only when none is free.
LEMMA UsedFinite ==
  ASSUME NEW m
  PROVE  /\ IsFiniteSet(Used(m))
         /\ Cardinality(Used(m)) \in Nat
         /\ Cardinality(Used(m)) <= IpcMax
         /\ Cardinality(Used(m)) = IpcMax <=> Used(m) = Slots
<1>1. Used(m) \in SUBSET Slots
  BY DEF Used
<1>2. /\ IsFiniteSet(Used(m))
      /\ Cardinality(Used(m)) <= Cardinality(Slots)
      /\ Cardinality(Slots) = Cardinality(Used(m)) => Slots = Used(m)
  BY <1>1, SlotsFinite, FS_Subset
<1>3. Cardinality(Used(m)) \in Nat
  BY <1>2, FS_CardinalityType
<1> QED
  BY <1>2, <1>3, SlotsFinite

\* Distinct slots hold distinct messages, so there are as many of the one as of
\* the other.
LEMMA PendingCardinality ==
  ASSUME NEW m, NEW n, Distinct(m, n)
  PROVE  Cardinality(Pending(m)) = Cardinality(Used(m))
<1> DEFINE f == [i \in Used(m) |-> Content(m[i])]
<1>1. f \in [Used(m) -> Pending(m)]
  BY DEF Pending
<1>2. \A a, b \in Used(m) : f[a] = f[b] => a = b
  BY DEF Content, Distinct
<1>3. \A t \in Pending(m) : \E s \in Used(m) : f[s] = t
  BY DEF Pending
<1> HIDE DEF f
<1>4. f \in Bijection(Used(m), Pending(m))
  BY <1>1, <1>2, <1>3 DEF Bijection, Injection, Surjection, IsInjective
<1>5. ExistsBijection(Used(m), Pending(m))
  BY <1>4 DEF ExistsBijection
<1> QED
  BY <1>5, UsedFinite, FS_Bijection

Slot == [used : BOOLEAN, from : Pids, to : Pids, text : Texts]

\* The slot ipc_send writes: a number no slot has yet, and a text that fits.
LEMMA FilledSlot ==
  ASSUME IpcTypeOK, sends < MaxSends, NEW from \in Pids, NEW to \in Pids, NEW len \in Lengths
  PROVE  /\ Filled(from, to, len) \in Slot
         /\ Filled(from, to, len).text.id = sends + 1
         /\ Filled(from, to, len).to = to
<1>1. Copied(len, TextMax) \in 0..(TextMax - 1)
  BY IpcAssumption DEF Copied, Lengths
<1>2. sends + 1 \in 0..MaxSends
  BY IpcAssumption DEF IpcTypeOK
<1> DEFINE c == Copied(len, TextMax)
<1>3. c \in 0..(TextMax - 1)
  BY <1>1
<1> HIDE DEF c
<1>4. (c > 0) \in BOOLEAN
  BY <1>3, SMT
<1>5. [id |-> sends + 1, len |-> c] \in Texts
  BY <1>2, <1>3 DEF Texts
<1>6. Filled(from, to, len) = [used |-> c > 0, from |-> from, to |-> to,
                               text |-> [id |-> sends + 1, len |-> c]]
  BY DEF Filled, c
<1> QED
  BY <1>4, <1>5, <1>6 DEF Slot

LEMMA UnusedSlot == Unused \in Slot
  BY IpcAssumption DEF Unused, Slot, Texts, NoText

\* A send fills a free slot with a new number, which keeps the numbers apart.
LEMMA SendKeepsIInv ==
  ASSUME IpcIInv, sends < MaxSends,
         NEW from \in Pids, NEW to \in Pids, NEW len \in Lengths, ipc_send(from, to, len)
  PROVE  /\ IpcIInv'
         /\ LET s == Filled(from, to, len)
            IN  /\ s.used => /\ \E i \in Slots : i \notin Used(ipc_messages)
                             /\ Pending(ipc_messages') = Pending(ipc_messages) \cup {Content(s)}
                             /\ Cardinality(Used(ipc_messages'))
                                  = Cardinality(Used(ipc_messages)) + 1
                /\ ~s.used => /\ Pending(ipc_messages') = Pending(ipc_messages)
                              /\ Used(ipc_messages') = Used(ipc_messages)
<1> DEFINE m == ipc_messages
           m2 == ipc_messages'
           s == Filled(from, to, len)
<1>1. PICK i \in Lowest(FreeSlots) : m2 = [m EXCEPT ![i] = s]
  BY ZenonT(60) DEF ipc_send
<1>2. i \in Slots /\ i \notin Used(m)
  BY <1>1 DEF Lowest, FreeSlots, Used
<1>3. m \in [Slots -> Slot] /\ s \in Slot /\ s.text.id = sends + 1 /\ s.to = to
  BY FilledSlot DEF IpcIInv, IpcTypeOK, Slot
<1>4. sends' = sends + 1 /\ delivered' = delivered /\ sends \in 0..MaxSends
  BY DEF ipc_send, IpcIInv, IpcTypeOK
<1>5. /\ accepted' = IF s.used THEN accepted + 1 ELSE accepted
      /\ reply' = IF s.used THEN Call("sent", to, Content(s), s.text.len)
                 ELSE Call("refused", to, NoMessage, 0)
  BY DEF ipc_send
<1> HIDE DEF m, m2, s
<1>6. /\ m2 \in [Slots -> Slot] /\ m2[i] = s
      /\ \A j \in Slots : j # i => m2[j] = m[j]
      /\ s.used => Used(m2) = Used(m) \cup {i}
      /\ ~s.used => Used(m2) = Used(m)
  <2>1. /\ m \in [Slots -> Slot] /\ i \in Slots /\ s \in Slot
        /\ m2 = [m EXCEPT ![i] = s] /\ m2 \in [Slots -> Slot]
    BY <1>1, <1>2, <1>3
  <2>2. /\ m2[i] = s
        /\ \A j \in Slots : j # i => m2[j] = m[j]
        /\ s.used => Used(m2) = Used(m) \cup {i}
        /\ ~s.used => Used(m2) = Used(m) \ {i}
    BY <2>1 DEF Used
  <2>3. Used(m) \ {i} = Used(m)
    BY <1>2
  <2> QED
    BY <2>1, <2>2, <2>3, ZenonT(60)
<1>7. Distinct(m2, sends + 1)
  <2>1. Distinct(m, sends)
    BY DEF IpcIInv, m
  <2>2. \A j \in Used(m) : m[j].text.id \in Int /\ m[j].text.id <= sends /\ m2[j] = m[j]
    BY <1>2, <1>3, <1>6, <2>1 DEF Distinct, Used, Slot, Texts
  <2>3. \A j \in Used(m2) : j \in Used(m) \/ j = i
    BY <1>6
  <2>4. sends \in Int
    BY <1>4
  <2> QED
    BY <1>3, <1>6, <2>1, <2>2, <2>3, <2>4 DEF Distinct
<1>8. reply' \in [what : {"none", "sent", "refused", "delivered", "nothing", "invalid"},
                 pid : Pids, msg : Messages, copied : Nat]
  <2>1. Content(s) \in Messages /\ s.text.len \in Nat
    BY <1>3, IpcAssumption DEF Content, Messages, Slot, Texts
  <2>2. NoMessage \in Messages
    BY IpcAssumption DEF NoMessage, Messages
  <2> QED
    BY <1>5, <2>1, <2>2 DEF Call
<1>9. IpcTypeOK'
  <2>1. accepted' \in Nat /\ delivered' \in Nat /\ sends' \in 0..MaxSends
    BY <1>4, <1>5, IpcAssumption DEF IpcIInv, IpcTypeOK
  <2> QED
    BY <1>6, <1>8, <2>1 DEF IpcTypeOK, Slot, m2
<1>10. IpcIInv'
  BY <1>4, <1>7, <1>9 DEF IpcIInv, m2, Distinct, Used
<1>11. ASSUME s.used
       PROVE  /\ Pending(m2) = Pending(m) \cup {Content(s)}
              /\ Cardinality(Used(m2)) = Cardinality(Used(m)) + 1
  <2>1. Used(m2) = Used(m) \cup {i}
    BY <1>6, <1>11
  <2>2. Pending(m2) = Pending(m) \cup {Content(s)}
    BY <1>2, <1>6, <2>1 DEF Pending, Used
  <2> QED
    BY <1>2, <2>1, <2>2, UsedFinite, FS_AddElement, ZenonT(60)
<1>12. ASSUME ~s.used
       PROVE  Pending(m2) = Pending(m) /\ Used(m2) = Used(m)
  BY <1>2, <1>6, <1>12 DEF Pending, Used
<1> QED
  BY <1>2, <1>10, <1>11, <1>12 DEF m, m2, s

\* A receive empties one slot addressed to the caller and leaves the others.
LEMMA RecvKeepsIInv ==
  ASSUME IpcIInv, NEW pid \in Pids, NEW out_size \in 0..(MaxText + 1), ipc_recv(pid, out_size)
  PROVE  /\ IpcIInv'
         /\ Cardinality(Used(ipc_messages')) = Cardinality(Used(ipc_messages)) - 1
         /\ \E x \in Pending(ipc_messages) :
              /\ x.to = pid
              /\ Pending(ipc_messages') = Pending(ipc_messages) \ {x}
              /\ reply'.what = "delivered" /\ reply'.pid = pid /\ reply'.msg = x
<1> DEFINE m == ipc_messages
           m2 == ipc_messages'
<1>1. PICK i \in Lowest(For(pid)) :
        /\ m2 = [m EXCEPT ![i] = Unused]
        /\ reply' = Call("delivered", pid, Content(m[i]), Copied(m[i].text.len, out_size))
  BY ZenonT(60) DEF ipc_recv, Taken
<1>2. i \in Slots /\ i \in Used(m) /\ m[i].to = pid
  BY <1>1 DEF Lowest, For, Used
<1>3. m \in [Slots -> Slot] /\ Distinct(m, sends)
  BY DEF IpcIInv, IpcTypeOK, Slot
<1>4. /\ sends' = sends /\ accepted' = accepted /\ delivered' = delivered + 1 /\ out_size # 0
  BY DEF ipc_recv
<1>5. IpcTypeOK
  BY DEF IpcIInv
<1> HIDE DEF m, m2
<1>6. m2 \in [Slots -> Slot] /\ m2[i] = Unused /\ \A j \in Slots : j # i => m2[j] = m[j]
  BY <1>1, <1>2, <1>3, UnusedSlot
<1>7. Used(m2) = Used(m) \ {i} /\ \A j \in Used(m2) : m2[j] = m[j]
  BY <1>6 DEF Used, Unused
<1>8. Distinct(m2, sends)
  BY <1>3, <1>7 DEF Distinct
<1>9. Content(m[i]) \in Messages /\ Copied(m[i].text.len, out_size) \in Nat
  <2>1. m[i] \in Slot
    BY <1>2, <1>3
  <2>2. m[i].text.len \in Nat /\ out_size \in Nat \ {0}
    BY <2>1, <1>4, IpcAssumption DEF Slot, Texts
  <2>3. Copied(m[i].text.len, out_size) \in Nat
    BY <2>2 DEF Copied
  <2> QED
    BY <2>1, <2>3 DEF Content, Messages, Slot, Texts
<1>10. IpcTypeOK'
  <2>1. reply' \in [what : {"none", "sent", "refused", "delivered", "nothing", "invalid"},
                   pid : Pids, msg : Messages, copied : Nat]
    BY <1>1, <1>9 DEF Call
  <2> QED
    BY <1>4, <1>5, <1>6, <2>1 DEF IpcTypeOK, Slot, m2
<1>11. IpcIInv'
  BY <1>4, <1>8, <1>10 DEF IpcIInv, m2, Distinct, Used
<1>12. Cardinality(Used(m2)) = Cardinality(Used(m)) - 1
  BY <1>2, <1>7, UsedFinite, FS_RemoveElement, ZenonT(60)
<1>13. Pending(m2) = Pending(m) \ {Content(m[i])}
  <2>1. \A j \in Used(m) : Content(m[j]) = Content(m[i]) => j = i
    BY <1>2, <1>3 DEF Content, Distinct
  <2> QED
    BY <1>2, <1>7, <2>1 DEF Pending
<1>14. Content(m[i]) \in Pending(m) /\ Content(m[i]).to = pid
  BY <1>2 DEF Pending, Content
<1>15. reply'.what = "delivered" /\ reply'.pid = pid /\ reply'.msg = Content(m[i])
  BY <1>1 DEF Call
<1> QED
  BY <1>11, <1>12, <1>13, <1>14, <1>15 DEF m, m2

\* The calls that fail or find nothing leave the table alone.
LEMMA QuietKeepsIInv ==
  ASSUME IpcIInv, NEW pid \in Pids, NEW what \in {"refused", "nothing", "invalid"},
         UNCHANGED <<ipc_messages, sends, accepted, delivered>>,
         reply' = Call(what, pid, NoMessage, 0)
  PROVE  IpcIInv'
<1>1. NoMessage \in Messages
  BY IpcAssumption DEF NoMessage, Messages
<1>2. IpcTypeOK'
  BY <1>1 DEF IpcIInv, IpcTypeOK, Call
<1> QED
  BY <1>2 DEF IpcIInv, Distinct, Used

LEMMA IpcInitIInv == IpcInit => IpcIInv
<1> SUFFICES ASSUME IpcInit PROVE IpcIInv
  OBVIOUS
<1>1. NoMessage \in Messages /\ reply \in [what : {"none"}, pid : Pids, msg : Messages, copied : Nat]
  BY IpcAssumption DEF IpcInit, Call, NoMessage, Messages
<1>2. ipc_messages \in [Slots -> Slot] /\ Used(ipc_messages) = {}
  BY UnusedSlot DEF IpcInit, Used, Unused
<1>3. sends = 0 /\ accepted = 0 /\ delivered = 0 /\ 0 \in 0..MaxSends
  BY IpcAssumption DEF IpcInit
<1> QED
  BY <1>1, <1>2, <1>3 DEF IpcIInv, IpcTypeOK, Distinct, Slot

LEMMA IpcStep ==
  ASSUME IpcIInv, [IpcNext]_ipcVars
  PROVE  IpcIInv'
<1>1. CASE UNCHANGED ipcVars
  BY <1>1 DEF IpcIInv, IpcTypeOK, Distinct, Used, ipcVars
<1>2. ASSUME NEW from \in Pids, NEW to \in Pids, NEW len \in Lengths,
             sends < MaxSends, ipc_send(from, to, len)
      PROVE  IpcIInv'
  BY <1>2, SendKeepsIInv
<1>3. ASSUME NEW to \in Pids, ipc_send_fails(to)
      PROVE  IpcIInv'
  BY <1>3, QuietKeepsIInv DEF ipc_send_fails
<1>4. ASSUME NEW pid \in Pids, NEW out_size \in 0..(MaxText + 1), ipc_recv(pid, out_size)
      PROVE  IpcIInv'
  BY <1>4, RecvKeepsIInv
<1>5. ASSUME NEW pid \in Pids, NEW out_size \in 0..(MaxText + 1),
             ipc_recv_nothing(pid, out_size) \/ ipc_recv_fails(pid, out_size)
      PROVE  IpcIInv'
  BY <1>5, QuietKeepsIInv DEF ipc_recv_nothing, ipc_recv_fails
<1> QED
  BY <1>1, <1>2, <1>3, <1>4, <1>5 DEF IpcNext

\* The types of the message table, and that no two used slots of ipc.c hold the
\* same message, in every reachable state.
THEOREM IpcInvariant == IpcSpec => []IpcIInv
<1> QED
  BY IpcInitIInv, IpcStep, PTL DEF IpcSpec

\* ipc_pending_count reports the messages accepted and not yet received, for any
\* table size and any order of sends and receives.
THEOREM IpcConserved == IpcSpec => []Conserved
<1> DEFINE C(m, a, d) == a = d + Cardinality(Used(m))
<1>1. Conserved <=> C(ipc_messages, accepted, delivered)
  BY DEF Conserved, ipc_pending_count, Used
<1>2. IpcInit => Conserved
  <2> SUFFICES ASSUME IpcInit PROVE C(ipc_messages, accepted, delivered)
    BY <1>1
  <2>1. Used(ipc_messages) = {} /\ accepted = 0 /\ delivered = 0
    BY DEF IpcInit, Used, Unused
  <2> QED
    BY <2>1, FS_EmptySet
<1>3. IpcIInv /\ Conserved /\ [IpcNext]_ipcVars => Conserved'
  <2> SUFFICES ASSUME IpcIInv, Conserved, [IpcNext]_ipcVars PROVE C(ipc_messages', accepted', delivered')
    BY DEF Conserved, ipc_pending_count, Used
  <2>0. /\ accepted = delivered + Cardinality(Used(ipc_messages))
        /\ accepted \in Nat /\ delivered \in Nat /\ Cardinality(Used(ipc_messages)) \in Nat
    BY <1>1, UsedFinite DEF IpcIInv, IpcTypeOK
  <2>1. CASE UNCHANGED <<ipc_messages, accepted, delivered>>
    BY <2>0, <2>1
  <2>2. ASSUME NEW from \in Pids, NEW to \in Pids, NEW len \in Lengths,
               sends < MaxSends, ipc_send(from, to, len)
        PROVE  C(ipc_messages', accepted', delivered')
    <3> DEFINE s == Filled(from, to, len)
    <3>1. delivered' = delivered /\ accepted' = IF s.used THEN accepted + 1 ELSE accepted
      BY <2>2 DEF ipc_send
    <3>2. /\ s.used => Cardinality(Used(ipc_messages')) = Cardinality(Used(ipc_messages)) + 1
          /\ ~s.used => Used(ipc_messages') = Used(ipc_messages)
      BY <2>2, SendKeepsIInv
    <3> HIDE DEF s
    <3> QED
      BY <2>0, <3>1, <3>2
  <2>3. ASSUME NEW pid \in Pids, NEW out_size \in 0..(MaxText + 1), ipc_recv(pid, out_size)
        PROVE  C(ipc_messages', accepted', delivered')
    <3>1. accepted' = accepted /\ delivered' = delivered + 1
      BY <2>3 DEF ipc_recv
    <3>2. Cardinality(Used(ipc_messages')) = Cardinality(Used(ipc_messages)) - 1
      BY <2>3, RecvKeepsIInv
    <3> QED
      BY <2>0, <3>1, <3>2
  <2> QED
    BY <2>1, <2>2, <2>3 DEF IpcNext, ipcVars, ipc_send_fails, ipc_recv_nothing, ipc_recv_fails
<1> QED
  BY <1>2, <1>3, IpcInvariant, PTL DEF IpcSpec

LEMMA PendingNext == pending = Pending(ipc_messages) /\ pending' = Pending(ipc_messages')
  BY DEF pending, Pending, Used

\* The mailbox counts as the table does.
LEMMA BoxCardinality == \A S : Box!Cardinality(S) = Cardinality(S)
  BY DEF Box!Cardinality, Cardinality

\* A send is an Accept of the mailbox, or a Refuse when the text is empty.
LEMMA SendRefines ==
  ASSUME IpcIInv, sends < MaxSends,
         NEW from \in Pids, NEW to \in Pids, NEW len \in Lengths, ipc_send(from, to, len)
  PROVE  Box!Next
<1> DEFINE s == Filled(from, to, len)
<1>1. /\ s \in Slot /\ s.to = to
  BY FilledSlot DEF IpcIInv
<1>2. /\ s.used => /\ \E i \in Slots : i \notin Used(ipc_messages)
                   /\ Pending(ipc_messages') = Pending(ipc_messages) \cup {Content(s)}
      /\ ~s.used => Pending(ipc_messages') = Pending(ipc_messages)
  BY SendKeepsIInv
<1>3. /\ to # 0
      /\ reply' = IF s.used THEN Call("sent", to, Content(s), s.text.len)
                 ELSE Call("refused", to, NoMessage, 0)
  BY DEF ipc_send
<1> HIDE DEF s
<1>4. CASE s.used
  <2>1. Cardinality(pending) < IpcMax
    <3>1. Cardinality(pending) = Cardinality(Used(ipc_messages))
      BY PendingNext, PendingCardinality DEF IpcIInv
    <3>2. Used(ipc_messages) # Slots
      BY <1>2, <1>4
    <3> QED
      BY <3>1, <3>2, UsedFinite, IpcAssumption
  <2>2. Content(s) \in Messages /\ Content(s).to = to
    BY <1>1 DEF Content, Messages, Slot, Texts
  <2>3. pending' = pending \cup {Content(s)}
    BY <1>2, <1>4, PendingNext
  <2>4. last' = [what |-> "sent", pid |-> to, msg |-> Content(s)]
    BY <1>3, <1>4 DEF last, Call
  <2>5. Box!Accept(Content(s))
    BY <1>3, <2>1, <2>2, <2>3, <2>4, BoxCardinality DEF Box!Accept, Box!Outcome
  <2> QED
    BY <2>2, <2>5 DEF Box!Next
<1>5. CASE ~s.used
  <2>1. pending' = pending
    BY <1>2, <1>5, PendingNext
  <2>2. last' = [what |-> "refused", pid |-> to, msg |-> NoMessage]
    BY <1>3, <1>5 DEF last, Call
  <2>3. Box!Refuse(to, TRUE)
    BY <2>1, <2>2 DEF Box!Refuse, Box!Outcome, Box!NoMessage, NoMessage
  <2> QED
    BY <2>3, ZenonT(60) DEF Box!Next
<1> QED
  BY <1>4, <1>5

\* A full table is a full mailbox.
LEMMA SendFailsRefines ==
  ASSUME IpcIInv, NEW to \in Pids, ipc_send_fails(to)
  PROVE  Box!Next
<1>1. pending' = pending /\ last' = [what |-> "refused", pid |-> to, msg |-> NoMessage]
  BY DEF ipc_send_fails, pending, last, Call
<1>2. to = 0 \/ Cardinality(pending) = IpcMax
  <2>1. ASSUME FreeSlots = {} PROVE Used(ipc_messages) = Slots
    BY <2>1 DEF FreeSlots, Used
  <2>2. Cardinality(pending) = Cardinality(Used(ipc_messages))
    BY PendingNext, PendingCardinality DEF IpcIInv
  <2> QED
    BY <2>1, <2>2, UsedFinite DEF ipc_send_fails
<1>3. Box!Refuse(to, FALSE)
  BY <1>1, <1>2, BoxCardinality DEF Box!Refuse, Box!Outcome, Box!NoMessage, NoMessage
<1> QED
  BY <1>3, ZenonT(60) DEF Box!Next

LEMMA RecvRefines ==
  ASSUME IpcIInv, NEW pid \in Pids, NEW out_size \in 0..(MaxText + 1),
         \/ ipc_recv(pid, out_size)
         \/ ipc_recv_nothing(pid, out_size)
         \/ ipc_recv_fails(pid, out_size)
  PROVE  Box!Next
<1>1. CASE ipc_recv(pid, out_size)
  <2>1. PICK x \in Pending(ipc_messages) :
          /\ x.to = pid
          /\ Pending(ipc_messages') = Pending(ipc_messages) \ {x}
          /\ reply'.what = "delivered" /\ reply'.pid = pid /\ reply'.msg = x
    BY <1>1, RecvKeepsIInv
  <2>2. x \in pending /\ pending' = pending \ {x}
    BY <2>1, PendingNext
  <2>3. last' = [what |-> "delivered", pid |-> pid, msg |-> x]
    BY <2>1 DEF last
  <2>4. Box!Deliver(pid, x)
    BY <2>1, <2>2, <2>3 DEF Box!Deliver, Box!Outcome
  <2> QED
    BY <2>2, <2>4 DEF Box!Next
<1>2. CASE ipc_recv_nothing(pid, out_size)
  <2>1. pending' = pending /\ last' = [what |-> "nothing", pid |-> pid, msg |-> NoMessage]
    BY <1>2 DEF ipc_recv_nothing, pending, last, Call
  <2>4. \A i \in Used(ipc_messages) : ipc_messages[i].to # pid
    BY <1>2 DEF ipc_recv_nothing, For, Used
  <2>5. \A i \in Used(ipc_messages) : Content(ipc_messages[i]).to # pid
    BY <2>4 DEF Content
  <2>2. \A x \in pending : x.to # pid
    BY <2>5, PendingNext, ZenonT(60) DEF Pending
  <2>3. Box!Nothing(pid)
    BY <2>1, <2>2 DEF Box!Nothing, Box!Outcome, Box!NoMessage, NoMessage
  <2> QED
    BY <2>3 DEF Box!Next
<1>3. CASE ipc_recv_fails(pid, out_size)
  <2>1. pending' = pending /\ last' = [what |-> "invalid", pid |-> pid, msg |-> NoMessage]
    BY <1>3 DEF ipc_recv_fails, pending, last, Call
  <2>2. Box!Invalid(pid)
    BY <2>1 DEF Box!Invalid, Box!Outcome, Box!NoMessage, NoMessage
  <2> QED
    BY <2>2 DEF Box!Next
<1> QED
  BY <1>1, <1>2, <1>3

\* The table of ipc.c implements the mailbox: a send is refused only for want of a
\* receiver, a text or a slot, and a receiver gets exactly the messages sent to it.
THEOREM IpcImplementsMailbox == IpcSpec => MailboxSpec
<1>1. IpcInit => Box!Init
  <2> SUFFICES ASSUME IpcInit PROVE Box!Init
    OBVIOUS
  <2>1. pending = {}
    BY DEF IpcInit, Unused, pending
  <2>2. last = [what |-> "none", pid |-> 0, msg |-> NoMessage]
    BY DEF IpcInit, Call, last
  <2> QED
    BY <2>1, <2>2 DEF Box!Init, Box!Outcome, Box!NoMessage, NoMessage
<1>2. IpcIInv /\ [IpcNext]_ipcVars => [Box!Next]_<<pending, last>>
  <2> SUFFICES ASSUME IpcIInv, [IpcNext]_ipcVars PROVE Box!Next \/ UNCHANGED <<pending, last>>
    OBVIOUS
  <2>1. CASE UNCHANGED ipcVars
    BY <2>1 DEF ipcVars, pending, last
  <2>2. CASE IpcNext
    BY <2>2, SendRefines, SendFailsRefines, RecvRefines DEF IpcNext
  <2> QED
    BY <2>1, <2>2
<1> QED
  BY <1>1, <1>2, IpcInvariant, PTL DEF IpcSpec, MailboxSpec, Box!Spec

-----------------------------------------------------------------------------
(***************************************************************************)
(* Proofs about the reader of the tick counter, for every word size, every *)
(* frequency and any number of late ticks.                                 *)
(*                                                                         *)
(* That the two words belong together rests on interrupts being off from   *)
(* the first read to the popf, so the inductive invariant says where the   *)
(* flag is off and which of the words read still equal the counter's.      *)
(***************************************************************************)

Masked ==
  /\ at \in {"lo", "hi", "popf"} => ~iflag /\ eflags = job.flag
  /\ at \in {"call", "returned", "halt", "hlt"} => iflag = job.flag

Current ==
  /\ at \in Reading => ticks \in during
  /\ at \in {"hi", "popf"} => rlo = lo
  /\ at = "popf" => rhi = hi

TimerIInv == Masked /\ Current /\ Untorn

LEMMA TimerInitIInv == TimerInit => TimerIInv
  BY DEF TimerInit, TimerIInv, Masked, Current, Untorn, Reading

\* The handler runs only where the flag is on, so never between the two reads.
LEMMA TimerIsr ==
  ASSUME TimerIInv, timer_isr
  PROVE  TimerIInv'
<1>1. /\ iflag' = iflag /\ eflags' = eflags /\ job' = job /\ rlo' = rlo /\ rhi' = rhi
      /\ at' = IF at = "hlt" THEN "call" ELSE at
      /\ at \notin {"lo", "hi", "popf"}
  BY DEF timer_isr, TimerIInv, Masked
<1>2. /\ at = "hlt" => during' = {<<hi', lo'>>}
      /\ at = "call" => during' = during \cup {<<hi', lo'>>}
      /\ at = "returned" => during' = during
  BY DEF timer_isr, Reading
<1>3. Masked'
  BY <1>1 DEF TimerIInv, Masked
<1>4. Current'
  BY <1>1, <1>2 DEF Current, Reading, ticks
<1>5. Untorn'
  BY <1>1, <1>2 DEF TimerIInv, Untorn
<1> QED
  BY <1>3, <1>4, <1>5 DEF TimerIInv

LEMMA TimerReader ==
  ASSUME TimerIInv, Reader
  PROVE  TimerIInv'
<1> USE DEF TimerIInv, Masked, Current, Untorn, Reading, ticks
<1>1. CASE Cli
  BY <1>1 DEF Cli, MaskedFlag
<1>2. CASE ReadLo
  BY <1>2 DEF ReadLo
<1>3. CASE ReadHi
  BY <1>3 DEF ReadHi
<1>4. CASE Popf
  BY <1>4 DEF Popf, RestoredFlag
<1>5. CASE EndRead \/ SleepEnd
  BY <1>5 DEF EndRead, SleepEnd
<1>6. CASE SleepStart
  BY <1>6 DEF SleepStart
<1>7. CASE SleepTest \/ SleepHalt
  BY <1>7 DEF SleepTest, SleepHalt
<1> QED
  BY <1>1, <1>2, <1>3, <1>4, <1>5, <1>6, <1>7 DEF Reader

LEMMA TimerStep == TimerIInv /\ [TimerNext]_timerVars => TimerIInv'
<1> SUFFICES ASSUME TimerIInv, [TimerNext]_timerVars PROVE TimerIInv'
  OBVIOUS
<1>1. CASE timer_isr
  BY <1>1, TimerIsr
<1>2. CASE Reader
  BY <1>2, TimerReader
<1>3. CASE Switch
  BY <1>3 DEF Switch, TimerIInv, Masked, Current, Untorn, Reading
<1>4. ASSUME NEW cmd, NEW n, Begin(cmd, n)
      PROVE  TimerIInv'
  BY <1>4 DEF Begin, TimerIInv, Masked, Current, Untorn, Reading, ticks
<1>5. CASE UNCHANGED timerVars
  BY <1>5 DEF timerVars, TimerIInv, Masked, Current, Untorn, Reading, ticks
<1> QED
  BY <1>1, <1>2, <1>3, <1>4, <1>5 DEF TimerNext

\* timer_read_ticks_atomic returns a value the 64-bit counter really had.
THEOREM TimerUntorn == TimerSpec => []Untorn
<1>1. TimerIInv => Untorn
  BY DEF TimerIInv
<1> QED
  BY <1>1, TimerInitIInv, TimerStep, PTL DEF TimerSpec

\* Every reader gets its interrupt flag back.
THEOREM TimerFlagRestored == TimerSpec => []FlagRestored
<1>1. TimerIInv => FlagRestored
  BY DEF TimerIInv, Masked, FlagRestored
<1> QED
  BY <1>1, TimerInitIInv, TimerStep, PTL DEF TimerSpec
=============================================================================
