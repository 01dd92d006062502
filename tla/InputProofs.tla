---------------------------- MODULE InputProofs -----------------------------
(***************************************************************************)
(* Proofs about what the kernel meets from outside: what it finds and what *)
(* interrupts it while it comes up, characters from the keyboard, program  *)
(* images, what the pointers of system calls point to, and the digits of a *)
(* number on the command line.                                             *)
(***************************************************************************)
EXTENDS Boot, Keyboard, Elf, UserCopy, Parse, TLAPS

USE SMTT(60)
-----------------------------------------------------------------------------
(***************************************************************************)
(* How the kernel comes up, for every quantum and any number of interrupts *)
(* on the way.                                                             *)
(*                                                                         *)
(* A component is missing from the running kernel only if kernel_main does *)
(* not halt on its failure.  Three can be: pmm and paging, which the heap  *)
(* cannot do without, so that the heap fails in turn and halts it, and the *)
(* ring 3 test, which nothing needs.                                       *)
(***************************************************************************)

Optional == {"pmm", "paging", "usermode"}

BootIInv ==
  /\ boot_at \in 1..17
  /\ ready \subseteq Components
  /\ \A j \in 1..16 : j < boot_at => Order[j] \in ready \/ Order[j] \in Optional
  /\ "paging" \in ready => "pmm" \in ready
  /\ "kheap" \in ready => "paging" \in ready
  /\ NeedsMet

\* The order of the steps of kernel_main.
LEMMA OrderIs ==
  /\ Len(Order) = 16
  /\ Order[1] = "console" /\ Order[2] = "magic" /\ Order[3] = "gdt" /\ Order[4] = "interrupts"
  /\ Order[5] = "timer" /\ Order[6] = "pmm" /\ Order[7] = "paging" /\ Order[8] = "kheap"
  /\ Order[9] = "scheduler" /\ Order[10] = "process" /\ Order[11] = "exec" /\ Order[12] = "ipc"
  /\ Order[13] = "usermode" /\ Order[14] = "vfs" /\ Order[15] = "selftest" /\ Order[16] = "shell"
  BY DEF Order

LEMMA ComponentsAre ==
  Components = {"console", "magic", "gdt", "interrupts", "timer", "pmm", "paging", "kheap",
                "scheduler", "process", "exec", "ipc", "usermode", "vfs", "selftest", "shell"}
<1>1. \A j \in 1..16 : \/ j = 1 \/ j = 2 \/ j = 3 \/ j = 4 \/ j = 5 \/ j = 6 \/ j = 7 \/ j = 8
                       \/ j = 9 \/ j = 10 \/ j = 11 \/ j = 12 \/ j = 13 \/ j = 14 \/ j = 15 \/ j = 16
  OBVIOUS
<1> QED
  BY <1>1, OrderIs DEF Components

\* The step a component comes up in is its own.
LEMMA StepOf ==
  ASSUME NEW j \in 1..16
  PROVE  /\ Order[j] = "timer" => j = 5
         /\ Order[j] = "kheap" => j = 8
         /\ Order[j] = "process" => j = 10
         /\ Order[j] = "vfs" => j = 14
         /\ Order[j] = "selftest" => j = 15
         /\ Order[j] = "shell" => j = 16
<1>1. \/ j = 1 \/ j = 2 \/ j = 3 \/ j = 4 \/ j = 5 \/ j = 6 \/ j = 7 \/ j = 8
      \/ j = 9 \/ j = 10 \/ j = 11 \/ j = 12 \/ j = 13 \/ j = 14 \/ j = 15 \/ j = 16
  OBVIOUS
<1> QED
  BY <1>1, OrderIs

LEMMA NeedsAre ==
  /\ Needs["kheap"] = {"pmm", "paging"}
  /\ Needs["process"] = {"paging"}
  /\ Needs["vfs"] = {"kheap"}
  /\ Needs["selftest"] = {"gdt", "interrupts", "kheap", "scheduler", "process", "exec", "vfs"}
  /\ Needs["shell"] = Components \ {"usermode", "shell"}
  /\ \A x \in Components \ {"kheap", "process", "vfs", "selftest", "shell"} : Needs[x] = {}
  BY ComponentsAre DEF Needs

\* What has come up by the time a step is reached.
LEMMA ReadyBefore ==
  ASSUME BootIInv
  PROVE  /\ boot_at > 8 => {"kheap", "paging", "pmm"} \subseteq ready
         /\ boot_at > 14 => {"gdt", "interrupts", "scheduler", "process", "exec", "vfs"} \subseteq ready
         /\ boot_at > 15 => Components \ {"usermode", "shell"} \subseteq ready
<1>1. \A j \in 1..16 : j < boot_at => Order[j] \in ready \/ Order[j] \in Optional
  BY DEF BootIInv
<1>2. boot_at > 8 => {"kheap", "paging", "pmm"} \subseteq ready
  BY <1>1, OrderIs DEF BootIInv, Optional
<1>3. boot_at > 14 => {"gdt", "interrupts", "scheduler", "process", "exec", "vfs"} \subseteq ready
  BY <1>1, OrderIs DEF BootIInv, Optional
<1>4. boot_at > 15 => {"console", "magic", "timer", "ipc", "selftest"} \subseteq ready
  BY <1>1, OrderIs DEF BootIInv, Optional
<1> QED
  BY <1>2, <1>3, <1>4, ComponentsAre DEF BootIInv

\* What an initialisation that succeeds calls is ready.
LEMMA NeedsReady ==
  ASSUME BootIInv, NEW x \in Components, InitSucceeds(x)
  PROVE  Needs[x] \subseteq ready
<1>1. boot_at \in 1..16 /\ x = Order[boot_at] /\ MaySucceed(x)
  BY OrderIs DEF BootIInv, InitSucceeds
<1>2. CASE x = "kheap"
  BY <1>1, <1>2, NeedsAre DEF MaySucceed, BootIInv
<1>3. CASE x = "vfs"
  BY <1>1, <1>3, NeedsAre DEF MaySucceed
<1>4. CASE x \in {"process", "selftest", "shell"}
  <2>1. /\ x = "process" => boot_at > 8
        /\ x = "selftest" => boot_at > 14
        /\ x = "shell" => boot_at > 15
    BY <1>1, StepOf
  <2>2. CASE x = "process"
    <3>1. "paging" \in ready
      BY <2>1, <2>2, ReadyBefore
    <3> QED
      BY <2>2, <3>1, NeedsAre
  <2>3. CASE x = "selftest"
    <3>1. /\ "kheap" \in ready
          /\ {"gdt", "interrupts", "scheduler", "process", "exec", "vfs"} \subseteq ready
      BY <1>1, <2>1, <2>3, ReadyBefore
    <3>2. Needs[x] = {"gdt", "interrupts", "kheap", "scheduler", "process", "exec", "vfs"}
      BY <2>3, NeedsAre
    <3> QED
      BY <3>1, <3>2
  <2>4. CASE x = "shell"
    BY <2>1, <2>4, NeedsAre, ReadyBefore
  <2> QED
    BY <1>4, <2>2, <2>3, <2>4
<1>5. CASE x \notin {"kheap", "process", "vfs", "selftest", "shell"}
  BY <1>5, NeedsAre
<1> QED
  BY <1>2, <1>3, <1>4, <1>5

LEMMA SucceedsKeepsBoot ==
  ASSUME BootIInv, NEW x \in Components, InitSucceeds(x)
  PROVE  BootIInv'
<1>1. /\ boot_at \in 1..16 /\ x = Order[boot_at] /\ MaySucceed(x)
      /\ boot_at' = boot_at + 1 /\ ready' = ready \cup {x}
  BY OrderIs DEF BootIInv, InitSucceeds
<1>2. \A j \in 1..16 : j < boot_at' => Order[j] \in ready' \/ Order[j] \in Optional
  BY <1>1 DEF BootIInv
<1>3. NeedsMet'
  BY <1>1, NeedsReady DEF NeedsMet, BootIInv
<1>4. /\ "paging" \in ready' => "pmm" \in ready'
      /\ "kheap" \in ready' => "paging" \in ready'
  BY <1>1 DEF BootIInv, MaySucceed
<1> QED
  BY <1>1, <1>2, <1>3, <1>4 DEF BootIInv

LEMMA FailsKeepsBoot ==
  ASSUME BootIInv, NEW x \in Components, InitFails(x)
  PROVE  BootIInv'
<1>1. /\ boot_at \in 1..16 /\ x = Order[boot_at] /\ MayFail(x)
      /\ boot_at' = IF Halts(x) THEN boot_at ELSE boot_at + 1
      /\ ready' = ready
  BY OrderIs DEF BootIInv, InitFails
<1>2. ~Halts(x) => x \in Optional
  BY <1>1 DEF MayFail, Halts, Optional
<1>3. \A j \in 1..16 : j < boot_at' => Order[j] \in ready' \/ Order[j] \in Optional
  BY <1>1, <1>2 DEF BootIInv
<1> QED
  BY <1>1, <1>3 DEF BootIInv, NeedsMet

\* However many of the failures kernel_main can meet do occur, no component comes
\* up without the ones its initialisation calls, and the shell only on a kernel
\* that is complete but for the ring 3 test.
THEOREM BootNeedsMet == BootSpec => []NeedsMet
<1>1. BootInit => BootIInv
  BY DEF BootInit, BootIInv, NeedsMet
<1>2. BootIInv /\ [BootNext]_bootVars => BootIInv'
  <2> SUFFICES ASSUME BootIInv, [BootNext]_bootVars PROVE BootIInv'
    OBVIOUS
  <2>1. CASE UNCHANGED <<boot_at, ready>>
    BY <2>1 DEF BootIInv, NeedsMet
  <2> QED
    BY <2>1, SucceedsKeepsBoot, FailsKeepsBoot DEF BootNext, bootVars, irq0, irq1
<1>3. BootIInv => NeedsMet
  BY DEF BootIInv
<1> QED
  BY <1>1, <1>2, <1>3, PTL DEF BootSpec

\* The ticks counted since timer_init are none until it has run, and it runs once.
TickIInv ==
  /\ boot_at \in 1..17
  /\ ticks \in Nat /\ timed \in Nat /\ tick_since_switch \in Nat
  /\ preempt_pending \in BOOLEAN
  /\ IF "timer" \in ready THEN boot_at > 5 ELSE timed = 0
  /\ EarlyTicks

LEMMA SucceedsKeepsTicks ==
  ASSUME TickIInv, NEW x \in Components, InitSucceeds(x)
  PROVE  TickIInv'
<1>1. /\ boot_at \in 1..16 /\ x = Order[boot_at]
      /\ boot_at' = boot_at + 1 /\ ready' = ready \cup {x}
  BY OrderIs DEF TickIInv, InitSucceeds
<1>2. /\ ticks' = IF x = "timer" THEN 0 ELSE ticks
      /\ timed' = timed
      /\ tick_since_switch' = IF x = "scheduler" THEN 0 ELSE tick_since_switch
      /\ preempt_pending' = (x # "scheduler" /\ preempt_pending)
  BY DEF InitSucceeds, Effect
<1>3. Order[boot_at] = "timer" => boot_at = 5
  BY <1>1, StepOf, ZenonT(60)
<1>4. x = "timer" => boot_at = 5
  BY <1>1, <1>3, ZenonT(60)
<1>5. /\ ticks' \in Nat /\ timed' \in Nat /\ tick_since_switch' \in Nat
      /\ preempt_pending' \in BOOLEAN
  BY <1>2 DEF TickIInv
<1>6. IF "timer" \in ready' THEN boot_at' > 5 ELSE timed' = 0
  BY <1>1, <1>2, <1>4 DEF TickIInv
<1>7. "timer" \in ready' => ticks' = timed'
  BY <1>1, <1>2, <1>4 DEF TickIInv, EarlyTicks
<1>8. preempt_pending' => "scheduler" \in ready' /\ tick_since_switch' >= Quantum
  BY <1>1, <1>2, ZenonT(60) DEF TickIInv, EarlyTicks
<1> QED
  BY <1>1, <1>5, <1>6, <1>7, <1>8 DEF TickIInv, EarlyTicks

LEMMA FailsKeepsTicks ==
  ASSUME TickIInv, NEW x \in Components, InitFails(x)
  PROVE  TickIInv'
<1>1. /\ boot_at' \in 1..17 /\ boot_at' >= boot_at
      /\ UNCHANGED <<ready, ticks, timed, tick_since_switch, preempt_pending>>
  BY OrderIs DEF TickIInv, InitFails, clock
<1> QED
  BY <1>1 DEF TickIInv, EarlyTicks

LEMMA TickKeepsTicks ==
  ASSUME TickIInv, irq0
  PROVE  TickIInv'
<1>1. /\ ticks' = ticks + 1
      /\ timed' = IF "timer" \in ready THEN timed + 1 ELSE timed
      /\ boot_at' = boot_at /\ ready' = ready
  BY DEF irq0
<1>2. tick_since_switch' \in Nat /\ tick_since_switch' >= tick_since_switch
  BY DEF irq0, TickIInv
<1>3. /\ preempt_pending' \in BOOLEAN
      /\ preempt_pending' => \/ preempt_pending
                             \/ "scheduler" \in ready /\ tick_since_switch' >= Quantum
  BY ZenonT(60) DEF irq0, TickIInv
<1>4. preempt_pending' => "scheduler" \in ready' /\ tick_since_switch' >= Quantum
  BY <1>1, <1>2, <1>3, BootAssumption DEF TickIInv, EarlyTicks
<1> QED
  BY <1>1, <1>2, <1>3, <1>4 DEF TickIInv, EarlyTicks

\* Interrupts are on from interrupts_init, long before the timer and the scheduler
\* are set up: whenever they come, timer_ticks counts every tick since timer_init
\* once, and no switch is pending before scheduler_init or short of a quantum.
THEOREM BootEarlyTicks == BootSpec => []EarlyTicks
<1>1. BootInit => TickIInv
  <2> SUFFICES ASSUME BootInit PROVE TickIInv
    OBVIOUS
  <2>1. 1 \in 1..17 /\ 0 \in Nat
    OBVIOUS
  <2> QED
    BY <2>1, ZenonT(60) DEF BootInit, TickIInv, EarlyTicks
<1>2. TickIInv /\ [BootNext]_bootVars => TickIInv'
  <2> SUFFICES ASSUME TickIInv, [BootNext]_bootVars PROVE TickIInv'
    OBVIOUS
  <2>1. CASE UNCHANGED <<boot_at, ready, ticks, timed, tick_since_switch, preempt_pending>>
    BY <2>1 DEF TickIInv, EarlyTicks
  <2> QED
    BY <2>1, SucceedsKeepsTicks, FailsKeepsTicks, TickKeepsTicks DEF BootNext, bootVars, clock, irq1
<1>3. TickIInv => EarlyTicks
  BY DEF TickIInv
<1> QED
  BY <1>1, <1>2, <1>3, PTL DEF BootSpec
-----------------------------------------------------------------------------
(***************************************************************************)
(* Proofs about the keyboard buffer, for every buffer size.                *)
(*                                                                         *)
(* That the reader's slot is stable rests on every occupied slot holding a *)
(* character, which is the rest of the inductive invariant.                *)
(***************************************************************************)

OccupiedHold == \A k \in 1..Count : buffer[Slot(k)] # NoChar

KeyIInv == KeyTypeOK /\ OccupiedHold /\ ReadStable

\* Where the occupied slots are: there are fewer than Size, the first is at the
\* tail, none is the head, and the one after the last is the head.
LEMMA Slots ==
  ASSUME KeyTypeOK
  PROVE  /\ Count \in 0..(Size - 1)
         /\ \A k \in 1..Count : Slot(k) \in Indices /\ Slot(k) # buffer_head
         /\ Slot(1) = buffer_tail
         /\ Slot(Count + 1) = buffer_head
         /\ Count = 0 <=> buffer_head = buffer_tail
         /\ Full <=> Count = Size - 1
  BY KeyboardAssumption DEF KeyTypeOK, Indices, Count, Slot, Full, NextIndex

\* Storing a character adds one slot at the end and moves no other.
LEMMA SlotsAfterPush ==
  ASSUME KeyTypeOK, ~Full, buffer_head' = NextIndex(buffer_head), buffer_tail' = buffer_tail
  PROVE  /\ Count' = Count + 1
         /\ \A k \in Int : Slot(k)' = Slot(k)
<1>1. Count' = Count + 1
  BY KeyboardAssumption DEF KeyTypeOK, Indices, Count, Full, NextIndex
<1> QED
  BY <1>1 DEF Slot

\* Taking one removes the first slot and moves the others up.
LEMMA SlotsAfterAdvance ==
  ASSUME KeyTypeOK, buffer_head # buffer_tail,
         buffer_tail' = NextIndex(buffer_tail), buffer_head' = buffer_head
  PROVE  /\ Count' = Count - 1
         /\ \A k \in 1..Count' : Slot(k)' = Slot(k + 1)
<1>1. Count' = Count - 1
  BY KeyboardAssumption DEF KeyTypeOK, Indices, Count, NextIndex
<1>2. ASSUME NEW k \in 1..Count'
      PROVE  Slot(k)' = Slot(k + 1)
  BY <1>1, <1>2, KeyboardAssumption DEF KeyTypeOK, Indices, Count, Slot, NextIndex
<1> QED
  BY <1>1, <1>2

LEMMA KeyInitIInv == KeyInit => KeyIInv
<1> SUFFICES ASSUME KeyInit PROVE KeyIInv
  OBVIOUS
<1>1. shift \in BOOLEAN /\ extended \in BOOLEAN
  BY ZenonT(60) DEF KeyInit
<1>2. KeyTypeOK
  BY <1>1, KeyboardAssumption DEF KeyInit, KeyTypeOK, Indices, NoChar
<1>3. OccupiedHold
  BY DEF KeyInit, OccupiedHold, Count
<1>4. ReadStable
  BY DEF KeyInit, ReadStable
<1> QED
  BY <1>2, <1>3, <1>4 DEF KeyIInv

\* The interrupt handler: it writes the head slot, which is not occupied.
LEMMA KeyIsr ==
  ASSUME KeyIInv, NEW scancode \in Scancodes, keyboard_isr(scancode)
  PROVE  KeyIInv'
<1> DEFINE ch == Decoded(scancode)
<1>1. KeyTypeOK /\ OccupiedHold /\ ReadStable
  BY DEF KeyIInv
<1>2. ch \in Chars \cup {NoChar}
  BY DEF Decoded, Chars, NoChar
<1>3. shift' \in BOOLEAN /\ extended' \in BOOLEAN
  <2>1. shift \in BOOLEAN /\ extended \in BOOLEAN
    BY <1>1, ZenonT(60) DEF KeyTypeOK
  <2>2. shift' = IF extended \/ scancode \notin {"shift down", "shift up"}
                 THEN shift ELSE scancode = "shift down"
    BY ZenonT(60) DEF keyboard_isr
  <2>3. extended' = IF scancode = "no data" THEN extended ELSE scancode = "E0"
    BY ZenonT(60) DEF keyboard_isr
  <2> QED
    BY <2>1, <2>2, <2>3, ZenonT(60)
<1>4. /\ buffer_tail' = buffer_tail /\ c' = c /\ got' = got
      /\ keyboard_buffer_push(ch)
      /\ pc' = IF pc = "hlt" THEN "test" ELSE pc
  BY ZenonT(60) DEF keyboard_isr, Wake
<1>5. CASE ch = NoChar \/ Full
  <2>1. buffer' = buffer /\ buffer_head' = buffer_head
    BY <1>4, <1>5 DEF keyboard_buffer_push
  <2>2. KeyTypeOK'
    BY <1>1, <1>3, <1>4, <2>1 DEF KeyTypeOK
  <2>3. OccupiedHold'
    BY <1>1, <1>4, <2>1 DEF OccupiedHold, Count, Slot
  <2>4. ReadStable'
    BY <1>1, <1>4, <2>1 DEF ReadStable
  <2> QED
    BY <2>2, <2>3, <2>4 DEF KeyIInv
<1>6. CASE ch # NoChar /\ ~Full
  <2>1. buffer' = [buffer EXCEPT ![buffer_head] = ch] /\ buffer_head' = NextIndex(buffer_head)
    BY <1>4, <1>6 DEF keyboard_buffer_push
  <2>2. buffer_head \in Indices /\ NextIndex(buffer_head) \in Indices
    BY <1>1, KeyboardAssumption DEF KeyTypeOK, Indices, NextIndex
  <2>3. buffer' \in [Indices -> Chars \cup {NoChar}]
    BY <1>1, <1>2, <2>1 DEF KeyTypeOK
  <2>4. KeyTypeOK'
    BY <1>1, <1>3, <1>4, <2>1, <2>2, <2>3 DEF KeyTypeOK
  <2>5. Count' = Count + 1 /\ \A k \in Int : Slot(k)' = Slot(k)
    BY <1>1, <1>4, <1>6, <2>1, SlotsAfterPush
  <2>6. OccupiedHold'
    <3> SUFFICES ASSUME NEW k \in 1..Count' PROVE buffer'[Slot(k)'] # NoChar
      BY DEF OccupiedHold
    <3>1. Count \in Nat /\ Slot(k)' = Slot(k)
      BY <1>1, <2>5, Slots, KeyboardAssumption
    <3>2. CASE k = Count + 1
      BY <1>1, <1>6, <2>1, <2>2, <3>1, <3>2, Slots DEF KeyTypeOK
    <3>3. CASE k \in 1..Count
      BY <1>1, <2>1, <3>1, <3>3, Slots DEF KeyTypeOK, OccupiedHold
    <3> QED
      BY <2>5, <3>1, <3>2, <3>3
  <2>7. ReadStable'
    <3>1. buffer_head' # buffer_tail
      BY <1>1, <1>6, <2>1 DEF Full
    <3>2. pc \in {"read", "advance"} => buffer'[buffer_tail] = buffer[buffer_tail]
      BY <1>1, <2>1 DEF ReadStable, KeyTypeOK
    <3> QED
      BY <1>1, <1>4, <3>1, <3>2 DEF ReadStable
  <2> QED
    BY <2>4, <2>6, <2>7 DEF KeyIInv
<1> QED
  BY <1>5, <1>6

LEMMA KeyReader ==
  ASSUME KeyIInv, MainLoop \/ timer_interrupt
  PROVE  KeyIInv'
<1>1. KeyTypeOK /\ OccupiedHold /\ ReadStable
  BY DEF KeyIInv
<1>2. CASE Advance
  <2>1. /\ buffer_head # buffer_tail /\ buffer_tail' = NextIndex(buffer_tail)
        /\ UNCHANGED <<buffer, buffer_head, shift, extended, c>>
        /\ pc' = "handle" /\ got' = c
    BY <1>1, <1>2 DEF Advance, AdvanceTail, ReadStable
  <2>2. KeyTypeOK'
    BY <1>1, <2>1, KeyboardAssumption DEF KeyTypeOK, Indices, NextIndex
  <2>3. Count' = Count - 1 /\ Count \in Nat /\ \A k \in 1..Count' : Slot(k)' = Slot(k + 1)
    BY <1>1, <2>1, SlotsAfterAdvance, Slots, KeyboardAssumption
  <2>4. OccupiedHold'
    BY <1>1, <2>1, <2>3 DEF OccupiedHold
  <2> QED
    BY <2>1, <2>2, <2>4 DEF KeyIInv, ReadStable
<1>3. CASE ReadChar
  <2>1. KeyTypeOK'
    BY <1>1, <1>3 DEF ReadChar, ring, KeyTypeOK
  <2>2. OccupiedHold'
    BY <1>1, <1>3 DEF ReadChar, ring, OccupiedHold, Count, Slot
  <2>3. ReadStable'
    BY <1>1, <1>3 DEF ReadChar, ring, ReadStable
  <2> QED
    BY <2>1, <2>2, <2>3 DEF KeyIInv
<1>4. CASE TestNonEmpty
  <2>1. KeyTypeOK'
    BY <1>1, <1>4 DEF TestNonEmpty, ring, KeyTypeOK
  <2>2. OccupiedHold'
    BY <1>1, <1>4 DEF TestNonEmpty, ring, OccupiedHold, Count, Slot
  <2>3. buffer[buffer_tail] # NoChar
    <3>1. 1 \in 1..Count /\ Slot(1) = buffer_tail
      BY <1>1, <1>4, Slots, KeyboardAssumption DEF TestNonEmpty
    <3> QED
      BY <1>1, <3>1 DEF OccupiedHold
  <2>4. ReadStable'
    BY <1>4, <2>3 DEF TestNonEmpty, ring, ReadStable
  <2> QED
    BY <2>1, <2>2, <2>4 DEF KeyIInv
<1>5. CASE TestEmpty \/ HandleChar \/ Halt \/ timer_interrupt
  <2>1. /\ UNCHANGED <<buffer, buffer_head, buffer_tail, shift, extended, c>>
        /\ got' \in {got, NoChar}
        /\ pc' \in {"empty", "test", "hlt"}
    BY <1>5 DEF TestEmpty, HandleChar, Halt, timer_interrupt, TimerWakes, Wake, ring
  <2>2. KeyTypeOK'
    BY <1>1, <2>1 DEF KeyTypeOK
  <2>3. OccupiedHold'
    BY <1>1, <2>1 DEF OccupiedHold, Count, Slot
  <2>4. ReadStable'
    BY <2>1 DEF ReadStable
  <2> QED
    BY <2>2, <2>3, <2>4 DEF KeyIInv
<1> QED
  BY <1>2, <1>3, <1>4, <1>5 DEF MainLoop

LEMMA KeyStep == KeyIInv /\ [KeyNext]_keyVars => KeyIInv'
<1> SUFFICES ASSUME KeyIInv, [KeyNext]_keyVars PROVE KeyIInv'
  OBVIOUS
<1>1. CASE MainLoop \/ timer_interrupt
  BY <1>1, KeyReader
<1>2. ASSUME NEW scancode \in Scancodes, keyboard_isr(scancode)
      PROVE  KeyIInv'
  BY <1>2, KeyIsr
<1>3. CASE UNCHANGED keyVars
  BY <1>3 DEF keyVars, KeyIInv, KeyTypeOK, OccupiedHold, ReadStable, Count, Slot
<1> QED
  BY <1>1, <1>2, <1>3 DEF KeyNext

\* The indices, flags and characters of keyboard.c keep their types.
THEOREM KeyboardTypeOK == KeySpec => []KeyTypeOK
<1>1. KeyIInv => KeyTypeOK
  BY DEF KeyIInv
<1> QED
  BY <1>1, KeyInitIInv, KeyStep, PTL DEF KeySpec

\* keyboard_try_getchar is never overtaken by the interrupt handler.
THEOREM KeyboardReadStable == KeySpec => []ReadStable
<1>1. KeyIInv => ReadStable
  BY DEF KeyIInv
<1> QED
  BY <1>1, KeyInitIInv, KeyStep, PTL DEF KeySpec

\* Two sequences of the same length with the same elements are one.
LEMMA SameSequence ==
  ASSUME NEW S, NEW s \in Seq(S), NEW t \in Seq(S), Len(s) = Len(t),
         \A k \in 1..Len(s) : s[k] = t[k]
  PROVE  s = t
  OBVIOUS

\* The contents of the buffer are a sequence of characters.
LEMMA ContentsSeq ==
  ASSUME KeyIInv
  PROVE  /\ Contents \in Seq(Chars)
         /\ Len(Contents) = Count
         /\ Count \in Nat
         /\ \A k \in 1..Count : Contents[k] = buffer[Slot(k)] /\ buffer[Slot(k)] \in Chars
<1>1. Count \in Nat /\ \A k \in 1..Count : buffer[Slot(k)] \in Chars
  BY Slots, KeyboardAssumption DEF KeyIInv, KeyTypeOK, OccupiedHold
<1> QED
  BY <1>1 DEF Contents

\* A stored character is appended to the contents.
LEMMA PushAppends ==
  ASSUME KeyIInv, NEW ch \in Chars, ~Full,
         buffer' = [buffer EXCEPT ![buffer_head] = ch],
         buffer_head' = NextIndex(buffer_head), buffer_tail' = buffer_tail
  PROVE  Contents' = Append(Contents, ch)
<1>1. KeyTypeOK
  BY DEF KeyIInv
<1>2. Count' = Count + 1 /\ \A k \in Int : Slot(k)' = Slot(k)
  BY <1>1, SlotsAfterPush
<1>3. /\ Contents \in Seq(Chars) /\ Len(Contents) = Count /\ Count \in Nat
      /\ \A k \in 1..Count : Contents[k] = buffer[Slot(k)] /\ buffer[Slot(k)] \in Chars
  BY ContentsSeq
<1>4. Contents' = [k \in 1..(Count + 1) |-> buffer'[Slot(k)]]
  BY <1>2 DEF Contents
<1>5. ASSUME NEW k \in 1..(Count + 1)
      PROVE  buffer'[Slot(k)] = IF k = Count + 1 THEN ch ELSE Contents[k]
  <2>1. CASE k = Count + 1
    BY <1>1, <2>1, Slots DEF KeyTypeOK
  <2>2. CASE k \in 1..Count
    BY <1>1, <1>3, <2>2, Slots DEF KeyTypeOK
  <2> QED
    BY <1>3, <2>1, <2>2
<1>6. Contents' \in Seq(Chars) /\ Len(Contents') = Count + 1
  BY <1>3, <1>4, <1>5
<1>7. Append(Contents, ch) \in Seq(Chars) /\ Len(Append(Contents, ch)) = Count + 1
  BY <1>3
<1>8. \A k \in 1..(Count + 1) : Contents'[k] = Append(Contents, ch)[k]
  BY <1>3, <1>4, <1>5
<1> QED
  BY <1>6, <1>7, <1>8, SameSequence

\* Advancing the tail returns the oldest character and removes it.
LEMMA AdvanceRemoves ==
  ASSUME KeyIInv, Advance
  PROVE  Contents # <<>> /\ got' = Head(Contents) /\ Contents' = Tail(Contents)
<1>1. KeyTypeOK /\ buffer_head # buffer_tail /\ c = buffer[buffer_tail]
  BY DEF KeyIInv, Advance, ReadStable
<1>2. Count' = Count - 1 /\ \A k \in 1..Count' : Slot(k)' = Slot(k + 1)
  BY <1>1, SlotsAfterAdvance DEF Advance, AdvanceTail
<1>3. /\ Contents \in Seq(Chars) /\ Len(Contents) = Count /\ Count \in Nat
      /\ \A k \in 1..Count : Contents[k] = buffer[Slot(k)] /\ buffer[Slot(k)] \in Chars
  BY ContentsSeq
<1>4. Count >= 1 /\ Slot(1) = buffer_tail
  BY <1>1, <1>3, Slots
<1>5. Contents # <<>> /\ got' = Head(Contents)
  BY <1>1, <1>3, <1>4 DEF Advance
<1>6. Contents' = [k \in 1..(Count - 1) |-> buffer[Slot(k + 1)]]
  BY <1>2 DEF Contents, Advance
<1>7. \A k \in 1..(Count - 1) : buffer[Slot(k + 1)] = Contents[k + 1] /\ Contents[k + 1] \in Chars
  BY <1>3
<1>8. Contents' \in Seq(Chars) /\ Len(Contents') = Count - 1
  BY <1>3, <1>4, <1>6, <1>7
<1>9. /\ Tail(Contents) \in Seq(Chars) /\ Len(Tail(Contents)) = Count - 1
      /\ \A k \in 1..(Count - 1) : Tail(Contents)[k] = Contents[k + 1]
  BY <1>3, <1>5
<1>10. \A k \in 1..(Count - 1) : Contents'[k] = Tail(Contents)[k]
  BY <1>6, <1>7, <1>9
<1> QED
  BY <1>5, <1>8, <1>9, <1>10, SameSequence

\* Steps that leave the buffer and its indices alone leave the contents alone.
LEMMA SameContents ==
  ASSUME UNCHANGED <<buffer, buffer_head, buffer_tail>>
  PROVE  Contents' = Contents
  BY DEF Contents, Count, Slot

(***************************************************************************)
(* keyboard.c implements the bounded queue: with the buffer's contents,    *)
(* oldest first, as the queue, the interrupt handler appends or drops,     *)
(* keyboard_try_getchar takes the head, and nothing else changes it.       *)
(***************************************************************************)
THEOREM KeyboardImplementsFifo == KeySpec => FifoSpec
<1>1. KeyInit => Fifo!Init
  <2> SUFFICES ASSUME KeyInit PROVE Contents = <<>> /\ got = NoChar
    BY DEF Fifo!Init
  <2> QED
    BY DEF KeyInit, Contents, Count
<1>2. KeyIInv /\ [KeyNext]_keyVars => [Fifo!Next]_<<Contents, got>>
  <2> SUFFICES ASSUME KeyIInv, [KeyNext]_keyVars
               PROVE  Fifo!Next \/ UNCHANGED <<Contents, got>>
    OBVIOUS
  <2>1. ASSUME NEW scancode \in Scancodes, keyboard_isr(scancode)
        PROVE  Fifo!Next \/ UNCHANGED <<Contents, got>>
    <3> DEFINE ch == Decoded(scancode)
    <3>1. keyboard_buffer_push(ch) /\ buffer_tail' = buffer_tail /\ got' = got
      BY <2>1, ZenonT(60) DEF keyboard_isr
    <3>2. CASE ch = NoChar \/ Full
      <4>1. UNCHANGED <<buffer, buffer_head, buffer_tail>>
        BY <3>1, <3>2 DEF keyboard_buffer_push
      <4> QED
        BY <3>1, <4>1, SameContents
    <3>3. CASE ch # NoChar /\ ~Full
      <4>1. ch \in Chars
        BY <3>3 DEF Decoded, Chars, NoChar
      <4>2. buffer' = [buffer EXCEPT ![buffer_head] = ch] /\ buffer_head' = NextIndex(buffer_head)
        BY <3>1, <3>3 DEF keyboard_buffer_push
      <4>3. Contents' = Append(Contents, ch)
        BY <3>1, <3>3, <4>1, <4>2, PushAppends, ZenonT(60)
      <4>4. Len(Contents) < Size - 1
        <5>1. Len(Contents) = Count
          BY ContentsSeq
        <5> QED
          BY <3>3, <5>1, Slots, KeyboardAssumption DEF KeyIInv
      <4>5. Fifo!Press(ch)
        BY <3>1, <4>3, <4>4 DEF Fifo!Press
      <4> QED
        BY <4>1, <4>5 DEF Fifo!Next
    <3> QED
      BY <3>2, <3>3
  <2>2. CASE Advance
    <3>1. Fifo!Return
      BY <2>2, AdvanceRemoves DEF Fifo!Return
    <3> QED
      BY <3>1 DEF Fifo!Next
  <2>3. CASE TestEmpty
    <3>1. Contents = <<>>
      <4>1. Len(Contents) = 0 /\ Contents \in Seq(Chars)
        BY <2>3, ContentsSeq, Slots DEF KeyIInv, TestEmpty
      <4> QED
        BY <4>1
    <3>2. Contents' = Contents /\ got' = NoChar
      BY <2>3, SameContents DEF TestEmpty, ring
    <3>3. Fifo!ReturnNothing
      BY <3>1, <3>2 DEF Fifo!ReturnNothing
    <3> QED
      BY <3>3 DEF Fifo!Next
  <2>4. CASE TestNonEmpty \/ ReadChar \/ HandleChar \/ Halt \/ timer_interrupt \/ UNCHANGED keyVars
    <3>1. UNCHANGED <<buffer, buffer_head, buffer_tail, got>>
      BY <2>4 DEF TestNonEmpty, ReadChar, HandleChar, Halt, timer_interrupt, ring, keyVars
    <3> QED
      BY <3>1, SameContents
  <2> QED
    BY <2>1, <2>2, <2>3, <2>4 DEF KeyNext, MainLoop
<1> QED
  BY <1>1, <1>2, KeyInitIInv, KeyStep, PTL DEF KeySpec, FifoSpec, Fifo!Spec, Fifo!vars

-----------------------------------------------------------------------------
(***************************************************************************)
(* What the ELF loader guarantees for every word size, page and image.     *)
(***************************************************************************)

Covers(seg, adr) == seg.vaddr <= adr /\ adr < End(seg)

\* What the proofs need of the types.
ElfTypes ==
  /\ image_len \in Nat
  /\ e_entry \in Int
  /\ segs \in Seq(Headers)
  /\ entry_in_load \in BOOLEAN

\* entry_in_load was set by a segment that is in the page.
EntryWitnessed ==
  /\ entry_in_load => \E k \in 1..Len(segs) : Covers(segs[k], e_entry)
  /\ elf_at = "accepted" => entry_in_load

ElfIInv == ElfTypes /\ SegmentsInside /\ EntryWitnessed

\* Words are integers.
LEMMA HeaderInts ==
  ASSUME NEW ph \in Headers
  PROVE  /\ ph.offset \in Int /\ ph.vaddr \in Int /\ ph.filesz \in Int /\ ph.memsz \in Int
         /\ ph.offset >= 0 /\ ph.vaddr >= 0 /\ ph.filesz >= 0 /\ ph.memsz >= 0
<1>1. ph.offset \in Values /\ ph.vaddr \in Values /\ ph.filesz \in Values /\ ph.memsz \in Values
  BY DEF Headers
<1>2. \A v \in Values : v \in Int /\ v >= 0
  BY ElfAssumption
<1> QED
  BY <1>1, <1>2

\* The checks of the loop, made on words, mean what they say: a segment that
\* passes them fits with exact arithmetic.
LEMMA ChecksSuffice ==
  ASSUME NEW ph \in Headers, image_len \in Nat, SegmentOk(ph)
  PROVE  FitsExactly(ph)
  BY HeaderInts, ElfAssumption DEF SegmentOk, FitsExactly, End, UINT32_MAX

\* The end of a segment that fits does not wrap, so the test that sets
\* entry_in_load is exact.
LEMMA EntryTestExact ==
  ASSUME NEW ph \in Headers, e_entry \in Int, FitsExactly(ph), HoldsEntry(ph)
  PROVE  ph.vaddr <= e_entry /\ e_entry < End(ph)
  BY HeaderInts, ElfAssumption DEF HoldsEntry, FitsExactly, End, Plus

\* The initial states satisfy the invariant.
LEMMA ElfInitIInv == ElfInit => ElfIInv
<1> SUFFICES ASSUME ElfInit PROVE ElfIInv
  OBVIOUS
<1>1. image_len \in Nat /\ e_entry \in Int
  BY ElfAssumption DEF ElfInit
<1>2. segs \in Seq(Headers) /\ Len(segs) = 0
  BY DEF ElfInit
<1>3. entry_in_load \in BOOLEAN
  BY ZenonT(60) DEF ElfInit
<1>4. SegmentsInside
  BY <1>2 DEF SegmentsInside
<1>5. EntryWitnessed
  BY DEF ElfInit, EntryWitnessed
<1> QED
  BY <1>1, <1>2, <1>3, <1>4, <1>5 DEF ElfIInv, ElfTypes

\* Every step preserves the invariant; only SegmentLoad adds a segment.
LEMMA ElfStep == ElfIInv /\ [ElfNext]_elfVars => ElfIInv'
<1> SUFFICES ASSUME ElfIInv, [ElfNext]_elfVars PROVE ElfIInv'
  OBVIOUS
<1>1. ASSUME UNCHANGED <<header, segs, entry_in_load>>,
             elf_at' = "accepted" => elf_at = "accepted" \/ entry_in_load
      PROVE  ElfIInv'
  BY <1>1 DEF ElfIInv, ElfTypes, SegmentsInside, FitsExactly, EntryWitnessed, Covers, End, header
<1>2. CASE HeadReject
  BY <1>2, <1>1 DEF HeadReject
<1>3. CASE HeadAccept
  BY <1>3, <1>1 DEF HeadAccept
<1>4. ASSUME NEW ph \in Headers, Skip(ph) PROVE ElfIInv'
  BY <1>4, <1>1 DEF Skip
<1>5. ASSUME NEW ph \in Headers, SegmentReject(ph) PROVE ElfIInv'
  BY <1>5, <1>1 DEF SegmentReject
<1>6. ASSUME NEW ph \in Headers, SegmentLoad(ph) PROVE ElfIInv'
  <2>1. UNCHANGED header /\ segs' = Append(segs, ph) /\ elf_at' = "loop" /\ SegmentOk(ph)
    BY <1>6 DEF SegmentLoad
  <2>2. image_len' = image_len /\ e_entry' = e_entry
    BY <2>1 DEF header
  <2>3. FitsExactly(ph)
    BY <2>1, ChecksSuffice DEF ElfIInv, ElfTypes
  <2>4. /\ segs' \in Seq(Headers)
        /\ Len(segs') = Len(segs) + 1
        /\ segs'[Len(segs) + 1] = ph
        /\ \A k \in 1..Len(segs) : segs'[k] = segs[k]
    BY <2>1 DEF ElfIInv, ElfTypes
  <2>5. entry_in_load' \in BOOLEAN
    BY <1>6, ZenonT(60) DEF SegmentLoad
  <2>6. ElfTypes'
    BY <2>2, <2>4, <2>5 DEF ElfIInv, ElfTypes
  <2>7. SegmentsInside'
    <3> SUFFICES ASSUME NEW k \in 1..(Len(segs) + 1) PROVE FitsExactly(segs'[k])
      BY <2>2, <2>4 DEF SegmentsInside, FitsExactly, End
    <3>1. CASE k = Len(segs) + 1
      BY <3>1, <2>3, <2>4
    <3>2. CASE k \in 1..Len(segs)
      <4>1. FitsExactly(segs[k])
        BY <3>2 DEF ElfIInv, SegmentsInside
      <4> QED
        BY <4>1, <3>2, <2>4
    <3> QED
      BY <3>1, <3>2 DEF ElfIInv, ElfTypes
  <2>8. EntryWitnessed'
    <3> SUFFICES ASSUME entry_in_load' PROVE \E k \in 1..Len(segs') : Covers(segs'[k], e_entry')
      BY <2>1 DEF EntryWitnessed, Covers, End
    <3>1. CASE HoldsEntry(ph)
      <4>1. ph.vaddr <= e_entry /\ e_entry < End(ph)
        BY <3>1, <2>3, EntryTestExact DEF ElfIInv, ElfTypes
      <4>2. Covers(segs'[Len(segs) + 1], e_entry')
        BY <4>1, <2>2, <2>4 DEF Covers
      <4>3. Len(segs) + 1 \in 1..Len(segs')
        BY <2>4 DEF ElfIInv, ElfTypes
      <4> QED
        BY <4>2, <4>3
    <3>2. CASE entry_in_load
      <4>1. PICK k \in 1..Len(segs) : Covers(segs[k], e_entry)
        BY <3>2 DEF ElfIInv, EntryWitnessed
      <4>2. Covers(segs'[k], e_entry')
        BY <4>1, <2>2, <2>4
      <4>3. k \in 1..Len(segs')
        BY <2>4 DEF ElfIInv, ElfTypes
      <4> QED
        BY <4>2, <4>3
    <3> QED
      BY <3>1, <3>2, <1>6, ZenonT(60) DEF SegmentLoad
  <2> QED
    BY <2>6, <2>7, <2>8 DEF ElfIInv
<1>7. CASE Finish
  BY <1>7, <1>1 DEF Finish, EntryOk
<1>8. CASE UNCHANGED elfVars
  BY <1>8, <1>1 DEF elfVars
<1> QED
  BY <1>2, <1>3, <1>4, <1>5, <1>6, <1>7, <1>8 DEF ElfNext

\* process_load_elf32_single_page copies no segment that leaves the code page
\* or the image, whatever the sizes and the words in the image.
THEOREM ElfSegmentsInside == ElfSpec => []SegmentsInside
<1>1. ElfIInv => SegmentsInside
  BY DEF ElfIInv
<1> QED
  BY <1>1, ElfInitIInv, ElfStep, PTL DEF ElfSpec

\* An image that process_load_elf32_single_page accepts has its entry point in
\* a segment that was loaded.
THEOREM ElfEntryInSegment == ElfSpec => []EntryInSegment
<1>1. ElfIInv => EntryInSegment
  BY DEF ElfIInv, EntryWitnessed, EntryInSegment, Covers
<1> QED
  BY <1>1, ElfInitIInv, ElfStep, PTL DEF ElfSpec
-----------------------------------------------------------------------------
(* Why an image is rejected *)

\* The segments that hold the entry point have set the flags Finish looks at.
EntryNoticed ==
  elf_at # "rejected" => \A k \in 1..Len(segs) : Covers(segs[k], e_entry) => entry_in_load /\ loaded_any

\* The checks of the loop, made on words, turn no segment away that fits.
LEMMA ChecksNecessary ==
  ASSUME NEW ph \in Headers, image_len \in Nat, FitsExactly(ph)
  PROVE  SegmentOk(ph)
  BY HeaderInts, ElfAssumption DEF SegmentOk, FitsExactly, End, UINT32_MAX

\* A segment that fits and holds the entry point passes the test for it.
LEMMA EntryTestComplete ==
  ASSUME NEW ph \in Headers, e_entry \in Int, FitsExactly(ph), Covers(ph, e_entry)
  PROVE  HoldsEntry(ph)
  BY HeaderInts, ElfAssumption DEF HoldsEntry, FitsExactly, End, Plus, Covers

\* A segment that is loaded leaves the flags as Finish expects them.
LEMMA LoadNotices ==
  ASSUME ElfIInv, EntryNoticed, NEW ph \in Headers, SegmentLoad(ph)
  PROVE  EntryNoticed'
<1>1. /\ elf_at = "loop" /\ segs' = Append(segs, ph) /\ loaded_any' = TRUE /\ e_entry' = e_entry
      /\ entry_in_load' = (entry_in_load \/ HoldsEntry(ph)) /\ SegmentOk(ph)
  BY DEF SegmentLoad, header
<1>2. FitsExactly(ph) /\ segs \in Seq(Headers) /\ e_entry \in Int
  BY <1>1, ChecksSuffice DEF ElfIInv, ElfTypes
<1>3. ASSUME NEW k \in 1..Len(segs'), Covers(segs'[k], e_entry)
      PROVE  entry_in_load \/ HoldsEntry(ph)
  <2>1. (k \in 1..Len(segs) /\ segs'[k] = segs[k]) \/ segs'[k] = ph
    BY <1>1, <1>2, <1>3
  <2>2. ASSUME k \in 1..Len(segs), segs'[k] = segs[k] PROVE entry_in_load
    BY <1>1, <1>3, <2>2 DEF EntryNoticed
  <2>3. ASSUME segs'[k] = ph PROVE HoldsEntry(ph)
    BY <1>2, <1>3, <2>3, EntryTestComplete
  <2> QED
    BY <2>1, <2>2, <2>3
<1>4. ASSUME NEW k \in 1..Len(segs'), Covers(segs'[k], e_entry)
      PROVE  entry_in_load' /\ loaded_any'
  BY <1>1, <1>3, <1>4, ZenonT(60)
<1> QED
  BY <1>1, <1>4, ZenonT(60) DEF EntryNoticed, Covers, End

\* An image whose entry point one of its segments holds is not rejected at the end.
LEMMA FinishForCause ==
  ASSUME ElfIInv, EntryNoticed, Finish
  PROVE  RejectedForCause'
<1>1. /\ elf_at = "loop" /\ segs' = segs /\ e_entry' = e_entry
      /\ elf_at' = IF EntryOk THEN "accepted" ELSE "rejected"
      /\ cause' = IF EntryOk THEN "none" ELSE "entry"
  BY DEF Finish, header
<1>2. ASSUME ~EntryOk, NEW k \in 1..Len(segs)
      PROVE  e_entry \notin segs[k].vaddr..(End(segs[k]) - 1)
  <2>1. segs[k] \in Headers /\ e_entry \in Int /\ FitsExactly(segs[k])
    BY <1>2 DEF ElfIInv, ElfTypes, SegmentsInside
  <2>2. segs[k].vaddr \in Int /\ segs[k].memsz \in Int
    BY <2>1, HeaderInts
  <2>3. ASSUME Covers(segs[k], e_entry) PROVE EntryOk
    <3>1. entry_in_load /\ loaded_any
      BY <1>1, <1>2, <2>3 DEF EntryNoticed
    <3> QED
      BY <2>1, <2>2, <2>3, <3>1, ElfAssumption DEF EntryOk, Covers, FitsExactly, End
  <2> QED
    BY <1>2, <2>1, <2>2, <2>3 DEF Covers, End
<1> QED
  BY <1>1, <1>2 DEF RejectedForCause, End

LEMMA ElfCauseStep ==
  ASSUME ElfIInv, EntryNoticed, RejectedForCause, [ElfNext]_elfVars
  PROVE  EntryNoticed' /\ RejectedForCause'
<1>2. CASE UNCHANGED elfVars
  BY <1>2 DEF elfVars, header, EntryNoticed, RejectedForCause, Covers, End
<1>3. CASE HeadReject
  BY <1>3 DEF HeadReject, EntryNoticed, RejectedForCause
<1>4. CASE HeadAccept
  BY <1>4 DEF HeadAccept, header, EntryNoticed, RejectedForCause, Covers, End
<1>5. ASSUME NEW ph \in Headers, Skip(ph) PROVE EntryNoticed' /\ RejectedForCause'
  BY <1>5 DEF Skip, header, EntryNoticed, RejectedForCause, Covers, End
<1>6. ASSUME NEW ph \in Headers, SegmentReject(ph) PROVE EntryNoticed' /\ RejectedForCause'
  <2>1. image_len \in Nat
    BY DEF ElfIInv, ElfTypes
  <2> QED
    BY <1>6, <2>1, ChecksNecessary DEF SegmentReject, EntryNoticed, RejectedForCause
<1>7. ASSUME NEW ph \in Headers, SegmentLoad(ph) PROVE EntryNoticed' /\ RejectedForCause'
  <2>1. elf_at' # "rejected"
    BY <1>7 DEF SegmentLoad
  <2> QED
    BY <1>7, <2>1, LoadNotices DEF RejectedForCause
<1>8. CASE Finish
  <2>1. EntryNoticed'
    BY <1>8 DEF Finish, header, EntryNoticed, Covers, End
  <2> QED
    BY <1>8, <2>1, FinishForCause
<1> QED
  BY <1>2, <1>3, <1>4, <1>5, <1>6, <1>7, <1>8 DEF ElfNext

\* The loader of process.c turns away no image that it should accept: it rejects one
\* for its header, for a segment that does not fit with exact arithmetic either, or
\* for an entry point outside every segment.
THEOREM ElfRejectedForCause == ElfSpec => []RejectedForCause
<1>1. ElfInit => EntryNoticed /\ RejectedForCause
  BY DEF ElfInit, EntryNoticed, RejectedForCause
<1>2. ElfIInv /\ EntryNoticed /\ RejectedForCause /\ [ElfNext]_elfVars
        => EntryNoticed' /\ RejectedForCause'
  BY ElfCauseStep
<1> QED
  BY <1>1, <1>2, ElfInitIInv, ElfStep, PTL DEF ElfSpec
-----------------------------------------------------------------------------
(* The contents of the page *)

\* The last segment that covers an address, as a relation: which one it is
\* needs no induction over the segments.
IsTop(k, ss, adr) == k \in Covering(ss, adr) /\ \A j \in Covering(ss, adr) : j <= k

ByteRight(b, ss, byte) ==
  LET adr == CodeVaddr + b
  IN  \/ Covering(ss, adr) = {} /\ byte = Zero
      \/ \E k \in Covering(ss, adr) : IsTop(k, ss, adr) /\ byte = ByteOf(ss[k], adr)

PageRight ==
  /\ elf_at = "head" => segs = <<>>
  /\ elf_at \in {"loop", "accepted"} => \A b \in PageBytes : ByteRight(b, segs, code[b])

\* A list of headers and the list with one more.
LEMMA AppendFacts ==
  ASSUME NEW ss \in Seq(Headers), NEW ph \in Headers
  PROVE  /\ Len(ss) \in Nat /\ Len(Append(ss, ph)) = Len(ss) + 1
         /\ Append(ss, ph)[Len(ss) + 1] = ph
         /\ \A k \in 1..Len(ss) : Append(ss, ph)[k] = ss[k]
  OBVIOUS

\* A segment appended last is the top one where it covers the address.
LEMMA TopAppended ==
  ASSUME NEW ss \in Seq(Headers), NEW ph \in Headers, NEW adr \in Int, Covers(ph, adr)
  PROVE  IsTop(Len(ss) + 1, Append(ss, ph), adr)
  BY AppendFacts DEF IsTop, Covering, Covers

\* Elsewhere it changes nothing.
LEMMA CoveringAppended ==
  ASSUME NEW ss \in Seq(Headers), NEW ph \in Headers, NEW adr \in Int, ~Covers(ph, adr)
  PROVE  Covering(Append(ss, ph), adr) = Covering(ss, adr)
<1> DEFINE new == Append(ss, ph)
<1>1. /\ Len(ss) \in Nat /\ Len(new) = Len(ss) + 1 /\ new[Len(ss) + 1] = ph
      /\ \A k \in 1..Len(ss) : new[k] = ss[k]
  BY AppendFacts
<1> HIDE DEF new
<1>2. ASSUME NEW k \in Covering(new, adr) PROVE k \in Covering(ss, adr)
  BY <1>2, <1>1 DEF Covering, Covers
<1>3. ASSUME NEW k \in Covering(ss, adr) PROVE k \in Covering(new, adr)
  BY <1>3, <1>1 DEF Covering
<1> QED
  BY <1>2, <1>3, ZenonT(60) DEF new

\* SegmentLoad keeps every byte right.
LEMMA LoadedRight ==
  ASSUME NEW ph \in Headers, NEW b \in PageBytes, NEW page,
         segs \in Seq(Headers), image_len \in Nat, FitsExactly(ph),
         ByteRight(b, segs, page[b])
  PROVE  ByteRight(b, Append(segs, ph), Loaded(page, ph)[b])
<1> DEFINE adr == CodeVaddr + b
           new == Append(segs, ph)
           k0 == b - (ph.vaddr - CodeVaddr)
<1>1. adr \in Int /\ b \in Int /\ CodeVaddr \in Int
  BY ElfAssumption DEF PageBytes
<1>4. Loaded(page, ph)[b] =
        IF k0 \in 0..(ph.filesz - 1) THEN ph.offset + k0
        ELSE IF k0 \in ph.filesz..(ph.memsz - 1) THEN Zero ELSE page[b]
  BY DEF Loaded
<1>5. k0 = adr - ph.vaddr /\ k0 \in Int /\ ph.filesz \in Nat /\ ph.memsz \in Nat /\ ph.filesz <= ph.memsz
  BY <1>1, HeaderInts DEF FitsExactly
<1>6. Covers(ph, adr) <=> 0 <= k0 /\ k0 < ph.memsz
  BY <1>1, HeaderInts DEF Covers, End
<1> HIDE DEF k0
<1>2. CASE Covers(ph, adr)
  <2>1. Loaded(page, ph)[b] = ByteOf(ph, adr)
    BY <1>2, <1>4, <1>5, <1>6 DEF ByteOf
  <2>2. IsTop(Len(segs) + 1, new, adr)
    BY <1>1, <1>2, TopAppended
  <2>3. new[Len(segs) + 1] = ph
    BY AppendFacts
  <2> QED
    BY <2>1, <2>2, <2>3, ZenonT(60) DEF ByteRight, IsTop
<1>3. CASE ~Covers(ph, adr)
  <2>1. Loaded(page, ph)[b] = page[b]
    BY <1>3, <1>4, <1>5, <1>6
  <2>2. Covering(new, adr) = Covering(segs, adr)
    BY <1>1, <1>3, CoveringAppended
  <2>3. \A k \in Covering(segs, adr) : new[k] = segs[k]
    BY AppendFacts DEF Covering
  <2> QED
    BY <2>1, <2>2, <2>3, ZenonT(60) DEF ByteRight, IsTop
<1> QED
  BY <1>2, <1>3

\* The page is right after every step of the loop.
LEMMA NextPageRight == ElfIInv /\ PageRight /\ [ElfNext]_elfVars => PageRight'
<1> SUFFICES ASSUME ElfIInv, PageRight, [ElfNext]_elfVars PROVE PageRight'
  OBVIOUS
<1>1. ASSUME UNCHANGED <<code, segs>>,
             elf_at' = "head" => elf_at = "head",
             elf_at' \in {"loop", "accepted"} => elf_at \in {"loop", "accepted"}
      PROVE  PageRight'
  BY <1>1, ZenonT(60) DEF PageRight, ByteRight, IsTop, Covering, ByteOf, End
<1>2. CASE HeadReject
  BY <1>2, <1>1 DEF HeadReject
<1>3. CASE HeadAccept
  <2>1. code' = [b \in PageBytes |-> Zero] /\ segs' = segs
    BY <1>3 DEF HeadAccept, Cleared
  <2>2. segs = <<>>
    BY <1>3 DEF HeadAccept, PageRight
  <2> QED
    BY <2>1, <2>2 DEF PageRight, ByteRight, Covering
<1>4. ASSUME NEW ph \in Headers, Skip(ph) PROVE PageRight'
  BY <1>4, <1>1 DEF Skip
<1>5. ASSUME NEW ph \in Headers, SegmentReject(ph) PROVE PageRight'
  BY <1>5, <1>1 DEF SegmentReject
<1>6. ASSUME NEW ph \in Headers, SegmentLoad(ph) PROVE PageRight'
  <2>1. /\ elf_at = "loop" /\ elf_at' = "loop" /\ SegmentOk(ph)
        /\ code' = Loaded(code, ph) /\ segs' = Append(segs, ph)
    BY <1>6 DEF SegmentLoad
  <2>2. segs \in Seq(Headers) /\ image_len \in Nat
    BY DEF ElfIInv, ElfTypes
  <2>3. FitsExactly(ph)
    BY <2>1, <2>2, ChecksSuffice
  <2>4. ASSUME NEW b \in PageBytes PROVE ByteRight(b, segs', code'[b])
    <3>1. ByteRight(b, segs, code[b])
      BY <2>1 DEF PageRight
    <3> QED
      BY <3>1, <2>1, <2>2, <2>3, LoadedRight
  <2> QED
    BY <2>1, <2>4, ZenonT(60) DEF PageRight, ByteRight, IsTop, Covering, ByteOf, End
<1>7. CASE Finish
  BY <1>7, <1>1 DEF Finish
<1>8. CASE UNCHANGED elfVars
  BY <1>8, <1>1 DEF elfVars
<1> QED
  BY <1>2, <1>3, <1>4, <1>5, <1>6, <1>7, <1>8 DEF ElfNext

\* The page process_load_elf32_single_page builds holds what the segments say,
\* and zero elsewhere: the last segment wins where two overlap.
THEOREM ElfPageExact == ElfSpec => []PageExact
<1>1. ElfInit => PageRight
  BY DEF ElfInit, PageRight
<1>2. PageRight => PageExact
  <2> SUFFICES ASSUME PageRight, elf_at \in {"loop", "accepted"}, NEW b \in PageBytes
               PROVE  code[b] = Expected(segs, CodeVaddr + b)
    BY DEF PageExact
  <2> DEFINE S == Covering(segs, CodeVaddr + b)
  <2>1. ByteRight(b, segs, code[b])
    BY DEF PageRight
  <2>2. CASE S = {}
    BY <2>1, <2>2 DEF ByteRight, Expected
  <2>3. CASE S # {}
    <3>1. PICK k \in S : IsTop(k, segs, CodeVaddr + b) /\ code[b] = ByteOf(segs[k], CodeVaddr + b)
      BY <2>1, <2>3 DEF ByteRight
    <3>2. \A j \in S : j \in Int
      BY DEF Covering
    <3>3. Highest(S) = k
      BY <3>1, <3>2 DEF Highest, IsTop
    <3> QED
      BY <3>1, <3>3, <2>3 DEF Expected
  <2> QED
    BY <2>2, <2>3
<1> QED
  BY <1>1, <1>2, ElfInitIInv, ElfStep, NextPageRight, PTL DEF ElfSpec

-----------------------------------------------------------------------------
(***************************************************************************)
(* Proofs about the checks kernel/syscall.c makes on a caller's memory,    *)
(* for every page size, address space and buffer.                          *)
(*                                                                         *)
(* copy_in_string adds its index to the pointer without a check for the    *)
(* end of the address space.  The inductive invariant says why that is     *)
(* sound: all bytes before the index were allowed, so the pointer has not  *)
(* passed the end, and one step past it lies address 0, which is refused.  *)
(***************************************************************************)

\* What the proofs need of division: page numbers grow with addresses, and a
\* page starts at its number times the page size.
LEMMA PageBounds ==
  ASSUME NEW a \in Nat
  PROVE  /\ PageOf(a) \in Nat
         /\ PageSize * PageOf(a) <= a
         /\ a < PageSize * PageOf(a) + PageSize
  BY UserCopyAssumption DEF PageOf

LEMMA PageMonotone ==
  ASSUME NEW a \in Nat, NEW b \in Nat, a <= b
  PROVE  PageOf(a) <= PageOf(b)
  BY UserCopyAssumption DEF PageOf

LEMMA PageStart ==
  ASSUME NEW p \in Nat
  PROVE  PageSize * p \in Nat /\ PageOf(PageSize * p) = p
  BY UserCopyAssumption DEF PageOf

LEMMA WordPositive == NumBytes \in Nat /\ NumBytes > 1
  BY UserCopyAssumption DEF NumBytes

LEMMA WordMod ==
  /\ \A a \in Addresses : a % NumBytes = a
  /\ NumBytes % NumBytes = 0
<1> HIDE DEF NumBytes
<1> QED
  BY WordPositive DEF Addresses

\* Every page between those of two addresses is the page of an address between.
LEMMA PageBetween ==
  ASSUME NEW a \in Nat, NEW b \in Nat, a <= b, NEW p \in PageOf(a)..PageOf(b)
  PROVE  \E e \in a..b : PageOf(e) = p
<1>1. /\ PageOf(a) \in Nat /\ PageOf(b) \in Nat /\ p \in Nat
      /\ PageSize * PageOf(b) <= b
  BY PageBounds
<1>2. CASE p = PageOf(a)
  BY <1>2
<1>3. CASE p > PageOf(a)
  <2>1. PageSize * p \in Nat /\ PageOf(PageSize * p) = p
    BY <1>1, PageStart
  <2>2. PageSize * p <= PageSize * PageOf(b)
    BY <1>1, UserCopyAssumption
  <2>3. a < PageSize * PageOf(a) + PageSize
    BY PageBounds
  <2>4. PageSize * PageOf(a) + PageSize <= PageSize * p
    <3>1. PageOf(a) + 1 <= p
      BY <1>1, <1>3
    <3>2. PageSize * (PageOf(a) + 1) <= PageSize * p
      BY <1>1, <3>1, UserCopyAssumption
    <3> QED
      BY <1>1, <3>2, UserCopyAssumption
  <2>5. PageSize * PageOf(a) \in Nat /\ PageSize * PageOf(b) \in Nat /\ PageSize \in Nat
    BY <1>1, UserCopyAssumption
  <2>6. a <= PageSize * p /\ PageSize * p <= b
    BY <1>1, <2>1, <2>2, <2>3, <2>4, <2>5
  <2> QED
    BY <2>1, <2>6
<1> QED
  BY <1>1, <1>2, <1>3

\* The loop over the pages of a range that does not wrap sees the page of every
\* byte and no other.
LEMMA PagesOfRange ==
  ASSUME NEW ptr \in Addresses, NEW n \in Addresses, n # 0, ~RangeWraps(ptr, n)
  PROVE  /\ \A k \in 0..(n - 1) : ptr + k \in Addresses
         /\ PagesOf(ptr, n) = {PageOf(ptr + k) : k \in 0..(n - 1)}
<1> DEFINE final == ptr + n - 1
<1>1. /\ ptr \in Nat /\ n \in Nat /\ final \in Nat /\ ptr <= final
      /\ final \in Addresses /\ \A k \in 0..(n - 1) : ptr + k \in Addresses
  <2> HIDE DEF NumBytes
  <2> QED
    BY WordPositive DEF Addresses, RangeWraps, LastAddress
<1>2. final % NumBytes = final
  BY <1>1, WordMod
<1>3. PageOf(ptr) \in Nat /\ PageOf(final) \in Nat /\ PageOf(ptr) <= PageOf(final)
  BY <1>1, PageBounds, PageMonotone
<1>4. PagesOf(ptr, n) = PageOf(ptr)..PageOf(final)
  <2>1. PagesOf(ptr, n) = IF PageOf(ptr) >= PageOf(final) THEN {PageOf(ptr)}
                          ELSE PageOf(ptr)..PageOf(final)
    BY <1>2, ZenonT(60) DEF PagesOf
  <2>2. PageOf(ptr) >= PageOf(final) => PageOf(ptr)..PageOf(final) = {PageOf(ptr)}
    BY <1>3
  <2> QED
    BY <2>1, <2>2, ZenonT(60)
<1>5. ASSUME NEW p \in PageOf(ptr)..PageOf(final)
      PROVE  \E k \in 0..(n - 1) : PageOf(ptr + k) = p
  <2>1. PICK e \in ptr..final : PageOf(e) = p
    BY <1>1, PageBetween
  <2>2. e - ptr \in 0..(n - 1) /\ ptr + (e - ptr) = e
    BY <1>1
  <2> QED
    BY <2>1, <2>2
<1>6. ASSUME NEW k \in 0..(n - 1)
      PROVE  PageOf(ptr + k) \in PageOf(ptr)..PageOf(final)
  <2>1. ptr + k \in Nat /\ ptr <= ptr + k /\ ptr + k <= final
    BY <1>1
  <2>2. PageOf(ptr + k) \in Nat /\ PageOf(ptr) <= PageOf(ptr + k) /\ PageOf(ptr + k) <= PageOf(final)
    BY <1>1, <2>1, PageBounds, PageMonotone
  <2> QED
    BY <1>3, <2>2
<1> HIDE DEF final
<1>7. PageOf(ptr)..PageOf(final) = {PageOf(ptr + k) : k \in 0..(n - 1)}
  BY <1>5, <1>6, ZenonT(60)
<1> QED
  BY <1>1, <1>4, <1>7, ZenonT(60)

\* The range check, for any pointer and size: one that wraps has a byte past the
\* end, one that does not has the pages of its bytes.
LEMMA CheckExact ==
  ASSUME pages \in [0..(NumPages - 1) -> {"none", "kernel", "user"}], user_only \in BOOLEAN,
         NEW ptr \in Addresses, NEW n \in Addresses
  PROVE  ptr_range_ok(ptr, n) <=> n > 0 /\ \A k \in 0..(n - 1) : Allowed(ptr + k)
<1>0. ptr \in Nat /\ n \in Nat
  BY DEF Addresses
<1>1. CASE n = 0
  BY <1>1 DEF ptr_range_ok, ptr_range_mapped
<1>2. CASE n # 0 /\ RangeWraps(ptr, n)
  <2>1. n - 1 \in 0..(n - 1) /\ ptr + (n - 1) \notin Addresses
    <3> HIDE DEF NumBytes
    <3> QED
      BY <1>0, <1>2, WordPositive DEF RangeWraps, LastAddress, Addresses
  <2>2. ~Allowed(ptr + (n - 1))
    BY <2>1 DEF Allowed
  <2>3. ~ptr_range_ok(ptr, n)
    BY <1>2 DEF ptr_range_ok, ptr_range_mapped
  <2> QED
    BY <2>1, <2>2, <2>3
<1>3. CASE n # 0 /\ ~RangeWraps(ptr, n)
  <2>1. /\ \A k \in 0..(n - 1) : ptr + k \in Addresses
        /\ PagesOf(ptr, n) = {PageOf(ptr + k) : k \in 0..(n - 1)}
    BY <1>3, PagesOfRange
  <2>2. \A k \in 0..(n - 1) :
          pages[PageOf(ptr + k)] \in {"none", "kernel", "user"}
    <3> SUFFICES ASSUME NEW k \in 0..(n - 1)
                 PROVE  PageOf(ptr + k) \in 0..(NumPages - 1)
      OBVIOUS
    <3>1. ptr + k \in Addresses
      BY <2>1
    <3> QED
      BY <3>1, UserCopyAssumption DEF Addresses, NumBytes, PageOf
  <2>3. 0 \in 0..(n - 1) /\ n > 0 /\ ptr + 0 = ptr
    BY <1>0, <1>3
  <2>4. \A k \in 0..(n - 1) : ptr # 0 => ptr + k # 0
    BY <1>0
  <2>5. ptr_range_ok(ptr, n) <=>
          /\ ptr # 0
          /\ \A k \in 0..(n - 1) : pages[PageOf(ptr + k)] # "none"
          /\ user_only => \A k \in 0..(n - 1) : pages[PageOf(ptr + k)] = "user"
    BY <1>3, <2>1 DEF ptr_range_ok, ptr_range_mapped, paging_user_accessible
  <2>6. \A k \in 0..(n - 1) : Allowed(ptr + k) <=>
          /\ ptr + k # 0
          /\ pages[PageOf(ptr + k)] # "none"
          /\ user_only => pages[PageOf(ptr + k)] = "user"
    BY <2>1, <2>2 DEF Allowed
  <2> QED
    BY <2>3, <2>4, <2>5, <2>6
<1> QED
  BY <1>1, <1>2, <1>3

Inputs ==
  /\ pages \in [0..(NumPages - 1) -> {"none", "kernel", "user"}]
  /\ nul \in 0..NumBytes
  /\ src \in Addresses /\ size \in Addresses
  /\ user_only \in BOOLEAN

\* The bytes before the index are the caller's and hold no terminator.
Passed == \A k \in 0..(copied - 1) : Allowed(src + k) /\ src + k # nul

CopyIInv == Inputs /\ copied \in 0..(DstSize - 1) /\ (copy_at = "loop" => Passed) /\ ReadsAllowed /\ CopyExact

\* The byte copy_in_string looks at is src + copied, or address 0 one past the end.
LEMMA AtIsNext ==
  ASSUME CopyIInv, copy_at = "loop"
  PROVE  /\ At \in Addresses
         /\ src + copied \in Addresses => At = src + copied
         /\ src + copied \notin Addresses => At = 0
<1>1. src \in Addresses /\ copied \in Nat /\ Passed
  BY UserCopyAssumption DEF CopyIInv, Inputs
<1>2. copied > 0 => src + (copied - 1) \in Addresses
  BY <1>1 DEF Passed, Allowed
<1>3. src + copied \in 0..NumBytes
  <2> HIDE DEF NumBytes
  <2> QED
    BY <1>1, <1>2, WordPositive DEF Addresses
<1>4. src + copied \notin Addresses => src + copied = NumBytes
  <2> HIDE DEF NumBytes
  <2> QED
    BY <1>3, WordPositive DEF Addresses
<1>5. 0 \in Addresses
  <2> HIDE DEF NumBytes
  <2> QED
    BY WordPositive DEF Addresses
<1> HIDE DEF NumBytes
<1> QED
  BY <1>4, <1>5, WordMod DEF At

\* The check of one byte.
LEMMA ByteCheck ==
  ASSUME Inputs, NEW a \in Addresses
  PROVE  ptr_range_ok(a, 1) <=> Allowed(a)
<1>1. 1 \in Addresses
  <2> HIDE DEF NumBytes
  <2> QED
    BY WordPositive DEF Addresses
<1>2. ptr_range_ok(a, 1) <=> 1 > 0 /\ \A k \in 0..(1 - 1) : Allowed(a + k)
  BY <1>1, CheckExact DEF Inputs
<1>3. a + 0 = a /\ 0..(1 - 1) = {0}
  BY DEF Addresses
<1> QED
  BY <1>2, <1>3

\* The string of the caller lies in its memory and fits the buffer.
CopyFits == \E n \in 0..(DstSize - 1) : src + n = nul /\ \A k \in 0..n : Allowed(src + k)

\* Whether the string fits does not depend on how far the copy is.
LEMMA FitsUnchanged ==
  ASSUME UNCHANGED <<pages, nul, src, size, user_only>>
  PROVE  (CopyFits' <=> CopyFits) /\ (Inputs <=> Inputs') /\ \A a : Allowed(a)' <=> Allowed(a)
  BY DEF CopyFits, Allowed, Inputs

LEMMA CopyInitIInv == CopyInit => CopyIInv
<1> SUFFICES ASSUME CopyInit PROVE CopyIInv
  OBVIOUS
<1>1. Inputs /\ copied = 0 /\ copy_at = "loop" /\ reads = {}
  BY DEF CopyInit, Inputs
<1>2. copied \in 0..(DstSize - 1)
  BY <1>1, UserCopyAssumption
<1> QED
  BY <1>1, <1>2 DEF CopyIInv, Passed, ReadsAllowed, CopyExact

\* A byte that is refused: the string, if it ended within the buffer, would have
\* to include it.
LEMMA RefuseKeepsIInv ==
  ASSUME CopyIInv, Refuse, UNCHANGED <<pages, nul, src, size, user_only>>
  PROVE  CopyIInv'
<1>1. Inputs /\ copy_at = "loop" /\ Passed /\ copied \in 0..(DstSize - 1) /\ copied \in Nat /\ src \in Nat
  BY UserCopyAssumption DEF CopyIInv, Refuse, Inputs, Addresses
<1>2. ~Allowed(At) /\ At \in Addresses
  BY <1>1, AtIsNext, ByteCheck DEF Refuse
<1>3. ~Allowed(src + copied)
  <2>1. CASE src + copied \in Addresses
    BY <1>1, <1>2, <2>1, AtIsNext
  <2>2. CASE src + copied \notin Addresses
    BY <2>2 DEF Allowed
  <2> QED
    BY <2>1, <2>2
<1>4. ~CopyFits
  <2> SUFFICES ASSUME NEW n \in 0..(DstSize - 1), src + n = nul,
                      \A k \in 0..n : Allowed(src + k)
               PROVE  FALSE
    BY DEF CopyFits
  <2>1. n \in Nat
    BY UserCopyAssumption
  <2>2. n < copied
    BY <1>1, <1>3, <2>1
  <2>3. n \in 0..(copied - 1)
    BY <1>1, <2>1, <2>2
  <2> QED
    BY <1>1, <2>3 DEF Passed
<1>5. ~CopyFits' /\ copy_at' = "done" /\ result' = LastAddress /\ copied' = copied /\ reads' = reads
  BY <1>4, FitsUnchanged DEF Refuse, Fail
<1>6. CopyExact'
  BY <1>5 DEF CopyExact, CopyFits, LastAddress
<1>7. ReadsAllowed'
  BY <1>5, FitsUnchanged DEF CopyIInv, ReadsAllowed, Allowed
<1> QED
  BY <1>1, <1>5, <1>6, <1>7, FitsUnchanged DEF CopyIInv

\* The byte that is read was checked.
LEMMA ReadKeepsAllowed ==
  ASSUME CopyIInv, copy_at = "loop", ptr_range_ok(At, 1), reads' = reads \cup {At},
         UNCHANGED <<pages, nul, src, size, user_only>>
  PROVE  ReadsAllowed' /\ At = src + copied /\ Allowed(src + copied)
<1>1. At \in Addresses /\ Allowed(At)
  BY AtIsNext, ByteCheck DEF CopyIInv
<1>2. At # 0
  BY <1>1 DEF Allowed
<1>3. At = src + copied
  BY <1>2, AtIsNext
<1>4. \A a \in reads' : Allowed(a)
  BY <1>1 DEF CopyIInv, ReadsAllowed
<1>5. ReadsAllowed'
  BY <1>4 DEF ReadsAllowed, Allowed
<1> QED
  BY <1>1, <1>3, <1>5

LEMMA TerminatorKeepsIInv ==
  ASSUME CopyIInv, Terminator, UNCHANGED <<pages, nul, src, size, user_only>>
  PROVE  CopyIInv'
<1>1. Inputs /\ copy_at = "loop" /\ Passed /\ copied \in 0..(DstSize - 1) /\ copied \in Nat /\ src \in Nat
  BY UserCopyAssumption DEF CopyIInv, Terminator, Inputs, Addresses
<1>2. ReadsAllowed' /\ At = src + copied /\ Allowed(src + copied)
  BY ReadKeepsAllowed DEF Terminator
<1>3. src + copied = nul /\ result' = copied /\ copy_at' = "done" /\ copied' = copied
  BY <1>2 DEF Terminator
<1>4. CopyFits
  <2>1. \A k \in 0..copied : Allowed(src + k)
    BY <1>1, <1>2 DEF Passed
  <2> QED
    BY <1>1, <1>3, <2>1 DEF CopyFits
<1>5. result' = nul - src
  BY <1>1, <1>3
<1>6. CopyFits' /\ result' = nul' - src'
  BY <1>4, <1>5, FitsUnchanged
<1>7. CopyExact'
  BY <1>6 DEF CopyExact, CopyFits
<1> QED
  BY <1>1, <1>2, <1>3, <1>7, FitsUnchanged DEF CopyIInv

\* At the final byte of the buffer there is no room left for the terminator.
LEMMA CharacterKeepsIInv ==
  ASSUME CopyIInv, Character, UNCHANGED <<pages, nul, src, size, user_only>>
  PROVE  CopyIInv'
<1>1. /\ Inputs /\ copy_at = "loop" /\ Passed /\ copied \in 0..(DstSize - 1) /\ copied \in Nat /\ src \in Nat
      /\ DstSize \in Nat
  BY UserCopyAssumption DEF CopyIInv, Character, Inputs, Addresses
<1>2. ReadsAllowed' /\ At = src + copied /\ Allowed(src + copied) /\ src + copied # nul
  BY ReadKeepsAllowed DEF Character
<1>3. \A k \in 0..copied : Allowed(src + k) /\ src + k # nul
  BY <1>1, <1>2 DEF Passed
<1>4. CASE LastByte
  <2>1. copied' = copied /\ result' = LastAddress /\ copy_at' = "done" /\ copied + 1 = DstSize
    BY <1>4 DEF Character, Fail, LastByte
  <2>2. ~CopyFits
    BY <1>1, <1>3, <2>1 DEF CopyFits
  <2>3. ~CopyFits'
    BY <2>2, FitsUnchanged
  <2>4. CopyExact'
    BY <2>1, <2>3 DEF CopyExact, CopyFits, LastAddress
  <2> QED
    BY <1>1, <1>2, <2>1, <2>4, FitsUnchanged DEF CopyIInv
<1>5. CASE ~LastByte
  <2>1. copied' = copied + 1 /\ copy_at' = "loop" /\ copied + 1 # DstSize
    BY <1>1, <1>5 DEF Character, LastByte
  <2>2. copied' \in 0..(DstSize - 1)
    BY <1>1, <2>1
  <2>3. \A k \in 0..(copied' - 1) : Allowed(src + k) /\ src + k # nul
    BY <1>1, <1>3, <2>1
  <2>4. Passed'
    BY <2>3 DEF Passed, Allowed
  <2>5. CopyExact'
    BY <2>1 DEF CopyExact
  <2> QED
    BY <1>1, <1>2, <2>2, <2>4, <2>5, FitsUnchanged DEF CopyIInv
<1> QED
  BY <1>4, <1>5

LEMMA CopyStep == CopyIInv /\ [CopyNext]_copyVars => CopyIInv'
<1> SUFFICES ASSUME CopyIInv, [CopyNext]_copyVars PROVE CopyIInv'
  OBVIOUS
<1>1. CASE UNCHANGED copyVars
  BY <1>1 DEF copyVars, CopyIInv, Inputs, Passed, ReadsAllowed, CopyExact, Allowed
<1>2. CASE CopyNext
  BY <1>2, RefuseKeepsIInv, TerminatorKeepsIInv, CharacterKeepsIInv DEF CopyNext
<1> QED
  BY <1>1, <1>2

LEMMA UserCopyInvariant == CopySpec => []CopyIInv
  BY CopyInitIInv, CopyStep, PTL DEF CopySpec

\* The range check of syscall.c accepts exactly the ranges every byte of which the
\* caller may use, for every page size and every mapping.
THEOREM UserCopyRangeExact == CopySpec => []RangeExact
<1>1. CopyIInv => RangeExact
  <2> SUFFICES ASSUME CopyIInv PROVE RangeExact
    OBVIOUS
  <2> QED
    BY CheckExact DEF CopyIInv, Inputs, RangeExact
<1> QED
  BY <1>1, UserCopyInvariant, PTL

\* copy_in_string reads no byte the caller may not use.
THEOREM UserCopyReadsAllowed == CopySpec => []ReadsAllowed
<1>1. CopyIInv => ReadsAllowed
  BY DEF CopyIInv
<1> QED
  BY <1>1, UserCopyInvariant, PTL

\* copy_in_string returns the length of a string that is the caller's and fits,
\* and fails on every other.
THEOREM UserCopyExact == CopySpec => []CopyExact
<1>1. CopyIInv => CopyExact
  BY DEF CopyIInv
<1> QED
  BY <1>1, UserCopyInvariant, PTL

-----------------------------------------------------------------------------
(***************************************************************************)
(* The shell's number parsers are exact for every word size and base.      *)
(***************************************************************************)

ParseIInv ==
  /\ base \in Bases /\ value \in 0..UINT32_MAX
  /\ parse_at \in {"loop", "accepted", "rejected"}
  /\ ValueExact /\ RejectedTooLarge

\* The first test lets a value pass exactly if its product with the base is a
\* word.
LEMMA ProductBound ==
  ASSUME NEW w \in Nat, NEW b \in Nat, b > 0, NEW v \in Nat, v <= w \div b
  PROVE  v * b <= w
<1>1. b * (w \div b) <= w
  OBVIOUS
<1>2. v * b <= b * (w \div b)
  OBVIOUS
<1> QED
  BY <1>1, <1>2

LEMMA ProductTooLarge ==
  ASSUME NEW w \in Nat, NEW b \in Nat, b > 0, NEW v \in Nat, ~(v <= w \div b)
  PROVE  v * b > w
<1>1. (w \div b) \in Nat /\ b * ((w \div b) + 1) > w
  OBVIOUS
<1>2. v * b >= b * ((w \div b) + 1)
  BY <1>1
<1> QED
  BY <1>1, <1>2

\* A digit passes both tests exactly if the number it completes is a word, and
\* the value is then that number.
LEMMA FitsExact ==
  ASSUME base \in Bases, value \in 0..UINT32_MAX, NEW d \in 0..(base - 1)
  PROVE  /\ Fits(d) => Times(d) = value * base + d /\ Times(d) \in 0..UINT32_MAX
         /\ ~Fits(d) => value * base + d > UINT32_MAX
<1>1. /\ Word \in Nat /\ UINT32_MAX \in Nat /\ base \in Nat /\ base > 1 /\ base <= Word
      /\ value \in Nat /\ d \in Nat /\ d < base
  BY ParseAssumption DEF UINT32_MAX
<1> DEFINE x == value * base
<1>2. x \in Nat
  BY <1>1
<1>3. CASE value <= UINT32_MAX \div base
  <2>1. x <= UINT32_MAX
    BY <1>1, <1>3, ProductBound
  <2>2. Times(d) = IF x + d < Word THEN x + d ELSE x + d - Word
    BY <1>1, <1>2 DEF Times, Wrap
  <2> HIDE DEF x
  <2>3. Fits(d) <=> Times(d) >= d
    BY <1>3 DEF Fits
  <2>4. Times(d) >= d <=> x + d <= UINT32_MAX
    BY <1>1, <1>2, <2>1, <2>2 DEF UINT32_MAX
  <2>5. Fits(d) => Times(d) = x + d /\ Times(d) \in 0..UINT32_MAX
    BY <1>1, <1>2, <2>2, <2>3, <2>4 DEF UINT32_MAX
  <2>6. ~Fits(d) => x + d > UINT32_MAX
    BY <1>1, <1>2, <2>3, <2>4
  <2> QED
    BY <2>5, <2>6 DEF x
<1>4. CASE ~(value <= UINT32_MAX \div base)
  <2>1. x > UINT32_MAX
    BY <1>1, <1>4, ProductTooLarge
  <2>2. ~Fits(d)
    BY <1>4 DEF Fits
  <2> QED
    BY <1>1, <1>2, <2>1, <2>2
<1> QED
  BY <1>3, <1>4

\* The initial states satisfy the invariant, and every step keeps it.
LEMMA ParseInitIInv == ParseInit => ParseIInv
  BY ParseAssumption DEF ParseInit, ParseIInv, ValueExact, RejectedTooLarge, UINT32_MAX

LEMMA ParseStep == ParseIInv /\ [ParseNext]_parseVars => ParseIInv'
<1> SUFFICES ASSUME ParseIInv, [ParseNext]_parseVars PROVE ParseIInv'
  OBVIOUS
<1>1. ASSUME NEW d \in Digits, Digit(d) PROVE ParseIInv'
  <2>1. d \in 0..(base - 1) /\ Fits(d) /\ parse_at = "loop" /\ base \in Bases /\ value \in 0..UINT32_MAX
    BY <1>1 DEF Digit, ParseIInv
  <2>2. Times(d) = value * base + d /\ Times(d) \in 0..UINT32_MAX
    BY <2>1, FitsExact
  <2>3. exact = value
    BY <2>1 DEF ParseIInv, ValueExact
  <2>4. value' = Times(d) /\ exact' = exact * base + d /\ base' = base /\ parse_at' = parse_at
    BY <1>1 DEF Digit
  <2>5. exact' = value * base + d
    BY <2>3, <2>4
  <2> QED
    BY <2>1, <2>2, <2>4, <2>5 DEF ParseIInv, ValueExact, RejectedTooLarge, UINT32_MAX
<1>2. ASSUME NEW d \in Digits \cup {NotADigit}, Reject(d) PROVE ParseIInv'
  <2>1. /\ parse_at = "loop" /\ base \in Bases /\ value \in 0..UINT32_MAX
        /\ parse_at' = "rejected" /\ base' = base /\ value' = value
    BY <1>2 DEF Reject, ParseIInv
  <2>2. CASE d \in 0..(base - 1)
    <3>1. ~Fits(d) /\ exact' = exact * base + d
      BY <1>2, <2>2 DEF Reject
    <3>2. value * base + d > UINT32_MAX
      BY <2>1, <2>2, <3>1, FitsExact
    <3>3. exact = value
      BY <2>1 DEF ParseIInv, ValueExact
    <3>4. exact' > UINT32_MAX
      BY <3>1, <3>2, <3>3
    <3> QED
      BY <2>1, <3>4 DEF ParseIInv, ValueExact, RejectedTooLarge, UINT32_MAX
  <2>3. CASE d \notin 0..(base - 1)
    <3>1. exact' = NotADigit
      BY <1>2, <2>3 DEF Reject
    <3> QED
      BY <2>1, <3>1 DEF ParseIInv, ValueExact, RejectedTooLarge, UINT32_MAX, NotADigit
  <2> QED
    BY <2>2, <2>3
<1>3. CASE ParseEnd
  BY <1>3 DEF ParseEnd, ParseIInv, ValueExact, RejectedTooLarge, UINT32_MAX, NotADigit
<1>4. CASE UNCHANGED parseVars
  BY <1>4 DEF parseVars, ParseIInv, ValueExact, RejectedTooLarge, UINT32_MAX, NotADigit
<1> QED
  BY <1>1, <1>2, <1>3, <1>4 DEF ParseNext

\* parse_u32 and parse_u32_auto return the number that was typed, never that
\* number modulo the word.
THEOREM ParseValueExact == ParseSpec => []ValueExact
<1>1. ParseIInv => ValueExact
  BY DEF ParseIInv
<1> QED
  BY <1>1, ParseInitIInv, ParseStep, PTL DEF ParseSpec

\* They reject nothing that is a number and fits into a word.
THEOREM ParseRejectsExactly == ParseSpec => []RejectedTooLarge
<1>1. ParseIInv => RejectedTooLarge
  BY DEF ParseIInv
<1> QED
  BY <1>1, ParseInitIInv, ParseStep, PTL DEF ParseSpec
=============================================================================
