------------------------------- MODULE Timer --------------------------------
(***************************************************************************)
(* The tick counter of kernel/timer.c, read word by word with interrupts   *)
(* off, and the sleep loops of kernel.c that poll it.                      *)
(*                                                                         *)
(* The counter is two words of Word values each. The handler adds one with *)
(* interrupts off; it can fall between any two instructions of a reader    *)
(* whose interrupts are on, also between the test that finds time left and *)
(* the hlt after it.                                                       *)
(***************************************************************************)
EXTENDS Words

CONSTANTS Hz,      \* timer_hz
          Milli,   \* 1000
          Asked,   \* the arguments of sleep and sleepms
          MaxLate  \* bound: ticks that arrive between a wake-up and the next hlt

ASSUME TimerAssumption ==
  /\ Word \in Nat /\ Word > 1
  /\ Hz \in 1..(Word - 1)
  /\ Milli \in 1..(Word - 1)
  /\ Asked \subseteq 0..(Word - 1)
  /\ MaxLate \in Nat

VARIABLES hi, lo,            \* the words of timer_ticks
          iflag,             \* the interrupt flag
          at,                \* where the reader is
          eflags, rhi, rlo,  \* locals of timer_read_ticks_atomic
          during,            \* the values of the counter since the call began
          job,               \* the command, its argument, the flag it began with
          start, wait_ticks, \* locals of the sleep loops; start is -1 before it is read
          slept,             \* ticks since start was read, up to MaxSlept
          late               \* ticks since the reader began or woke up

ticks == <<hi, lo>>
timerVars == <<hi, lo, iflag, at, eflags, rhi, rlo, during, job, start, wait_ticks, slept, late>>

MaxSlept == 2 * Word
Reading == {"call", "lo", "hi", "popf"}
Sleeping == job.cmd \in {"sleep", "sleepms"}

\* timer_init
TimerInit ==
  /\ hi = 0 /\ lo = 0
  /\ iflag = TRUE
  /\ at = "idle" /\ eflags = TRUE /\ rhi = 0 /\ rlo = 0 /\ during = {}
  /\ job = [cmd |-> "ticks", n |-> 0, flag |-> TRUE]
  /\ start = -1 /\ wait_ticks = 0
  /\ slept = 0 /\ late = 0
-----------------------------------------------------------------------------
Increment(w) == IF w = UINT32_MAX THEN 0 ELSE w + 1

\* timer_ticks++ with its carry; the interrupt ends a hlt.
timer_isr ==
  /\ iflag
  /\ at \in {"idle", "hlt"} \/ late < MaxLate
  /\ lo' = Increment(lo)
  /\ hi' = IF lo = UINT32_MAX THEN Increment(hi) ELSE hi
  /\ at' = IF at = "hlt" THEN "call" ELSE at
  /\ late' = IF at \in {"idle", "hlt"} THEN 0 ELSE late + 1
  /\ during' = CASE at = "hlt" -> {<<hi', lo'>>}
                 [] at \in Reading -> during \cup {<<hi', lo'>>}
                 [] OTHER -> during
  /\ slept' = IF Sleeping /\ at # "idle" /\ slept < MaxSlept THEN slept + 1 ELSE slept
  /\ UNCHANGED <<iflag, eflags, rhi, rlo, job, start, wait_ticks>>
-----------------------------------------------------------------------------
(* The reader *)

\* A task runs with interrupts off after a user page fault; a sleep would then
\* never end (see HaltsAwake in Process), so sleeps begin with interrupts on.
Switch ==
  /\ at = "idle"
  /\ iflag' = ~iflag
  /\ UNCHANGED <<hi, lo, at, eflags, rhi, rlo, during, job, start, wait_ticks, slept, late>>

Begin(cmd, n) ==
  /\ at = "idle"
  /\ cmd # "ticks" => iflag
  /\ job' = [cmd |-> cmd, n |-> n, flag |-> iflag]
  /\ at' = "call" /\ during' = {ticks} /\ late' = 0
  /\ UNCHANGED <<hi, lo, iflag, eflags, rhi, rlo, start, wait_ticks, slept>>

\* pushfl; popl eflags; cli
MaskedFlag_Kept == iflag
MaskedFlag == FALSE

Cli ==
  /\ at = "call"
  /\ eflags' = iflag /\ iflag' = MaskedFlag
  /\ at' = "lo"
  /\ UNCHANGED <<hi, lo, rhi, rlo, during, job, start, wait_ticks, slept, late>>

ReadLo ==
  /\ at = "lo"
  /\ rlo' = lo
  /\ slept' = IF start = -1 THEN 0 ELSE slept
  /\ at' = "hi"
  /\ UNCHANGED <<hi, lo, iflag, eflags, rhi, during, job, start, wait_ticks, late>>

ReadHi ==
  /\ at = "hi"
  /\ rhi' = hi
  /\ at' = "popf"
  /\ UNCHANGED <<hi, lo, iflag, eflags, rlo, during, job, start, wait_ticks, slept, late>>

\* pushl eflags; popfl
RestoredFlag == eflags

Popf ==
  /\ at = "popf"
  /\ iflag' = RestoredFlag
  /\ at' = "returned"
  /\ UNCHANGED <<hi, lo, eflags, rhi, rlo, during, job, start, wait_ticks, slept, late>>

\* timer_get_ticks, the ticks command and system call 0: the value is used once.
EndRead ==
  /\ at = "returned" /\ ~Sleeping
  /\ at' = "idle" /\ during' = {}
  /\ UNCHANGED <<hi, lo, iflag, eflags, rhi, rlo, job, start, wait_ticks, slept, late>>
-----------------------------------------------------------------------------
(* sleep_seconds and sleep_milliseconds *)

SecondsToTicks_Wraps(n) == (n * Hz) % Word
SecondsToTicks(n) == IF n > UINT32_MAX \div Hz THEN UINT32_MAX ELSE n * Hz

MillisecondsToTicks(n) ==
  LET t == IF n > UINT32_MAX \div Hz THEN UINT32_MAX \div Milli ELSE (n * Hz) \div Milli
  IN  IF t = 0 /\ n > 0 THEN 1 ELSE t

\* The first read sets start; the loop begins with another.
SleepStart ==
  /\ at = "returned" /\ Sleeping /\ start = -1
  /\ start' = rlo
  /\ wait_ticks' = IF job.cmd = "sleep" THEN SecondsToTicks(job.n) ELSE MillisecondsToTicks(job.n)
  /\ at' = "call" /\ during' = {ticks}
  /\ UNCHANGED <<hi, lo, iflag, eflags, rhi, rlo, job, slept, late>>

\* timer_get_ticks32() - start, in 32 bits
Elapsed_NoWrap == rlo - start
Elapsed == (rlo - start) % Word

SleepTest ==
  /\ at = "returned" /\ Sleeping /\ start # -1
  /\ Elapsed < wait_ticks
  /\ at' = "halt"
  /\ UNCHANGED <<hi, lo, iflag, eflags, rhi, rlo, during, job, start, wait_ticks, slept, late>>

SleepHalt ==
  /\ at = "halt"
  /\ at' = "hlt"
  /\ UNCHANGED <<hi, lo, iflag, eflags, rhi, rlo, during, job, start, wait_ticks, slept, late>>

SleepEnd ==
  /\ at = "returned" /\ Sleeping /\ start # -1
  /\ Elapsed >= wait_ticks
  /\ at' = "idle" /\ during' = {}
  /\ start' = -1 /\ wait_ticks' = 0 /\ slept' = 0
  /\ UNCHANGED <<hi, lo, iflag, eflags, rhi, rlo, job, late>>

Reader == Cli \/ ReadLo \/ ReadHi \/ Popf \/ EndRead \/ SleepStart \/ SleepTest \/ SleepHalt \/ SleepEnd

TimerNext ==
  \/ timer_isr
  \/ Switch
  \/ Begin("ticks", 0)
  \/ \E n \in Asked : Begin("sleep", n) \/ Begin("sleepms", n)
  \/ Reader

TimerSpec == TimerInit /\ [][TimerNext]_timerVars

\* The CPU executes the reader, and the timer keeps interrupting a hlt.
TimerFairSpec == TimerSpec /\ WF_timerVars(Reader) /\ WF_timerVars(timer_isr)
-----------------------------------------------------------------------------
\* The 64 bits a reader returns are a value the counter had during the call: no
\* tick, and above all none that carries into the high word, falls between the
\* reads of the two words.
Untorn == at = "returned" => <<rhi, rlo>> \in during

\* A read leaves the interrupt flag as its caller had it, on or off.
FlagRestored == at \in {"returned", "halt", "hlt"} => iflag = job.flag

\* What the user asks for in ticks, in exact arithmetic up to the 32-bit limit.
AtMost(x) == IF x < UINT32_MAX THEN x ELSE UINT32_MAX
Due == IF job.cmd = "sleep" THEN AtMost(job.n * Hz)
       ELSE IF job.n = 0 THEN 0
       ELSE IF AtMost(job.n * Hz) < Milli THEN 1
       ELSE AtMost(job.n * Hz) \div Milli

\* The largest waits end only if the loop samples one of the few values between
\* start + wait_ticks and the wrap; the others are not missed by a tick that
\* arrives before the hlt.
Samplable == Due + 2 * MaxLate < Word

\* A sleep lasts for at least the ticks it was asked for, also when the low word of
\* the counter wraps while it sleeps and when the product overflows 32 bits, and it
\* is longer by no more than the ticks that arrive while the loop itself executes.
SleepLength ==
  [][at = "returned" /\ start # -1 /\ at' = "idle" =>
       slept >= Due /\ (Samplable => slept <= Due + 2 * MaxLate)]_timerVars

\* A sleep ends.
SleepEnds == (at # "idle" /\ Samplable) ~> at = "idle"
=============================================================================
