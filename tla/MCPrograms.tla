----------------------------- MODULE MCPrograms -----------------------------
(***************************************************************************)
(* What the kernel takes from programs: the text and the image they are    *)
(* loaded from, the pointers they pass, the system calls they make. The    *)
(* four modules have no variable in common (Syscall is modelled over the   *)
(* abstract mailbox and file store), so a behaviour moves one of them, the *)
(* part, and leaves the others parked in an initial state.                 *)
(***************************************************************************)
EXTENDS Elf, UserCopy

VARIABLES part,
          own, alt, memory, p, image, text_pc, source, \* Loader
          procs, current, next_pid, pending, last, store, answer,
          user_ping_count, sends, spawns, ret          \* Syscall

Text == INSTANCE Loader WITH
  Base <- 2, ImageMax <- 2, CodeSize <- 1, MaxText <- 6, pc <- text_pc

Sys == INSTANCE Syscall WITH
  MaxProcs <- 2, PidTop <- 4, SignBit <- 3, Capacity <- 1, PingTop <- 2,
  MaxSends <- 2, MaxSpawns <- 3

ASSUME Text!LoaderAssumption
ASSUME Sys!SyscallAssumption

textVars == <<own, alt, memory, p, image, text_pc, source>>
sysVars == <<procs, current, next_pid, pending, last, store, answer,
             user_ping_count, sends, spawns, ret>>
mcVars == <<part, elfVars, copyVars, textVars, sysVars>>

ImageParked == image_len = 0 /\ fields = FALSE /\ e_phoff = 0 /\ e_phnum = 0 /\ e_entry = 0 /\ ElfInit
CopyParked ==
  /\ pages = [page \in 0..(NumPages - 1) |-> "user"]
  /\ nul = 0 /\ src = 0 /\ size = 0 /\ user_only = TRUE
  /\ CopyInit
TextParked == own = Text!NoFile /\ alt = Text!NoFile /\ memory = TRUE /\ Text!Init

MCInit ==
  /\ Sys!Init
  /\ \/ part = "image" /\ CopyParked /\ TextParked /\ ElfInit
     \/ part = "pointers" /\ ImageParked /\ TextParked /\ CopyInit
     \/ part = "text" /\ ImageParked /\ CopyParked /\ Text!Init
     \/ part = "calls" /\ ImageParked /\ CopyParked /\ TextParked

MCNext ==
  \/ part = "image" /\ ElfNext /\ UNCHANGED <<part, copyVars, textVars, sysVars>>
  \/ part = "pointers" /\ CopyNext /\ UNCHANGED <<part, elfVars, textVars, sysVars>>
  \/ part = "text" /\ Text!Next /\ UNCHANGED <<part, elfVars, copyVars, sysVars>>
  \/ part = "calls" /\ Sys!Next /\ UNCHANGED <<part, elfVars, copyVars, textVars>>

MCSpec == MCInit /\ [][MCNext]_mcVars
-----------------------------------------------------------------------------
(* The text of an image; parse_user_image_hex and its caller in process.c *)

\* A process runs the code of a file only if the whole file is well formed, and
\* then the bytes decoded are those the file says, within the image buffer;
\* process_build_user_image gives a file up only because of what the file holds.
FileDecides == Text!FileDecides
-----------------------------------------------------------------------------
(* The system calls; syscall.c *)

\* A message sent to a process is received by that process or by nobody until its
\* pid has come round, although process_reap leaves the message behind.
SameIncarnation == Sys!SameIncarnation

\* A call that reports failure has changed no file, message or process, and a user
\* process changes no file, starts no process and sends as itself.
CallsConfined == Sys!CallsConfined
=============================================================================
