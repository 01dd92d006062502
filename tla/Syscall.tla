------------------------------ MODULE Syscall -------------------------------
(***************************************************************************)
(* System calls, kernel/syscall.c, with the process table they look up     *)
(* their caller in and the parts they act on: the mailbox, the files and   *)
(* exec.c.  Mailbox and FileStore are the abstract specifications that Ipc *)
(* and Vfs implement.                                                      *)
(*                                                                         *)
(* A tick only sets preempt_pending, and no call but exit switches, so a   *)
(* call is one step. What UserCopy shows of the pointer checks is the    *)
(* input here: a string argument is bad, empty or good, an output buffer   *)
(* is bad, has room for the terminator only, or for text too.              *)
(***************************************************************************)
EXTENDS Integers, FiniteSets

CONSTANTS MaxProcs,  \* PROCESS_MAX; entry 0 is the kernel's
          PidTop,    \* 2^32: pids are 2..PidTop-1
          SignBit,   \* 2^31
          Capacity,  \* IPC_MAX_MESSAGES
          PingTop,   \* 2^32 again, for user_ping_count
          MaxSends, MaxSpawns \* bounds: messages and processes there are in all

SyscallAssumption ==
  /\ MaxProcs \in Nat \ {0}
  /\ PidTop \in Nat /\ PidTop > MaxProcs + 1
  /\ SignBit \in 2..PidTop
  /\ Capacity \in Nat \ {0} /\ PingTop \in Nat \ {0}
  /\ MaxSends \in Nat /\ MaxSpawns \in Nat

VARIABLES procs,    \* process_table: pid 0 is an entry that is not active
          current,  \* the entry of the running task; one without an entry makes no call
          next_pid,
          pending, last,    \* the mailbox
          store, answer,    \* the files
          user_ping_count,
          sends, spawns,
          ret       \* the last call: number and what it returned

table == <<procs, current, next_pid, spawns>>
vars == <<table, pending, last, sends, store, answer, user_ping_count, ret>>

Slots == 0..(MaxProcs - 1)
Pids == 0..(PidTop - 1)
Quiet == [no |-> -1, val |-> "none"]
Free == [pid |-> 0, kernel |-> FALSE, ended |-> FALSE, born |-> 0]
File == <<1>>
NoData == [id |-> 0, len |-> -1]
Data == [id |-> 1, len |-> 1]

\* aim is the incarnation the sender means: the process that has the pid then.
Messages == [id : 1..MaxSends, from : Pids, to : Pids, aim : 0..MaxSpawns]

Box == INSTANCE Mailbox
Disk == INSTANCE FileStore
  WITH Capacity <- 1, Names <- {File, <<>>}, ValidNames <- {File}, Contents <- {Data}, Sizes <- {1, 2}

\* process_init
Init ==
  /\ procs = [i \in Slots |-> IF i = 0 THEN [Free EXCEPT !.pid = 1, !.kernel = TRUE] ELSE Free]
  /\ current = 0 /\ next_pid = 2
  /\ Box!Init /\ Disk!Init
  /\ user_ping_count = 0 /\ sends = 0 /\ spawns = 0
  /\ ret = Quiet
-----------------------------------------------------------------------------
(* What a call looks up about its caller *)

process_current_pid == procs[current].pid

\* PROCESS_SYSCALL_MASK_USER leaves out the calls that write files and spawn.
\* 20 stands for the numbers no call has, 32 for those beyond the mask.
Numbers == 0..20 \cup {32}
UserMask == (0..19) \ {8, 12}
KernelMask == 0..31

process_syscall_allowed(no) ==
  no \in (IF procs[current].kernel THEN KernelMask ELSE UserMask)

Returns(no, val) == ret' = [no |-> no, val |-> val]

\* The mailbox and the files when the step is no call to them.
NoMail == UNCHANGED <<pending, sends>> /\ last' = Box!Outcome("none", 0, Box!NoMessage)
NoFile == UNCHANGED store /\ answer' = Disk!Answer("none", <<>>, NoData)

Denied(no) ==
  /\ ~process_syscall_allowed(no)
  /\ Returns(no, "denied")
  /\ UNCHANGED <<table, user_ping_count>> /\ NoMail /\ NoFile
-----------------------------------------------------------------------------
(* Files: system calls 7 and 8 *)

Strings == {"bad", "empty", "good"}
Buffers == {"bad", "one", "many"}
SizeOf(out) == IF out = "one" THEN 1 ELSE 2

VfsRead(name, out) ==
  /\ process_syscall_allowed(7)
  /\ \/ /\ name # "good" \/ out = "bad"
        /\ Returns(7, "error") /\ NoFile
     \/ /\ name = "good" /\ out # "bad"
        /\ Disk!Read(File, SizeOf(out))
        /\ Returns(7, IF out = "one" THEN "zero" ELSE "value")
     \/ /\ name = "good" /\ out # "bad"
        /\ Disk!Missing(File)
        /\ Returns(7, "error")
  /\ UNCHANGED <<table, user_ping_count>> /\ NoMail

VfsWrite(name, data) ==
  /\ process_syscall_allowed(8)
  /\ \/ /\ name # "good" \/ data = "bad"
        /\ Returns(8, "zero") /\ NoFile
     \/ /\ name = "good" /\ data # "bad"
        /\ Disk!Write(File, Data)
        /\ Returns(8, "value")
     \/ /\ name = "good" /\ data # "bad"
        /\ Disk!Refuse(File)
        /\ Returns(8, "zero")
  /\ UNCHANGED <<table, user_ping_count>> /\ NoMail
-----------------------------------------------------------------------------
(* Processes: system calls 12 and 19, and the process table behind them *)

Live == {i \in Slots : procs[i].pid # 0 /\ ~procs[i].ended}
InUse(pid) == \E i \in Slots : procs[i].pid = pid

\* The pid process_alloc_pid tries after p; 0 and 1 are skipped.
PidAfter(p) == IF p + 1 = PidTop THEN 2 ELSE p + 1

\* It returns the first pid from next_pid on that no process has.
process_alloc_pid_Lowest == CHOOSE p \in 2..(PidTop - 1) : ~InUse(p) /\ \A q \in 2..(p - 1) : InUse(q)
process_alloc_pid ==
  LET distance(p) == (p - next_pid) % (PidTop - 2)
      free == {p \in 2..(PidTop - 1) : ~InUse(p)}
  IN  CHOOSE p \in free : \A q \in free : distance(p) <= distance(q)

FreeSlots == {i \in Slots : procs[i].pid = 0}

process_spawn_common(kernel) ==
  LET i == CHOOSE x \in FreeSlots : \A y \in FreeSlots : x <= y
      pid == process_alloc_pid
  IN  /\ FreeSlots # {}
      /\ procs' = [procs EXCEPT ![i] = [pid |-> pid, kernel |-> kernel, ended |-> FALSE, born |-> spawns + 1]]
      /\ next_pid' = PidAfter(pid)
      /\ spawns' = spawns + 1

\* exec_spawn takes a pid with the top bit set for an error.
SpawnValue(pid) == IF pid >= SignBit THEN "error" ELSE "value"

ExecSpawn(name, kernel) ==
  /\ process_syscall_allowed(12)
  /\ \/ /\ name # "good"
        /\ Returns(12, "error")
        /\ UNCHANGED table
     \/ /\ name = "good" \* an unknown program, or process_spawn_common fails
        /\ Returns(12, "error")
        /\ UNCHANGED table
     \/ /\ name = "good" /\ spawns < MaxSpawns
        /\ process_spawn_common(kernel)
        /\ Returns(12, SpawnValue(process_alloc_pid))
        /\ UNCHANGED current
  /\ UNCHANGED user_ping_count /\ NoMail /\ NoFile

\* scheduler_exit_current; task 0 does not exit.
ProcessExit ==
  /\ process_syscall_allowed(19)
  /\ \/ current = 0 /\ UNCHANGED <<procs, current>>
     \/ /\ current # 0
        /\ procs' = [procs EXCEPT ![current].ended = TRUE]
        /\ current' \in Live \ {current}
  /\ Returns(19, "zero")
  /\ UNCHANGED <<next_pid, spawns, user_ping_count>> /\ NoMail /\ NoFile

\* scheduler_yield, which user code cannot call; Scheduler says whose turn it is.
Switch ==
  /\ procs[current].kernel
  /\ current' \in Live \ {current}
  /\ ret' = Quiet
  /\ UNCHANGED <<procs, next_pid, spawns, user_ping_count>> /\ NoMail /\ NoFile

\* The shell's loop calls it whenever it waits for a key.
process_reap ==
  /\ current = 0
  /\ \E i \in Slots : procs[i].ended
  /\ procs' = [i \in Slots |-> IF procs[i].ended THEN Free ELSE procs[i]]
  /\ ret' = Quiet
  /\ UNCHANGED <<current, next_pid, spawns, user_ping_count>> /\ NoMail /\ NoFile
-----------------------------------------------------------------------------
(* Messages: system calls 14 and 15 *)

Incarnation(pid) ==
  IF \E i \in Slots : procs[i].pid = pid THEN procs[CHOOSE i \in Slots : procs[i].pid = pid].born ELSE 0

MessageTo(to) ==
  [id |-> sends + 1, from |-> process_current_pid, to |-> to, aim |-> Incarnation(to)]

IpcSend(to, text) ==
  /\ process_syscall_allowed(14)
  /\ \/ /\ text # "good"
        /\ Returns(14, "zero")
        /\ NoMail
     \/ /\ text = "good" /\ sends < MaxSends
        /\ Box!Accept(MessageTo(to))
        /\ sends' = sends + 1
        /\ Returns(14, "value")
     \/ /\ text = "good"
        /\ Box!Refuse(to, FALSE)
        /\ Returns(14, "zero")
        /\ UNCHANGED sends
  /\ UNCHANGED <<table, user_ping_count>> /\ NoFile

\* ipc_recv itself: a message read into a buffer of one byte returns 0 too.
ReceiveInto(out) ==
  \/ /\ \E m \in pending : Box!Deliver(process_current_pid, m)
     /\ Returns(15, IF out = "one" THEN "zero" ELSE "value")
  \/ /\ Box!Nothing(process_current_pid)
     /\ Returns(15, "zero")

IpcRecv_CheckLate(out) ==
  /\ process_syscall_allowed(15)
  /\ IF out = "bad"
     THEN /\ \/ \E m \in pending : Box!Deliver(process_current_pid, m)
             \/ Box!Nothing(process_current_pid)
          /\ Returns(15, "error")
     ELSE ReceiveInto(out)
  /\ UNCHANGED sends
  /\ UNCHANGED <<table, user_ping_count>> /\ NoFile

IpcRecv(out) ==
  /\ process_syscall_allowed(15)
  /\ \/ /\ out = "bad"
        /\ Returns(15, "error")
        /\ NoMail
     \/ out # "bad" /\ ReceiveInto(out) /\ UNCHANGED sends
  /\ UNCHANGED <<table, user_ping_count>> /\ NoFile
-----------------------------------------------------------------------------
(* Calls that only report *)

\* 0 to 6, 9 to 11, 16 and 18; 13, the name of a program, when it has one and a buffer.
Reports == (0..6) \cup (9..11) \cup {16, 18}

Report(no) ==
  /\ process_syscall_allowed(no)
  /\ \/ no \in Reports /\ Returns(no, "value")
     \/ no = 13 /\ \E val \in {"value", "error"} : Returns(no, val)
     \/ no \notin 0..19 /\ Returns(no, "error")
  /\ UNCHANGED <<table, user_ping_count>> /\ NoMail /\ NoFile

UserPing ==
  /\ process_syscall_allowed(17)
  /\ user_ping_count' = (user_ping_count + 1) % PingTop
  /\ Returns(17, "value")
  /\ UNCHANGED table /\ NoMail /\ NoFile

Next ==
  \/ \E no \in Numbers : Denied(no) \/ Report(no)
  \/ \E name \in Strings, out \in Buffers : VfsRead(name, out)
  \/ \E name, data \in Strings : VfsWrite(name, data)
  \/ \E name \in Strings, kernel \in BOOLEAN : ExecSpawn(name, kernel)
  \/ \E to \in Pids, text \in Strings : IpcSend(to, text)
  \/ \E out \in Buffers : IpcRecv(out)
  \/ UserPing \/ ProcessExit \/ Switch \/ process_reap

Spec == Init /\ [][Next]_vars
-----------------------------------------------------------------------------
\* A message sent to a process (ipc.c keeps only its pid) is received by that
\* process or by nobody: process_reap leaves the message behind, but
\* process_alloc_pid gives the pid to nobody else until 2^32 - PROCESS_MAX
\* more processes have been born.
SameIncarnation ==
  [][\A m \in pending \ pending' :
       LET born == procs[current].born
       IN  m.aim # 0 => born = m.aim \/ born >= m.aim + PidTop - MaxProcs]_vars

\* A call that reports failure (denied, an error, or 0 from a write or a send)
\* has changed nothing: no file, no message lost, no process. The one
\* exception is exec_spawn once pids have reached 2^31.
FailureChangesNothing ==
  (\/ ret'.val \in {"denied", "error"}
   \/ ret'.no \in {8, 14} /\ ret'.val = "zero")
    => \/ UNCHANGED <<procs, pending, store, user_ping_count>>
       \/ \E i \in Slots : procs'[i] # procs[i] /\ procs'[i].pid >= SignBit

\* A user process changes no file and starts no process, and the messages it
\* sends carry its own pid ("User processes run with isolated user mappings
\* and syscall restrictions").
UserRestricted ==
  ~procs[current].kernel =>
    /\ store' = store
    /\ \A i \in Slots : procs'[i].pid = procs[i].pid
    /\ \A m \in pending' \ pending : m.from = procs[current].pid

\* A call changes only what its result and its caller's mask admit.
CallsConfined == [][FailureChangesNothing /\ UserRestricted]_vars
=============================================================================
