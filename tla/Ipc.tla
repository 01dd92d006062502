-------------------------------- MODULE Ipc ---------------------------------
(***************************************************************************)
(* Messages between processes, kernel/ipc.c: a fixed table of slots. A     *)
(* send takes the lowest unused slot, a receive the lowest slot addressed  *)
(* to the caller.                                                          *)
(*                                                                         *)
(* Callers run in task context and none of the functions yields, interrupt *)
(* handlers do not call them: each call is one step. A text is which       *)
(* string it is (id) and how long (len).                                   *)
(***************************************************************************)
EXTENDS Integers, FiniteSets

CONSTANTS IpcMax,   \* IPC_MAX_MESSAGES
          TextMax,  \* IPC_TEXT_MAX
          Pids,     \* the pids callers use, 0 among them
          MaxText,  \* the longest text a caller sends
          MaxSends  \* bound: calls of ipc_send

ASSUME IpcAssumption ==
  /\ IpcMax \in Nat \ {0}
  /\ TextMax \in Nat /\ TextMax > 1
  /\ Pids \subseteq Nat /\ 0 \in Pids
  /\ MaxText \in Nat
  /\ MaxSends \in Nat

VARIABLES ipc_messages,
          sends,     \* calls of ipc_send so far, which tell texts apart
          accepted,  \* calls that returned 1
          delivered, \* calls of ipc_recv that took a message
          reply      \* the last call: outcome, pid, message, length copied

ipcVars == <<ipc_messages, sends, accepted, delivered, reply>>

Slots == 0..(IpcMax - 1)
Lengths == 0..MaxText
NoText == [id |-> 0, len |-> 0]
Unused == [used |-> FALSE, from |-> 0, to |-> 0, text |-> NoText]
NoMessage == [id |-> 0, from |-> 0, to |-> 0]
Call(what, pid, m, copied) == [what |-> what, pid |-> pid, msg |-> m, copied |-> copied]

\* The message a slot holds, without its length.
Content(s) == [id |-> s.text.id, from |-> s.from, to |-> s.to]

\* ipc_init
IpcInit ==
  /\ ipc_messages = [i \in Slots |-> Unused]
  /\ sends = 0 /\ accepted = 0 /\ delivered = 0
  /\ reply = Call("none", 0, NoMessage, 0)
-----------------------------------------------------------------------------
\* str_copy keeps what fits into size bytes with the terminator.
Copied(len, size) == IF len < size THEN len ELSE size - 1

\* The loops over the table stop at the first slot of the set they look for.
Lowest(S) == {i \in S : \A j \in S : i <= j}

FreeSlots == {i \in Slots : ~ipc_messages[i].used}

\* The slot after ipc_send has filled it; used is set only for a non-empty text.
Filled(from, to, len) ==
  [used |-> Copied(len, TextMax) > 0, from |-> from, to |-> to,
   text |-> [id |-> sends + 1, len |-> Copied(len, TextMax)]]

ipc_send(from, to, len) ==
  LET s == Filled(from, to, len)
  IN  /\ to # 0
      /\ \E i \in Lowest(FreeSlots) : ipc_messages' = [ipc_messages EXCEPT ![i] = s]
      /\ sends' = sends + 1
      /\ accepted' = IF s.used THEN accepted + 1 ELSE accepted
      /\ reply' = IF s.used THEN Call("sent", to, Content(s), s.text.len)
                 ELSE Call("refused", to, NoMessage, 0)
      /\ UNCHANGED delivered

ipc_send_fails(to) ==
  /\ to = 0 \/ FreeSlots = {}
  /\ reply' = Call("refused", to, NoMessage, 0)
  /\ UNCHANGED <<ipc_messages, sends, accepted, delivered>>

For_AnyReceiver(pid) == {i \in Slots : ipc_messages[i].used}
For(pid) == {i \in Slots : ipc_messages[i].used /\ ipc_messages[i].to = pid}

\* The slot a receive leaves behind.
Taken(s) == Unused

ipc_recv(pid, out_size) ==
  /\ pid # 0 /\ out_size # 0
  /\ \E i \in Lowest(For(pid)) :
       /\ ipc_messages' = [ipc_messages EXCEPT ![i] = Taken(@)]
       /\ reply' = Call("delivered", pid, Content(ipc_messages[i]),
                       Copied(ipc_messages[i].text.len, out_size))
  /\ delivered' = delivered + 1
  /\ UNCHANGED <<sends, accepted>>

ipc_recv_nothing(pid, out_size) ==
  /\ pid # 0 /\ out_size # 0
  /\ For(pid) = {}
  /\ reply' = Call("nothing", pid, NoMessage, 0)
  /\ UNCHANGED <<ipc_messages, sends, accepted, delivered>>

ipc_recv_fails(pid, out_size) ==
  /\ pid = 0 \/ out_size = 0
  /\ reply' = Call("invalid", pid, NoMessage, 0)
  /\ UNCHANGED <<ipc_messages, sends, accepted, delivered>>

ipc_pending_count == Cardinality({i \in Slots : ipc_messages[i].used})

IpcNext ==
  \/ \E from, to \in Pids, len \in Lengths : sends < MaxSends /\ ipc_send(from, to, len)
  \/ \E to \in Pids : ipc_send_fails(to)
  \/ \E pid \in Pids, out_size \in 0..(MaxText + 1) :
       ipc_recv(pid, out_size) \/ ipc_recv_nothing(pid, out_size) \/ ipc_recv_fails(pid, out_size)

IpcSpec == IpcInit /\ [][IpcNext]_ipcVars
-----------------------------------------------------------------------------
Messages == [id : 0..MaxSends, from : Pids, to : Pids]
Texts == [id : 0..MaxSends, len : 0..(TextMax - 1)]

IpcTypeOK ==
  /\ ipc_messages \in [Slots -> [used : BOOLEAN, from : Pids, to : Pids, text : Texts]]
  /\ sends \in 0..MaxSends
  /\ accepted \in Nat
  /\ delivered \in Nat
  /\ reply \in [what : {"none", "sent", "refused", "delivered", "nothing", "invalid"},
               pid : Pids, msg : Messages, copied : Nat]

\* The pending count the ipc command and system call 16 report is the number of
\* messages accepted and not yet received: over any order of sends, failed sends,
\* truncated texts and receives, none is lost and none is delivered twice.
Conserved == accepted = delivered + ipc_pending_count

\* The refinement mapping: the messages in the used slots, and the last call.
pending == {Content(ipc_messages[i]) : i \in {j \in Slots : ipc_messages[j].used}}
last == [what |-> reply.what, pid |-> reply.pid, msg |-> reply.msg]

Box == INSTANCE Mailbox WITH Capacity <- IpcMax

\* The slots implement the mailbox: a send fails only for want of a receiver, a
\* text or a slot, and a receiver gets exactly the messages addressed to it.
MailboxSpec == Box!Spec
=============================================================================
