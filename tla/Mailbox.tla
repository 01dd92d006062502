------------------------------ MODULE Mailbox -------------------------------
(***************************************************************************)
(* What kernel/ipc.c promises its callers: a store of at most Capacity     *)
(* messages, from which a receiver takes the ones addressed to it, each    *)
(* once, in no particular order.                                           *)
(***************************************************************************)
EXTENDS Integers, FiniteSets

CONSTANTS Capacity, Pids,
          Messages \* what can be sent: [id, from, to]

VARIABLES pending, \* the messages accepted and not yet delivered
          last     \* what the last call came to

NoMessage == [id |-> 0, from |-> 0, to |-> 0]
Outcome(what, pid, m) == [what |-> what, pid |-> pid, msg |-> m]

Init == pending = {} /\ last = Outcome("none", 0, NoMessage)

Accept(m) ==
  /\ m.to # 0
  /\ Cardinality(pending) < Capacity
  /\ pending' = pending \cup {m}
  /\ last' = Outcome("sent", m.to, m)

\* A message is refused when it names no receiver, is empty, or finds no room.
Refuse(to, empty) ==
  /\ to = 0 \/ empty \/ Cardinality(pending) = Capacity
  /\ pending' = pending
  /\ last' = Outcome("refused", to, NoMessage)

Deliver(pid, m) ==
  /\ m \in pending /\ m.to = pid
  /\ pending' = pending \ {m}
  /\ last' = Outcome("delivered", pid, m)

Nothing(pid) ==
  /\ \A m \in pending : m.to # pid
  /\ pending' = pending
  /\ last' = Outcome("nothing", pid, NoMessage)

\* A receive without a receiver or without room for an answer.
Invalid(pid) ==
  /\ pending' = pending
  /\ last' = Outcome("invalid", pid, NoMessage)

Next ==
  \/ \E m \in Messages : Accept(m)
  \/ \E to \in Pids, empty \in BOOLEAN : Refuse(to, empty)
  \/ \E pid \in Pids, m \in pending : Deliver(pid, m)
  \/ \E pid \in Pids : Nothing(pid) \/ Invalid(pid)

Spec == Init /\ [][Next]_<<pending, last>>
=============================================================================
