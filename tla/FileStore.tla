----------------------------- MODULE FileStore ------------------------------
(***************************************************************************)
(* What kernel/vfs.c promises: a map from at most Capacity names to        *)
(* contents. A write that is refused changes nothing.                      *)
(***************************************************************************)
EXTENDS Integers, FiniteSets

CONSTANTS Capacity, Names, ValidNames, Contents, NoData,
          Sizes \* of the buffers callers read into

VARIABLES store,  \* what each valid name holds, NoData if there is no such file
          answer  \* what the last call came to

vars == <<store, answer>>

Files == {n \in ValidNames : store[n] # NoData}
Answer(what, name, data) == [what |-> what, name |-> name, data |-> data]

Init == store = [n \in ValidNames |-> NoData] /\ answer = Answer("none", <<>>, NoData)

Write(name, data) ==
  /\ answer' = Answer("written", name, NoData)
  /\ name \in Files \/ Cardinality(Files) < Capacity
  /\ store' = [store EXCEPT ![name] = data]

\* For want of memory, of a free entry or of a valid name.
Refuse(name) == answer' = Answer("refused", name, NoData) /\ store' = store

\* The caller's buffer of n bytes gets the text up to its last byte.
Read(name, n) ==
  /\ name \in Files /\ n > 0
  /\ store' = store
  /\ answer' = Answer("read", name, [store[name] EXCEPT !.len = IF @ < n THEN @ ELSE n - 1])

Missing(name) ==
  /\ answer' = Answer("missing", name, NoData)
  /\ name \notin Files
  /\ store' = store

\* A read without a buffer.
Invalid(name) == answer' = Answer("invalid", name, NoData) /\ store' = store

Next ==
  \/ \E name \in ValidNames, data \in Contents : Write(name, data)
  \/ \E name \in ValidNames, n \in Sizes : Read(name, n)
  \/ \E name \in Names : Refuse(name) \/ Missing(name) \/ Invalid(name)

Spec == Init /\ [][Next]_vars
=============================================================================
