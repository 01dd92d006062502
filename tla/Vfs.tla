-------------------------------- MODULE Vfs ---------------------------------
(***************************************************************************)
(* The in-memory files, kernel/vfs.c: a table of entries, each with its    *)
(* text in a heap block of its own. Callers run in task context and no     *)
(* function yields, so each call is one step.                              *)
(*                                                                         *)
(* A name is a sequence of letters and is stored by copying what fits. The *)
(* heap is what vfs.c uses of it: blocks, each with a text, that kmalloc   *)
(* hands out while the rest of the system leaves it any.                   *)
(***************************************************************************)
EXTENDS Integers, Sequences, FiniteSets

CONSTANTS MaxFiles,  \* VFS_MAX_FILES
          NameMax,   \* VFS_NAME_MAX
          Letters,   \* what names are made of
          MaxText,   \* the longest text written
          Texts,     \* tells texts of one length apart
          MaxBlocks, \* bound: heap blocks there can be at a time
          BootFiles  \* how many files vfs_init writes: <<1>>, <<2>>...

VfsAssumption ==
  /\ MaxFiles \in Nat \ {0}
  /\ NameMax \in Nat /\ NameMax > 1
  /\ MaxText \in Nat
  /\ MaxBlocks \in Nat
  /\ BootFiles \in Nat /\ \A k \in 1..BootFiles : k \in Letters

VARIABLES files,
          heap,   \* the text in each live block
          boot,   \* the files vfs_init has written so far, -1 if it has failed
          answer  \* what the last call came to

vars == <<files, heap, boot, answer>>

Entries == 0..(MaxFiles - 1)
Blocks == 1..MaxBlocks
Names == UNION {[1..k -> Letters] : k \in 0..NameMax}
Contents == [id : Texts, len : 0..MaxText]
NoData == [id |-> 0, len |-> -1]
Free == [used |-> FALSE, name |-> <<>>, data |-> 0, len |-> 0]
Answer(what, name, data) == [what |-> what, name |-> name, data |-> data]
vfs_ready == boot = BootFiles

\* The entries vfs_init clears before it writes the first file.
Init ==
  /\ files = [i \in Entries |-> Free]
  /\ heap = [b \in Blocks |-> NoData]
  /\ boot = 0
  /\ answer = Answer("none", <<>>, NoData)
-----------------------------------------------------------------------------
Lowest(S) == CHOOSE i \in S : \A j \in S : i <= j

vfs_name_valid(name) == Len(name) > 0 /\ Len(name) < NameMax

\* str_copy into the name of an entry
Kept(name) == IF Len(name) < NameMax THEN name ELSE SubSeq(name, 1, NameMax - 1)

vfs_find_file(name) == {i \in Entries : files[i].used /\ files[i].name = name}
vfs_find_free_slot_Last == {MaxFiles - 1}
vfs_find_free_slot == {i \in Entries : ~files[i].used}

\* The heap after the block of a refused write, or of a replaced text, is freed.
AfterRefusal_Leak(b, data) == [heap EXCEPT ![b] = data]
AfterRefusal(b, data) == heap
AfterReplacing(old, b, data) == [heap EXCEPT ![b] = data, ![old] = NoData]

Refused(name) ==
  /\ answer' = Answer("refused", name, NoData)
  /\ UNCHANGED <<files, heap>>

\* vfs_write_file with the block b that kmalloc returns
NewFile(b, name, data) == [used |-> TRUE, name |-> Kept(name), data |-> b, len |-> data.len]

Create(b, name, data) ==
  /\ vfs_find_file(name) = {} /\ vfs_find_free_slot # {}
  /\ files' = [files EXCEPT ![Lowest(vfs_find_free_slot)] = NewFile(b, name, data)]
  /\ heap' = [heap EXCEPT ![b] = data]
  /\ answer' = Answer("written", name, NoData)

NoSlot(b, name, data) ==
  /\ vfs_find_file(name) = {} /\ vfs_find_free_slot = {}
  /\ heap' = AfterRefusal(b, data)
  /\ answer' = Answer("refused", name, NoData)
  /\ UNCHANGED files

Replace(b, name, data) ==
  LET i == Lowest(vfs_find_file(name))
  IN  /\ vfs_find_file(name) # {}
      /\ files' = [files EXCEPT ![i] = [@ EXCEPT !.data = b, !.len = data.len]]
      /\ heap' = AfterReplacing(files[i].data, b, data)
      /\ answer' = Answer("written", name, NoData)

vfs_write_file(name, data) ==
  IF vfs_name_valid(name)
  THEN \/ Refused(name) \* kmalloc has no memory
       \/ \E b \in {x \in Blocks : heap[x] = NoData} :
            /\ \A x \in Blocks : x < b => heap[x] # NoData
            /\ Create(b, name, data) \/ NoSlot(b, name, data) \/ Replace(b, name, data)
  ELSE Refused(name)

\* The next write of vfs_init; after one that fails kernel_main halts.
vfs_init ==
  /\ boot \in 0..(BootFiles - 1)
  /\ \E data \in Contents : vfs_write_file(<<boot + 1>>, data)
  /\ boot' = IF answer'.what = "written" THEN boot + 1 ELSE -1

\* The write command, app_writer and system call 8
WriteFile(name, data) ==
  /\ vfs_ready
  /\ vfs_write_file(name, data)
  /\ boot' = boot

\* vfs_read_file_into, and vfs_read_file with room for the whole text
TextOf(i) == heap[files[i].data]
Cut(data, n) == [data EXCEPT !.len = IF @ < n THEN @ ELSE n - 1]

ReadFile(name, n) ==
  /\ vfs_ready
  /\ vfs_name_valid(name) /\ vfs_find_file(name) # {} /\ n > 0
  /\ answer' = Answer("read", name, Cut(TextOf(Lowest(vfs_find_file(name))), n))
  /\ UNCHANGED <<files, heap, boot>>

ReadMissing(name, n) ==
  /\ vfs_ready
  /\ ~vfs_name_valid(name) \/ vfs_find_file(name) = {} \/ n = 0
  /\ answer' = Answer(IF n = 0 THEN "invalid" ELSE "missing", name, NoData)
  /\ UNCHANGED <<files, heap, boot>>

Next ==
  \/ vfs_init
  \/ \E name \in Names, data \in Contents : WriteFile(name, data)
  \/ \E name \in Names, n \in 0..(MaxText + 1) : ReadFile(name, n) \/ ReadMissing(name, n)

Spec == Init /\ [][Next]_vars
-----------------------------------------------------------------------------
vfs_file_count == Cardinality({i \in Entries : files[i].used})

\* The entry that has index used entries before it
vfs_file_name_at(index) ==
  {files[i].name : i \in {j \in Entries :
     files[j].used /\ Cardinality({k \in 0..(j - 1) : files[k].used}) = index}}

TypeOK ==
  /\ files \in [Entries -> [used : BOOLEAN, name : Names, data : 0..MaxBlocks, len : 0..MaxText]]
  /\ heap \in [Blocks -> Contents \cup {NoData}]
  /\ boot \in -1..BootFiles
  /\ answer \in [what : {"none", "written", "refused", "read", "missing", "invalid"},
                 name : Names,
                 data : Contents \cup {NoData}]

\* Every live block is the text of exactly one file, of the length recorded for it:
\* a write that fails for want of an entry and one that replaces a text give back
\* what they allocated or replaced, and never what another file still shows.
BlocksOwned ==
  \A b \in Blocks :
    LET owners == {i \in Entries : files[i].used /\ files[i].data = b}
    IN  /\ heap[b] # NoData <=> owners # {}
        /\ \A i \in owners : files[i].len = heap[b].len /\ owners = {i}

\* The ls command, asking for the names 0..count-1, shows every file exactly once.
Listed ==
  \A i \in Entries : files[i].used =>
    Cardinality({k \in 0..(vfs_file_count - 1) : files[i].name \in vfs_file_name_at(k)}) = 1

\* The table stays well formed: no block is lost or shared, no file is hidden.
FilesConsistent == TypeOK /\ BlocksOwned /\ Listed

ValidNames == UNION {[1..k -> Letters] : k \in 1..(NameMax - 1)}
StoredUnder(name) == {i \in Entries : files[i].used /\ files[i].name = name}

Store == INSTANCE FileStore
  WITH Capacity <- MaxFiles, Sizes <- 1..(MaxText + 1),
       store <- [n \in ValidNames |->
                   IF StoredUnder(n) = {} THEN NoData ELSE heap[files[Lowest(StoredUnder(n))].data]]

\* The table implements the map: a write replaces the text of its name only, a read
\* returns what was written last, and a refused write leaves every file as it was.
StoreSpec == Store!Spec
=============================================================================
