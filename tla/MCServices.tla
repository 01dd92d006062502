----------------------------- MODULE MCServices -----------------------------
(***************************************************************************)
(* The mailbox and the file table, each against the abstract specification *)
(* the system calls are modelled over. They have no variable in common, so *)
(* a behaviour moves one of them, the part, and leaves the other as it was *)
(* initialised.                                                            *)
(***************************************************************************)
EXTENDS Ipc

VARIABLES part,
          files, heap, boot, answer \* Vfs

Files == INSTANCE Vfs WITH
  MaxFiles <- 2, NameMax <- 2, Letters <- {1, 2, 3}, MaxText <- 1, Texts <- {1},
  MaxBlocks <- 3, BootFiles <- 1

ASSUME Files!VfsAssumption

fileVars == <<files, heap, boot, answer>>
mcVars == <<part, ipcVars, fileVars>>

MCInit ==
  /\ part \in {"messages", "files"}
  /\ IpcInit /\ Files!Init

MCNext ==
  \/ part = "messages" /\ IpcNext /\ UNCHANGED <<part, fileVars>>
  \/ part = "files" /\ Files!Next /\ UNCHANGED <<part, ipcVars>>

MCSpec == MCInit /\ [][MCNext]_mcVars
-----------------------------------------------------------------------------
(* The files; vfs.c *)

\* Every live heap block is the text of exactly one file, since vfs_write gives back
\* what it allocated when it fails and what it replaces when it succeeds, and
\* vfs_file_name_at, asked for 0..vfs_file_count-1, shows every file exactly once.
FilesConsistent == Files!FilesConsistent

\* The table implements the abstract store: vfs_write replaces the text of its name
\* only, vfs_read returns what was written last, a refused write changes nothing.
\* (This is StoreSpec of Vfs; the steps of the other part do not touch the files.)
StoreSpec == Files!Store!Init /\ [][part = "files" => Files!Store!Next]_(Files!Store!vars)
=============================================================================
