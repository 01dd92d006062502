------------------------- MODULE ProcessSpawnProofs -------------------------
(***************************************************************************)
(* process_spawn_common preserves the invariant of ProcessProofs, up to    *)
(* the creation of the task and on every path on which it fails.           *)
(***************************************************************************)
EXTENDS ProcessProofs

USE SMTT(60)

\* Before any step of process_spawn_common, everything that ended is reaped.
LEMMA SpawnPoints ==
  {"clone", "frames", "map", "image", "fail", "create", "batch"} \subseteq ReapedPcs
BY DEF ReapedPcs, SpawnPcs
-----------------------------------------------------------------------------
(* An entry is picked *)

LEMMA SpawnPicks ==
  ASSUME IInv, Given, NEW is_kernel, Spawn(is_kernel)
  PROVE  /\ sp'.slot \in Slots /\ ~process_table[sp'.slot].active
         /\ sp'.is_kernel = is_kernel /\ sp'.cr3 = IF is_kernel THEN KernelDir ELSE NoFrame
         /\ sp'.code = NoFrame /\ sp'.stack = NoFrame
<1> DEFINE idle == {s \in Slots : ~process_table[s].active}
<1>1. /\ idle # {}
      /\ sp' = [NoLocals EXCEPT !.slot = Min(idle), !.is_kernel = is_kernel,
                                !.cr3 = IF is_kernel THEN KernelDir ELSE NoFrame]
  BY DEF Spawn
<1>2. Min(idle) \in idle
  BY <1>1, LeastIn, Constants DEF Given
<1> HIDE DEF idle
<1>3. Min(idle) \in Slots /\ ~process_table[Min(idle)].active
  BY <1>2 DEF idle
<1> QED
  BY <1>1, <1>3 DEF NoLocals

LEMMA SpawnTyped ==
  ASSUME NEW is_kernel \in BOOLEAN, Spawn(is_kernel), sp'.slot \in Slots
  PROVE  sp' \in [slot : Slots, is_kernel : BOOLEAN, cr3 : Frames \cup {NoFrame, KernelDir},
                  code : Frames \cup {NoFrame}, stack : Frames \cup {NoFrame}]
BY ZenonT(60) DEF Spawn, NoLocals

LEMMA SpawnKeepsIInv ==
  ASSUME IInv, Given, NEW is_kernel \in BOOLEAN, Spawn(is_kernel)
  PROVE  IInv'
<1>1. /\ current_task = 0 /\ pc = "batch" /\ pc' = IF is_kernel THEN "create" ELSE "clone"
      /\ UNCHANGED <<sched, procs, memory, cpu, after, i>>
  BY DEF Spawn, At
<1>2. ShellTypes'
  BY <1>1, SpawnPicks, SpawnTyped, MemoryIs DEF ShellTypes, SpawnPcs
<1>3. LocalsFormed'
  BY <1>1, SpawnPicks DEF LocalsFormed, SpawnPcs, procs, Spaced, SharesKernelSpace
<1>4. EntriesFormed' /\ KernelWindow' /\ MemoryTypes'
  BY <1>1, MemoryIs DEF IInv, EntriesFormed, KernelWindow, MemoryTypes, procs, memory
<1>5. FramesPartitioned'
  <2>1. HoldsNothing(Locals(ProcessMax)) /\ HoldsNothing(Locals(ProcessMax)')
    BY <1>1, SpawnPicks, SpawnHolder, EmptyFields DEF IInv, LocalsFormed, SpawnPcs, HoldsNothing
  <2>2. OthersKept(ProcessMax) /\ ProcessMax \in Holders
    BY <1>1, SpawnHolder DEF procs
  <2> QED
    BY <1>1, <2>1, <2>2, HeldNothing, MemoryIs DEF IInv, FramesPartitioned, MemoryTypes, memory
<1>6. ~Building /\ ~Building' /\ pc \in ReapedPcs /\ pc' \in ReapedPcs
  BY <1>1, SpawnPoints DEF Building
<1>7. cr3' = KernelDir /\ DirectoryRight'
  BY <1>1, <1>4, <1>6, KernelDirectory, KernelDirectoryRight DEF cpu, sched
<1> QED
  BY <1>1, <1>2, <1>3, <1>4, <1>5, <1>6, <1>7, SpawnStepKeepsIInv DEF cpu
-----------------------------------------------------------------------------
(* The kernel's directory is cloned *)

\* The directory is a free frame, or there is none.
Cloned(d) ==
  /\ pc = "clone" /\ current_task = 0
  /\ UNCHANGED <<sched, procs, heap_frames, pte, cpu, after, i>>
  /\ sp.cr3 = NoFrame /\ sp.code = NoFrame /\ sp.stack = NoFrame /\ ~sp.is_kernel
  /\ \/ d = NoFrame /\ pc' = "batch" /\ sp' = NoLocals /\ UNCHANGED <<free, pde>>
     \/ /\ d \in free /\ d \in Frames /\ free' = free \ {d}
        /\ pde' = [pde EXCEPT ![d] = NoFrame]
        /\ pc' = "frames" /\ sp' = [sp EXCEPT !.cr3 = d]

LEMMA SpawnClones ==
  ASSUME IInv, Given, SpawnClone
  PROVE  \E d : Cloned(d)
<1>1. LeastNumbers /\ free \subseteq Frames
  BY MemoryIs DEF Given, MemoryTypes
<1>2. pmm_alloc(free) = NoFrame \/ (pmm_alloc(free) # NoFrame /\ pmm_alloc(free) \in free /\ pmm_alloc(free) \in Frames)
  BY <1>1, AllocFrame, Constants
<1>3. Cloned(pmm_alloc(free))
  BY <1>2 DEF SpawnClone, At, ClonedWindow, IInv, LocalsFormed, SpawnPcs, Cloned
<1> QED
  BY <1>3

LEMMA ClonedDirs ==
  ASSUME IInv, NEW d, Cloned(d)
  PROVE  DirsKept(ProcessMax)
<1>1. \A h \in Holders : Locals(h).cr3 \notin free
  BY Apart
<1> QED
  BY <1>1, MemoryIs DEF Cloned, DirsKept, MemoryTypes

LEMMA ClonedMemory ==
  ASSUME IInv, NEW d, Cloned(d)
  PROVE  MemoryTypes' /\ KernelWindow' /\ EntriesFormed'
<1>1. MemoryTypes
  BY MemoryIs
<1>2. pde' \in [Frames \cup {KernelDir} -> Frames \cup {NoFrame, KernelTable}]
  BY <1>1 DEF Cloned, MemoryTypes
<1>3. MemoryTypes'
  BY <1>1, <1>2 DEF Cloned, MemoryTypes
<1>4. KernelWindow'
  BY <1>1, Constants DEF IInv, KernelWindow, Cloned, MemoryTypes
<1>5. \A s \in Slots : SpaceKept(process_table[s], pde, pte, pde', pte')
  BY ClonedDirs, SpawnHolder DEF SpaceKept, Built, DirsKept, Cloned
<1>6. EntriesFormed'
  BY <1>5, EntriesKept DEF Cloned, procs
<1> QED
  BY <1>3, <1>4, <1>6

LEMMA ClonedLocals ==
  ASSUME IInv, NEW d, Cloned(d), d # NoFrame
  PROVE  /\ sp'.cr3 = d /\ sp'.code = NoFrame /\ sp'.stack = NoFrame
         /\ sp'.slot = sp.slot /\ ~sp'.is_kernel /\ pde'[d] = NoFrame
BY MemoryIs DEF Cloned, ShellTypes, MemoryTypes

LEMMA ClonedFrames ==
  ASSUME IInv, NEW d, Cloned(d)
  PROVE  FramesPartitioned'
<1>1. /\ Partitioned(FrameMap, free, heap_frames) /\ free \subseteq Frames /\ heap_frames \subseteq Frames
      /\ NoFrame \notin free
  BY MemoryIs, Constants DEF IInv, FramesPartitioned, MemoryTypes
<1>2. CASE d = NoFrame
  <2>1. /\ HoldsNothing(Locals(ProcessMax)) /\ HoldsNothing(Locals(ProcessMax)')
        /\ OthersKept(ProcessMax) /\ ProcessMax \in Holders /\ pde' = pde
    BY <1>1, <1>2, SpawnHolder, EmptyFields DEF Cloned, HoldsNothing, procs
  <2> QED
    BY <1>1, <1>2, <2>1, HeldNothing DEF FramesPartitioned, Cloned
<1>3. CASE d # NoFrame
  <2>1. UserTable(sp.cr3) = NoFrame /\ UserTable(sp.cr3)' = NoFrame
    BY <1>3, ClonedLocals, Constants DEF UserTable, Cloned
  <2>2. /\ Taken(free, sp.cr3, NoFrame, sp.code, sp.stack, sp'.cr3, NoFrame, sp'.code, sp'.stack)
        /\ free' = free \ {sp'.cr3, NoFrame, sp'.code, sp'.stack}
    BY <1>1, <1>3, ClonedLocals DEF Cloned, Taken
  <2> QED
    BY <2>1, <2>2, ClonedDirs, SpawnTakes DEF Cloned, procs
<1> QED
  BY <1>2, <1>3

LEMMA SpawnCloneKeepsIInv ==
  ASSUME IInv, Given, SpawnClone
  PROVE  IInv'
<1>1. PICK d : Cloned(d)
  BY SpawnClones
<1>2. ShellTypes'
  BY <1>1, NoLocalsTyped, MemoryIs DEF Cloned, ShellTypes, SpawnPcs
<1>3. ~process_table[sp.slot].active
  BY <1>1 DEF Cloned, IInv, LocalsFormed, SpawnPcs
<1>4. LocalsFormed'
  <2>1. CASE d = NoFrame
    BY <1>1, <2>1, MemoryIs, Constants DEF LocalsFormed, SpawnPcs, Cloned, MemoryTypes
  <2>2. CASE d # NoFrame
    BY <1>1, <1>3, <2>2, ClonedLocals DEF LocalsFormed, SpawnPcs, Cloned, procs
  <2> QED
    BY <2>1, <2>2
<1>5. /\ current_task = 0 /\ current_task' = 0 /\ ~Building /\ ~Building'
      /\ pc \in ReapedPcs /\ pc' \in ReapedPcs /\ UNCHANGED <<sched, procs, cpu, after, i>>
  BY <1>1, SpawnPoints DEF Building, Cloned, sched
<1>6. cr3' = KernelDir /\ DirectoryRight'
  BY <1>1, <1>5, ClonedMemory, KernelDirectory, KernelDirectoryRight DEF cpu
<1> QED
  BY <1>1, <1>2, <1>4, <1>5, <1>6, ClonedMemory, ClonedFrames, SpawnStepKeepsIInv DEF cpu
-----------------------------------------------------------------------------
(* Frames for code and stack *)

Framed(code, stack) ==
  /\ pc = "frames" /\ current_task = 0
  /\ UNCHANGED <<sched, procs, heap_frames, pde, pte, mode, iflag, esp0, after, i>>
  /\ sp.cr3 \in Frames /\ pde[sp.cr3] = NoFrame
  /\ sp.code = NoFrame /\ sp.stack = NoFrame /\ ~sp.is_kernel
  /\ code = NoFrame \/ code \in free
  /\ stack = NoFrame \/ (stack \in free /\ stack # code)
  /\ cr3' = sp.cr3 /\ free' = free \ {code, stack}
  /\ sp' = [sp EXCEPT !.code = code, !.stack = stack]
  /\ pc' = IF NoFrame \in {code, stack} THEN "fail" ELSE "map"

LEMMA SpawnFramed ==
  ASSUME IInv, Given, SpawnFrames
  PROVE  \E code, stack \in Frames \cup {NoFrame} : Framed(code, stack)
<1> DEFINE code == pmm_alloc(free)
           stack == pmm_alloc(free \ {code})
<1>1. LeastNumbers /\ free \subseteq Frames /\ free \ {code} \subseteq Frames
  BY MemoryIs DEF Given, MemoryTypes
<1>2. (code = NoFrame \/ code \in free) /\ code \in Frames \cup {NoFrame}
  BY <1>1, AllocFrame
<1>3. (stack = NoFrame \/ stack \in free \ {code}) /\ stack \in Frames \cup {NoFrame}
  BY <1>1, AllocFrame
<1>4. /\ pc = "frames" /\ current_task = 0
      /\ cr3' = sp.cr3 /\ free' = free \ {code, stack} /\ pte' = Unmapped(sp.cr3)
      /\ sp' = [sp EXCEPT !.code = code, !.stack = stack]
      /\ pc' = IF NoFrame \in {code, stack} THEN "fail" ELSE "map"
      /\ UNCHANGED <<sched, procs, heap_frames, pde, mode, iflag, esp0, after, i>>
  BY DEF SpawnFrames, At
<1> HIDE DEF code, stack
<1>5. Framed(code, stack)
  BY <1>2, <1>3, <1>4 DEF Framed, Unmapped, IInv, LocalsFormed, SpawnPcs
<1> QED
  BY <1>2, <1>3, <1>5

LEMMA FramedLocals ==
  ASSUME IInv, NEW code, NEW stack, Framed(code, stack)
  PROVE  /\ sp'.cr3 = sp.cr3 /\ sp'.code = code /\ sp'.stack = stack
         /\ sp'.slot = sp.slot /\ ~sp'.is_kernel
BY MemoryIs DEF Framed, ShellTypes

LEMMA FramedTyped ==
  ASSUME IInv, NEW code \in Frames \cup {NoFrame}, NEW stack \in Frames \cup {NoFrame}, Framed(code, stack)
  PROVE  ShellTypes'
BY MemoryIs, ZenonT(60) DEF Framed, ShellTypes, SpawnPcs

LEMMA FramedFrames ==
  ASSUME IInv, NEW code, NEW stack, Framed(code, stack)
  PROVE  FramesPartitioned'
<1>1. UserTable(sp.cr3) = NoFrame /\ UserTable(sp.cr3)' = NoFrame
  BY FramedLocals, ZenonT(60) DEF UserTable, Framed
<1>2. NoFrame \notin free /\ sp.cr3 \notin free
  BY LocalsNotFree
<1>3. sp'.cr3 = sp.cr3 /\ sp'.code = code /\ sp'.stack = stack
  BY FramedLocals
<1>4. Taken(free, sp.cr3, NoFrame, sp.code, sp.stack, sp.cr3, NoFrame, code, stack)
  BY <1>2 DEF Taken, Framed
<1>5. free' = free \ {sp.cr3, NoFrame, code, stack}
  BY <1>2 DEF Framed
<1> QED
  BY <1>1, <1>3, <1>4, <1>5, SpawnTakes DEF Framed, DirsKept, procs

LEMMA SpawnFramesKeepsIInv ==
  ASSUME IInv, Given, SpawnFrames
  PROVE  IInv'
<1>1. PICK code, stack \in Frames \cup {NoFrame} : Framed(code, stack)
  BY SpawnFramed
<1>2. MemoryTypes' /\ EntriesFormed' /\ KernelWindow'
  BY <1>1, MemoryIs DEF IInv, Framed, MemoryTypes, EntriesFormed, KernelWindow, procs
<1>3. ~process_table[sp.slot].active
  BY <1>1 DEF Framed, IInv, LocalsFormed, SpawnPcs
<1>4. LocalsFormed'
  BY <1>1, <1>3, FramedLocals, ZenonT(60) DEF Framed, LocalsFormed, SpawnPcs, procs
<1>5. DirectoryRight' /\ cr3' \in Frames
  BY <1>1, FramedLocals, ZenonT(60) DEF Framed, DirectoryRight, Building
<1>6. /\ current_task = 0 /\ pc \in ReapedPcs /\ pc' \in ReapedPcs
      /\ UNCHANGED <<sched, procs, mode, iflag, esp0, after, i>>
  BY <1>1, SpawnPoints DEF Framed
<1> QED
  BY <1>1, <1>2, <1>4, <1>5, <1>6, FramedTyped, FramedFrames, SpawnStepKeepsIInv
-----------------------------------------------------------------------------
(* The user window is mapped *)

Mapped(table) ==
  /\ pc = "map" /\ current_task = 0
  /\ UNCHANGED <<sched, procs, heap_frames, cpu, after, i, sp>>
  /\ sp.cr3 \in Frames /\ pde[sp.cr3] = NoFrame
  /\ sp.code \in Frames /\ sp.stack \in Frames /\ ~sp.is_kernel
  /\ \/ table = NoFrame /\ pc' = "fail" /\ UNCHANGED <<free, pde, pte>>
     \/ /\ table \in free /\ table \in Frames /\ free' = free \ {table}
        /\ pde' = [pde EXCEPT ![sp.cr3] = table]
        /\ pte' = [pte EXCEPT ![table] = [code |-> sp.code, stack |-> sp.stack]]
        /\ pc' = "image"

LEMMA SpawnMaps ==
  ASSUME IInv, Given, SpawnMap
  PROVE  \E table : Mapped(table)
<1>1. LeastNumbers /\ free \subseteq Frames
  BY MemoryIs DEF Given, MemoryTypes
<1>2. pmm_alloc(free) = NoFrame \/ (pmm_alloc(free) # NoFrame /\ pmm_alloc(free) \in free /\ pmm_alloc(free) \in Frames)
  BY <1>1, AllocFrame, Constants
<1>3. pc = "map" /\ pde[sp.cr3] = NoFrame
  BY DEF SpawnMap, At, IInv, LocalsFormed, SpawnPcs
<1>4. Mapped(pmm_alloc(free))
  BY <1>2, <1>3 DEF SpawnMap, At, TableFor, IInv, LocalsFormed, SpawnPcs, Mapped
<1> QED
  BY <1>4

LEMMA MappedDirs ==
  ASSUME IInv, NEW table, Mapped(table)
  PROVE  /\ DirsKept(ProcessMax)
         /\ table \in Frames =>
              /\ pde'[sp.cr3] = table
              /\ \A h \in Holders : UserTable(Locals(h).cr3) # table
<1>1. \A h \in Holders \ {ProcessMax} : Locals(h).cr3 \in Frames => Locals(h).cr3 # sp.cr3
  BY Apart, SpawnHolder
<1>2. \A h \in Holders : UserTable(Locals(h).cr3) \notin free
  BY Apart
<1> QED
  BY <1>1, <1>2, MemoryIs, Constants DEF Mapped, DirsKept, MemoryTypes

LEMMA MappedMemory ==
  ASSUME IInv, NEW table, Mapped(table)
  PROVE  MemoryTypes' /\ KernelWindow'
<1>1. /\ pde \in [Frames \cup {KernelDir} -> Frames \cup {NoFrame, KernelTable}]
      /\ pte \in [Frames \cup {KernelTable} -> [Pages -> 0..(NFrames + 4)]]
  BY MemoryIs DEF MemoryTypes
<1>2. pde' \in [Frames \cup {KernelDir} -> Frames \cup {NoFrame, KernelTable}]
  BY <1>1 DEF Mapped
<1>3. pte' \in [Frames \cup {KernelTable} -> [Pages -> 0..(NFrames + 4)]]
  BY <1>1, TableTyped DEF Mapped
<1>4. MemoryTypes'
  BY <1>2, <1>3, MemoryIs DEF MemoryTypes, Mapped
<1>5. KernelWindow'
  BY <1>1, Constants, ZenonT(60) DEF IInv, KernelWindow, Mapped
<1> QED
  BY <1>4, <1>5

LEMMA MappedEntries ==
  ASSUME IInv, NEW table, Mapped(table)
  PROVE  EntriesFormed'
<1>1. ASSUME NEW s \in Slots PROVE SpaceKept(process_table[s], pde, pte, pde', pte')
  <2> SUFFICES ASSUME Built(process_table[s], pde, pte)
               PROVE  /\ pde'[process_table[s].cr3] = pde[process_table[s].cr3]
                      /\ pte'[pde[process_table[s].cr3]] = pte[pde[process_table[s].cr3]]
    BY DEF SpaceKept
  <2>1. /\ s \in Holders \ {ProcessMax} /\ Locals(s) = process_table[s]
        /\ process_table[s].cr3 \in Frames /\ pde[process_table[s].cr3] \in Frames
    BY SpawnHolder DEF Built
  <2>2. pde[process_table[s].cr3] # table \/ table = NoFrame
    BY <2>1, MappedDirs DEF UserTable, Mapped
  <2>3. pte \in [Frames \cup {KernelTable} -> [Pages -> 0..(NFrames + 4)]]
    BY MemoryIs DEF MemoryTypes
  <2> QED
    BY <2>1, <2>2, <2>3, MappedDirs, Constants, ZenonT(60) DEF DirsKept, Mapped
<1> QED
  BY <1>1, EntriesKept DEF Mapped, procs

LEMMA MappedFrames ==
  ASSUME IInv, NEW table, Mapped(table)
  PROVE  FramesPartitioned'
<1>1. UserTable(sp.cr3) = NoFrame /\ UserTable(sp.cr3)' = table
  BY MappedDirs DEF UserTable, Mapped
<1>2. NoFrame \notin free /\ sp.cr3 \notin free /\ sp.code \notin free /\ sp.stack \notin free
  BY LocalsNotFree
<1>3. /\ Taken(free, sp.cr3, NoFrame, sp.code, sp.stack, sp'.cr3, table, sp'.code, sp'.stack)
      /\ free' = free \ {sp'.cr3, table, sp'.code, sp'.stack}
  BY <1>2 DEF Taken, Mapped
<1> QED
  BY <1>1, <1>3, MappedDirs, SpawnTakes DEF Mapped, procs

LEMMA MappedLocals ==
  ASSUME IInv, NEW table, Mapped(table)
  PROVE  LocalsFormed' /\ ShellTypes'
<1>1. ~process_table[sp.slot].active /\ ShellTypes /\ MemoryTypes
  BY MemoryIs DEF Mapped, IInv, LocalsFormed, SpawnPcs
<1>2. ASSUME table # NoFrame PROVE Built(sp, pde', pte')
  BY <1>1, <1>2, MappedDirs DEF Mapped, Built, MemoryTypes
<1>3. CASE table = NoFrame
  BY <1>1, <1>3, MemoryIs, Constants DEF Mapped, LocalsFormed, SpawnPcs, procs, ShellTypes, MemoryTypes
<1>4. CASE table # NoFrame
  BY <1>1, <1>2, <1>4 DEF Mapped, LocalsFormed, SpawnPcs, procs, ShellTypes
<1> QED
  BY <1>3, <1>4

LEMMA SpawnMapKeepsIInv ==
  ASSUME IInv, Given, SpawnMap
  PROVE  IInv'
<1>1. PICK table : Mapped(table)
  BY SpawnMaps
<1>2. cr3' \in Frames /\ DirectoryRight'
  BY <1>1 DEF IInv, DirectoryRight, Building, cpu, Mapped
<1>3. /\ current_task = 0 /\ pc \in ReapedPcs /\ pc' \in ReapedPcs
      /\ UNCHANGED <<sched, procs, cpu, after, i>>
  BY <1>1, SpawnPoints DEF Mapped
<1> QED
  BY <1>1, <1>2, <1>3, MappedMemory, MappedEntries, MappedFrames, MappedLocals, SpawnStepKeepsIInv DEF cpu
-----------------------------------------------------------------------------
(* The image is copied, or something has failed *)

LEMMA SpawnImageKeepsIInv ==
  ASSUME IInv, Given, SpawnImage
  PROVE  IInv'
<1>1. PICK g \in HeapGrowth : Grows(g)
  BY DEF SpawnImage, Grows
<1>2. /\ current_task = 0 /\ pc = "image"
      /\ (pc' = "fail" /\ cr3' = cr3) \/ (pc' = "create" /\ cr3' = KernelDir)
      /\ UNCHANGED <<sched, procs, pde, pte, mode, iflag, esp0, after, i, sp>>
  BY DEF SpawnImage, At
<1>3. ShellTypes /\ Built(sp, pde, pte) /\ ~sp.is_kernel /\ ~process_table[sp.slot].active
  BY <1>2, MemoryIs, ZenonT(60) DEF IInv, LocalsFormed, SpawnPcs
<1>4. MemoryTypes' /\ KernelWindow' /\ Partitioned(FrameMap, free', heap_frames')
  BY <1>1, <1>2, HeapGrows, ZenonT(60)
<1>5. FramesPartitioned'
  <2>1. FrameMap' = FrameMap
    BY <1>2 DEF FrameMap, Locals, UserTable, procs
  <2> QED
    BY <1>4, <2>1 DEF FramesPartitioned
<1>6. EntriesFormed' /\ ShellTypes'
  BY <1>2, <1>3 DEF IInv, EntriesFormed, procs, ShellTypes, SpawnPcs
<1>7. LocalsFormed'
  BY <1>2, <1>3, ZenonT(60) DEF LocalsFormed, SpawnPcs, procs, Spaced, Built
<1>8. cr3' \in Frames \cup {KernelDir} /\ DirectoryRight'
  <2>1. cr3 = sp.cr3 /\ sp.cr3 \in Frames
    BY <1>2, <1>3 DEF IInv, DirectoryRight, Building, Built
  <2>2. CASE pc' = "fail"
    BY <1>2, <2>1, <2>2 DEF DirectoryRight, Building
  <2>3. CASE pc' = "create"
    BY <1>2, <1>6, <2>3, KernelDirectoryRight DEF Building, sched
  <2> QED
    BY <1>2, <2>2, <2>3
<1>9. pc \in ReapedPcs /\ pc' \in ReapedPcs
  BY <1>2, SpawnPoints
<1> QED
  BY <1>2, <1>4, <1>5, <1>6, <1>7, <1>8, <1>9, SpawnStepKeepsIInv

\* A spawn that fails leaves no locals, and the entries alone.
LEMMA LocalsCleared ==
  ASSUME UNCHANGED process_table, sp' = NoLocals
  PROVE  /\ OthersKept(ProcessMax) /\ HoldsNothing(Locals(ProcessMax)')
         /\ ProcessMax \in Holders /\ sp = Locals(ProcessMax)
         /\ \A s \in Slots : s \in Slots \ {ProcessMax}
BY SpawnHolder, EmptyFields DEF HoldsNothing

\* What is left to show of a spawn that fails.
LEMMA FailureKeepsIInv ==
  ASSUME IInv, Given, UNCHANGED <<sched, procs, mode, iflag, esp0, after, i>>,
         current_task = 0, pc \in ReapedPcs, pc' = "batch", sp' = NoLocals, cr3' = KernelDir,
         MemoryTypes', EntriesFormed', KernelWindow', FramesPartitioned'
  PROVE  IInv'
<1>1. ShellTypes' /\ LocalsFormed'
  BY MemoryIs, NoLocalsTyped DEF ShellTypes, LocalsFormed, SpawnPcs
<1>2. DirectoryRight'
  BY KernelDirectoryRight DEF Building, sched
<1> QED
  BY <1>1, <1>2, SpawnPoints, SpawnStepKeepsIInv

LEMMA SpawnFailKeepsIInv ==
  ASSUME IInv, Given, SpawnFail
  PROVE  IInv'
<1>1. /\ current_task = 0 /\ pc = "fail" /\ cr3' = KernelDir /\ pc' = "batch" /\ sp' = NoLocals
      /\ UNCHANGED <<sched, procs, mode, iflag, esp0, after, i>>
      /\ {} \in SUBSET free /\ GivesUp(sp, {})
  BY GivesUpOnly, ZenonT(60) DEF SpawnFail, At, FailDirectory
<1>2. HasSpace(sp)
  BY <1>1, MemoryIs DEF IInv, LocalsFormed, ShellTypes, HasSpace
<1>3. UNCHANGED process_table
  BY <1>1 DEF procs
<1>4. /\ MemoryTypes' /\ KernelWindow' /\ FramesPartitioned'
      /\ \A s \in Slots : SpaceKept(process_table[s], pde, pte, pde', pte')
  BY <1>1, <1>2, <1>3, LocalsCleared, ReleaseSpace
<1>5. EntriesFormed'
  BY <1>3, <1>4, EntriesKept
<1> QED
  BY <1>1, <1>4, <1>5, SpawnPoints, FailureKeepsIInv

\* scheduler_create_task finds no slot or no stack: a kernel process has nothing
\* to give up, a user process everything.
LEMMA CreateFailsKernel ==
  ASSUME IInv, SharesKernelSpace(sp), UNCHANGED <<process_table, pde, pte>>, sp' = NoLocals,
         NEW g \in HeapGrowth, Grows(g)
  PROVE  MemoryTypes' /\ KernelWindow' /\ FramesPartitioned' /\ EntriesFormed'
<1>1. MemoryTypes' /\ KernelWindow' /\ Partitioned(FrameMap, free', heap_frames')
  BY HeapGrows
<1>2. EntriesFormed'
  BY DEF IInv, EntriesFormed
<1>3. HoldsNothing(Locals(ProcessMax))
  BY LocalsCleared DEF SharesKernelSpace, HoldsNothing
<1> QED
  BY <1>1, <1>2, <1>3, LocalsCleared, HeldNothing DEF FramesPartitioned, MemoryTypes

LEMMA CreateFailsUser ==
  ASSUME IInv, Built(sp, pde, pte), UNCHANGED process_table, sp' = NoLocals,
         NEW g \in SUBSET free, GivesUp(sp, g)
  PROVE  MemoryTypes' /\ KernelWindow' /\ FramesPartitioned' /\ EntriesFormed'
<1>1. HasSpace(sp)
  BY DEF Built, HasSpace
<1>2. /\ MemoryTypes' /\ KernelWindow' /\ FramesPartitioned'
      /\ \A s \in Slots : SpaceKept(process_table[s], pde, pte, pde', pte')
  BY <1>1, LocalsCleared, ReleaseSpace
<1> QED
  BY <1>2, EntriesKept

LEMMA SpawnCreateFailsKeepsIInv ==
  ASSUME IInv, Given, SpawnCreateFails
  PROVE  IInv'
<1>1. /\ current_task = 0 /\ pc = "create" /\ pc' = "batch" /\ sp' = NoLocals
      /\ UNCHANGED <<sched, procs, cpu, after, i>>
  BY DEF SpawnCreateFails, At
<1>2. PICK g \in HeapGrowth : IF sp.is_kernel THEN Grows(g) /\ UNCHANGED <<pde, pte>> ELSE GivesUp(sp, g)
  BY ZenonT(60) DEF SpawnCreateFails, Grows, GivesUp
<1>3. Spaced(sp, pde, pte) /\ g \in SUBSET free /\ UNCHANGED process_table
  BY <1>1, GrowthFromPool DEF IInv, LocalsFormed, procs
<1>4. MemoryTypes' /\ KernelWindow' /\ FramesPartitioned' /\ EntriesFormed'
  BY <1>1, <1>2, <1>3, CreateFailsKernel, CreateFailsUser DEF Spaced
<1>5. ~Building /\ pc \in ReapedPcs
  BY <1>1, SpawnPoints DEF Building
<1>6. cr3' = KernelDir
  BY <1>1, <1>5, KernelDirectory DEF cpu
<1> QED
  BY <1>1, <1>4, <1>5, <1>6, FailureKeepsIInv DEF cpu
=============================================================================
