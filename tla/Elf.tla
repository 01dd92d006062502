-------------------------------- MODULE Elf ---------------------------------
(***************************************************************************)
(* process_load_elf32_single_page, kernel/process.c: the loader of ELF     *)
(* images, one loop round per program header.                              *)
(*                                                                         *)
(* Numbers are words, 0..Word-1, and sums and differences wrap. The header *)
(* checks that compare a field with a fixed value are one input. A byte of *)
(* the image is told apart by its offset: the page records, for each of    *)
(* its bytes, the offset it was copied from. A program header is chosen    *)
(* when the loop reads it, each being read once.                           *)
(***************************************************************************)
EXTENDS Words, Sequences

CONSTANTS CodeVaddr,  \* PROCESS_USER_CODE_VADDR
          CodeSize,   \* PROCESS_USER_CODE_SIZE
          EhdrSize, PhdrSize,
          MaxImage,   \* PROCESS_USER_IMAGE_MAX, the longest image
          MaxPhnum,   \* bound: program headers in an image
          Values      \* the words an image may hold

ASSUME ElfAssumption ==
  /\ Word \in Nat /\ CodeVaddr \in Nat /\ CodeSize \in Nat \ {0}
  /\ CodeVaddr + CodeSize < Word
  /\ EhdrSize \in Nat \ {0} /\ PhdrSize \in Nat \ {0}
  /\ MaxImage \in Nat /\ MaxImage < Word
  /\ MaxPhnum \in Nat /\ MaxPhnum * PhdrSize < Word
  /\ Values \subseteq 0..(Word - 1)

Zero == -1   \* a byte cleared
Stale == -2  \* what the frame held before
Headers == [load : BOOLEAN, offset : Values, vaddr : Values, filesz : Values, memsz : Values]

VARIABLES image_len, fields,         \* fields: the fixed fields are as they should be
          e_phoff, e_phnum, e_entry,
          code,                      \* the page
          i, loaded_any, entry_in_load,
          segs,                      \* the segments copied so far
          cause,                     \* why the image is rejected, if it is
          elf_at                     \* head, loop, accepted or rejected

header == <<image_len, fields, e_phoff, e_phnum, e_entry>>
elfVars == <<header, code, i, loaded_any, entry_in_load, segs, cause, elf_at>>

PageBytes == 0..(CodeSize - 1)

ElfInit ==
  /\ image_len \in 0..MaxImage /\ fields \in BOOLEAN
  /\ e_phoff \in Values /\ e_phnum \in 0..MaxPhnum /\ e_entry \in Values
  /\ code = [b \in PageBytes |-> Stale]
  /\ i = 0 /\ loaded_any = FALSE /\ entry_in_load = FALSE
  /\ segs = <<>> /\ cause = "none" /\ elf_at = "head"
-----------------------------------------------------------------------------
Minus(a, b) == IF a >= b THEN a - b ELSE a - b + Word
Plus(a, b) == IF a + b < Word THEN a + b ELSE a + b - Word

\* Where the table of program headers may start
TableFits ==
  /\ e_phoff <= image_len
  /\ e_phnum > 0 => e_phoff <= Minus(image_len, e_phnum * PhdrSize)

Cleared(page) == [b \in PageBytes |-> Zero]

HeadReject ==
  /\ elf_at = "head"
  /\ image_len < EhdrSize \/ ~fields \/ ~TableFits
  /\ elf_at' = "rejected" /\ cause' = "header"
  /\ UNCHANGED <<header, code, i, loaded_any, entry_in_load, segs>>

HeadAccept ==
  /\ elf_at = "head"
  /\ image_len >= EhdrSize /\ fields /\ TableFits
  /\ code' = Cleared(code)
  /\ elf_at' = "loop"
  /\ UNCHANGED <<header, i, loaded_any, entry_in_load, segs, cause>>
-----------------------------------------------------------------------------
(* One round of the loop *)

End(s) == s.vaddr + s.memsz

\* What the checks are for, said with exact arithmetic; the properties use it.
FitsExactly(ph) ==
  /\ ph.vaddr >= CodeVaddr /\ End(ph) <= CodeVaddr + CodeSize
  /\ ph.filesz <= ph.memsz
  /\ ph.offset + ph.filesz <= image_len

SegmentOk_NoFileCheck(ph) ==
  /\ ph.vaddr <= UINT32_MAX - ph.memsz
  /\ ph.filesz <= ph.memsz
  /\ ph.vaddr >= CodeVaddr
  /\ LET seg_off == ph.vaddr - CodeVaddr
     IN  seg_off <= CodeSize /\ ph.memsz <= CodeSize - seg_off

SegmentOk_TooStrict(ph) ==
  /\ ph.filesz <= ph.memsz
  /\ ph.offset < image_len /\ ph.filesz <= image_len - ph.offset
  /\ ph.vaddr >= CodeVaddr
  /\ LET seg_off == ph.vaddr - CodeVaddr
     IN  seg_off < CodeSize /\ ph.memsz < CodeSize - seg_off

SegmentOk(ph) ==
  /\ ph.vaddr <= UINT32_MAX - ph.memsz
  /\ ph.filesz <= ph.memsz
  /\ ph.offset <= image_len /\ ph.filesz <= image_len - ph.offset
  /\ ph.vaddr >= CodeVaddr
  /\ LET seg_off == ph.vaddr - CodeVaddr
     IN  seg_off <= CodeSize /\ ph.memsz <= CodeSize - seg_off

\* mem_copy_u8 of the file's part, mem_zero_u8 of the rest
Loaded_NoTail(page, ph) ==
  [b \in PageBytes |->
     LET k == b - (ph.vaddr - CodeVaddr)
     IN  IF k \in 0..(ph.filesz - 1) THEN ph.offset + k ELSE page[b]]
Loaded(page, ph) ==
  [b \in PageBytes |->
     LET k == b - (ph.vaddr - CodeVaddr)
     IN  IF k \in 0..(ph.filesz - 1) THEN ph.offset + k
         ELSE IF k \in ph.filesz..(ph.memsz - 1) THEN Zero
         ELSE page[b]]

HoldsEntry(ph) == e_entry >= ph.vaddr /\ e_entry < Plus(ph.vaddr, ph.memsz)

Skip(ph) ==
  /\ elf_at = "loop" /\ i < e_phnum
  /\ ~ph.load \/ ph.memsz = 0
  /\ i' = i + 1
  /\ UNCHANGED <<header, code, loaded_any, entry_in_load, segs, cause, elf_at>>

SegmentReject(ph) ==
  /\ elf_at = "loop" /\ i < e_phnum
  /\ ph.load /\ ph.memsz # 0 /\ ~SegmentOk(ph)
  /\ elf_at' = "rejected" /\ cause' = IF FitsExactly(ph) THEN "none" ELSE "segment"
  /\ UNCHANGED <<header, code, i, loaded_any, entry_in_load, segs>>

SegmentLoad(ph) ==
  /\ elf_at = "loop" /\ i < e_phnum
  /\ ph.load /\ ph.memsz # 0 /\ SegmentOk(ph)
  /\ code' = Loaded(code, ph)
  /\ entry_in_load' = (entry_in_load \/ HoldsEntry(ph))
  /\ loaded_any' = TRUE
  /\ segs' = Append(segs, ph)
  /\ i' = i + 1
  /\ UNCHANGED <<header, cause, elf_at>>

EntryOk ==
  loaded_any /\ e_entry >= CodeVaddr /\ e_entry < CodeVaddr + CodeSize /\ entry_in_load

Finish ==
  /\ elf_at = "loop" /\ i = e_phnum
  /\ elf_at' = IF EntryOk THEN "accepted" ELSE "rejected"
  /\ cause' = IF EntryOk THEN "none" ELSE "entry"
  /\ UNCHANGED <<header, code, i, loaded_any, entry_in_load, segs>>

ElfNext ==
  \/ HeadReject \/ HeadAccept
  \/ \E ph \in Headers : Skip(ph) \/ SegmentReject(ph) \/ SegmentLoad(ph)
  \/ Finish

ElfSpec == ElfInit /\ [][ElfNext]_elfVars
-----------------------------------------------------------------------------
\* Each segment that is copied lies, with exact arithmetic, in the code page,
\* and its bytes in the image: nothing is written beyond the page or read
\* beyond the image.
SegmentsInside == \A k \in 1..Len(segs) : FitsExactly(segs[k])

\* The segments that cover an address, and what the page should hold there.
Covering(ss, at) == {k \in 1..Len(ss) : ss[k].vaddr <= at /\ at < End(ss[k])}
Highest(S) == CHOOSE k \in S : \A j \in S : j <= k
ByteOf(seg, at) == IF at - seg.vaddr < seg.filesz THEN seg.offset + (at - seg.vaddr) ELSE Zero
Expected(ss, at) ==
  IF Covering(ss, at) = {} THEN Zero ELSE ByteOf(ss[Highest(Covering(ss, at))], at)

\* The page is what the segments say: a byte comes from the last segment that
\* covers it, which gives it a byte of the image or zero, and a byte no segment
\* covers is zero, never what the frame held before.
PageExact ==
  elf_at \in {"loop", "accepted"} => \A b \in PageBytes : code[b] = Expected(segs, CodeVaddr + b)

\* An image that is accepted starts in one of its segments ("validates PT_LOAD
\* segment constraints and entrypoint placement").
EntryInSegment ==
  elf_at = "accepted" =>
    \E k \in 1..Len(segs) : segs[k].vaddr <= e_entry /\ e_entry < End(segs[k])

\* An image is rejected only for cause: its header, a segment that does not
\* fit with exact arithmetic either, or an entry point that no segment holds.
RejectedForCause ==
  elf_at = "rejected" =>
    \/ cause \in {"header", "segment"}
    \/ /\ cause = "entry"
       /\ \A k \in 1..Len(segs) : e_entry \notin segs[k].vaddr..(End(segs[k]) - 1)

\* An image that is accepted contains the program headers it was loaded from
\* ("supports strict ELF32 ET_EXEC parsing").
TableInImage ==
  elf_at = "accepted" => e_phoff + e_phnum * PhdrSize <= image_len
=============================================================================
