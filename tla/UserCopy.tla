------------------------------ MODULE UserCopy ------------------------------
(***************************************************************************)
(* How kernel/syscall.c looks at a caller's memory: the range check on a   *)
(* pointer and size, over paging_translate and paging_user_accessible, and *)
(* copy_in_string, which checks and copies one byte at a time.             *)
(*                                                                         *)
(* Addresses are 0..NumBytes-1 and wrap; a page is mapped for everybody,   *)
(* for the kernel only, or not at all. The string a caller passes ends at  *)
(* the first zero byte at or after it, so one zero byte is enough.         *)
(***************************************************************************)
EXTENDS Integers

CONSTANTS PageSize, NumPages,
          DstSize  \* the kernel's buffer: 40, 64 or 128 bytes

ASSUME UserCopyAssumption ==
  /\ PageSize \in Nat \ {0, 1}
  /\ NumPages \in Nat \ {0}
  /\ DstSize \in Nat \ {0}

NumBytes == PageSize * NumPages
LastAddress == NumBytes - 1
Addresses == 0..(NumBytes - 1)

VARIABLES pages,     \* who can reach each page
          nul,       \* the address of the zero byte, NumBytes if there is none
          src, size, \* the caller's pointer and size
          user_only, \* the caller is not a kernel process
          copied, result, copy_at,
          reads      \* the addresses copy_in_string has read

copyVars == <<pages, nul, src, size, user_only, copied, result, copy_at, reads>>

CopyInit ==
  /\ pages \in [0..(NumPages - 1) -> {"none", "kernel", "user"}]
  /\ nul \in 0..NumBytes
  /\ src \in Addresses
  /\ size \in Addresses
  /\ user_only \in BOOLEAN
  /\ copied = 0 /\ result = 0 /\ copy_at = "loop" /\ reads = {}
-----------------------------------------------------------------------------
PageOf(a) == a \div PageSize

\* The pages the loops of ptr_range_mapped and paging_user_accessible go over
PagesOf(ptr, n) ==
  LET end == PageOf((ptr + n - 1) % NumBytes)
  IN  IF PageOf(ptr) >= end THEN {PageOf(ptr)} ELSE PageOf(ptr)..end

RangeWraps_Never(ptr, n) == FALSE
RangeWraps(ptr, n) == ptr > LastAddress - (n - 1)

ptr_range_mapped(ptr, n) ==
  /\ ptr # 0 /\ n # 0
  /\ ~RangeWraps(ptr, n)
  /\ \A p \in PagesOf(ptr, n) : pages[p] # "none"

paging_user_accessible(ptr, n) ==
  /\ n # 0
  /\ ~RangeWraps(ptr, n)
  /\ \A p \in PagesOf(ptr, n) : pages[p] = "user"

ptr_range_ok_Mapped(ptr, n) == ptr_range_mapped(ptr, n)
ptr_range_ok(ptr, n) ==
  /\ ptr_range_mapped(ptr, n)
  /\ user_only => paging_user_accessible(ptr, n)
-----------------------------------------------------------------------------
(* copy_in_string *)

At == (src + copied) % NumBytes
Fail == result' = LastAddress /\ copy_at' = "done"

Refuse ==
  /\ copy_at = "loop"
  /\ ~ptr_range_ok(At, 1)
  /\ Fail
  /\ UNCHANGED <<copied, reads>>

\* A zero byte within the buffer ends the copy.
Terminator ==
  /\ copy_at = "loop"
  /\ ptr_range_ok(At, 1)
  /\ At = nul
  /\ result' = copied /\ copy_at' = "done"
  /\ reads' = reads \cup {At}
  /\ UNCHANGED copied

LastByte == copied + 1 = DstSize

Character ==
  /\ copy_at = "loop"
  /\ ptr_range_ok(At, 1)
  /\ At # nul
  /\ reads' = reads \cup {At}
  /\ IF LastByte
     THEN Fail /\ UNCHANGED copied
     ELSE copied' = copied + 1 /\ UNCHANGED <<result, copy_at>>

CopyNext ==
  /\ Refuse \/ Terminator \/ Character
  /\ UNCHANGED <<pages, nul, src, size, user_only>>

CopySpec == CopyInit /\ [][CopyNext]_copyVars
-----------------------------------------------------------------------------
\* A byte the caller may have the kernel read or write for it
Allowed(a) == a \in Addresses \ {0} /\ pages[PageOf(a)] \in (IF user_only THEN {"user"} ELSE {"kernel", "user"})

\* The range check accepts exactly the non-empty ranges every byte of which the
\* caller may use: also across page boundaries, up to the last byte of the address
\* space, and with a size that would wrap around it.
RangeExact == ptr_range_ok(src, size) <=> size > 0 /\ \A k \in 0..(size - 1) : Allowed(src + k)

\* copy_in_string reads no byte the caller may not use, even one it does not copy.
ReadsAllowed == \A a \in reads : Allowed(a)

\* It returns the length of the caller's string if the string with its terminator
\* lies in memory the caller may use and fits the buffer, and fails otherwise.
CopyExact ==
  copy_at = "done" =>
    LET fits == \E n \in 0..(DstSize - 1) :
                  /\ src + n = nul
                  /\ \A k \in 0..n : Allowed(src + k)
    IN  result = IF fits THEN nul - src ELSE LastAddress

=============================================================================
