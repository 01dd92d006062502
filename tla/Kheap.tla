------------------------------- MODULE Kheap --------------------------------
(***************************************************************************)
(* The kernel heap, kernel/kheap.c: a doubly linked list of blocks, each a *)
(* header followed by its payload, first fit, split on allocation,         *)
(* coalesced on free, grown page by page at the end.                       *)
(*                                                                         *)
(* hdr is the memory the list occupies: the header at each address where a *)
(* block starts.  kmalloc and kfree run in task context and never yield,   *)
(* interrupt handlers do not call them: no two calls overlap.  Callers     *)
(* free what they were given, once.                                        *)
(***************************************************************************)
EXTENDS Integers, FiniteSets, FiniteSetsExt

CONSTANTS Page,         \* bytes per page
          InitialPages, \* KHEAP_INITIAL_PAGES
          GrowPages,    \* KHEAP_GROW_PAGES
          MaxPages,     \* bound: no frame or page table for more
          Sizes         \* the sizes callers ask for, up to 0x7FFFFFFF

Header == 16 \* sizeof(heap_block_t)

KheapAssumption ==
  /\ Page \in Nat /\ Page > Header /\ Page % 8 = 0
  /\ InitialPages \in Nat \ {0}
  /\ GrowPages \in Nat \ {0}
  /\ MaxPages \in Nat /\ MaxPages >= InitialPages
  /\ Sizes \subseteq Nat \ {0}

VARIABLES hdr, heap_end, heap_total, heap_used,
          live, \* the payload addresses callers hold, with the size they asked for
          pc,   \* "idle", or where kmalloc is
          size, \* kmalloc's argument
          left  \* pages heap_map_more still has to map

vars == <<hdr, heap_end, heap_total, heap_used, live, pc, size, left>>

Null == 0
KHEAP_START == Page \* any page boundary but 0

\* kheap_init
Init ==
  /\ hdr = [a \in {KHEAP_START} |->
             [size |-> InitialPages * Page - Header, free |-> TRUE, next |-> Null, prev |-> Null]]
  /\ heap_end = KHEAP_START + InitialPages * Page
  /\ heap_total = InitialPages * Page
  /\ heap_used = 0
  /\ live = [p \in {} |-> 0]
  /\ pc = "idle" /\ size = 0 /\ left = 0
-----------------------------------------------------------------------------
align_up_8_None(n) == n
align_up_8(n) == ((n + 7) \div 8) * 8

End(h, a) == a + Header + h[a].size

SplitNext_Unlinked(h, b, a, n) == h[a]
SplitNext(h, b, a, n) == [h[a] EXCEPT !.prev = n]

\* Cut block b down to want bytes when the rest can hold a header and 8 bytes.
SplitWorth(h, b, want) == h[b].size > want + Header + 8

heap_split_block(h, b, want) ==
  LET n == b + Header + want
      rest == [size |-> h[b].size - want - Header, free |-> TRUE, next |-> h[b].next, prev |-> b]
  IN  IF ~SplitWorth(h, b, want)
      THEN h
      ELSE [a \in DOMAIN h \cup {n} |->
             IF a = n THEN rest
             ELSE IF a = b THEN [h[b] EXCEPT !.size = want, !.next = n]
             ELSE IF a = h[b].next THEN SplitNext(h, b, a, n)
             ELSE h[a]]

\* Block b takes over the block after it.
Absorb(h, b) ==
  LET n == h[b].next
  IN  [a \in DOMAIN h \ {n} |->
        IF a = b THEN [h[b] EXCEPT !.size = h[b].size + Header + h[n].size, !.next = h[n].next]
        ELSE IF a = h[n].next THEN [h[a] EXCEPT !.prev = b]
        ELSE h[a]]

NextFree(h, b) == h[b].next # Null /\ h[h[b].next].free
PrevFree(h, b) == h[b].prev # Null /\ h[h[b].prev].free

heap_coalesce(h, b) ==
  LET h1 == IF NextFree(h, b) THEN Absorb(h, b) ELSE h
  IN  IF PrevFree(h1, b) THEN Absorb(h1, h1[b].prev) ELSE h1

\* One page of heap_map_more: a free last block grows, else a new one is linked.
Extended(h, tail) ==
  LET n == End(h, tail)
  IN  IF h[tail].free
      THEN [h EXCEPT ![tail].size = @ + Page]
      ELSE [a \in DOMAIN h \cup {n} |->
             IF a = n THEN [size |-> Page - Header, free |-> TRUE, next |-> Null, prev |-> tail]
             ELSE IF a = tail THEN [h[tail] EXCEPT !.next = n]
             ELSE h[a]]

\* The n-th block of the list, Null past its end.
Nth[n \in Nat] ==
  IF n = 0 THEN KHEAP_START
  ELSE LET b == Nth[n - 1] IN IF b = Null THEN Null ELSE hdr[b].next
Listed == {Nth[n] : n \in 0..Cardinality(DOMAIN hdr)} \ {Null}

Fits(b) == hdr[b].free /\ hdr[b].size >= align_up_8(size)
FirstFit == Nth[Min({n \in 0..Cardinality(DOMAIN hdr) : Nth[n] # Null /\ Fits(Nth[n])})]
-----------------------------------------------------------------------------
kmalloc(n) ==
  /\ pc = "idle"
  /\ pc' = "search"
  /\ size' = n
  /\ UNCHANGED <<hdr, heap_end, heap_total, heap_used, live, left>>

UsedAfter(h, b) == heap_used + h[b].size

kmalloc_fits ==
  LET b == FirstFit
      h == heap_split_block(hdr, b, align_up_8(size))
      p == b + Header
  IN  /\ pc = "search"
      /\ \E a \in Listed : Fits(a)
      /\ hdr' = [h EXCEPT ![b].free = FALSE]
      /\ heap_used' = UsedAfter(h, b)
      /\ live' = [q \in DOMAIN live \cup {p} |-> IF q = p THEN size ELSE live[q]]
      /\ pc' = "idle"
      /\ UNCHANGED <<heap_end, heap_total, size, left>>

kmalloc_grows ==
  /\ pc = "search"
  /\ ~\E a \in Listed : Fits(a)
  /\ pc' = "grow"
  /\ left' = GrowPages
  /\ UNCHANGED <<hdr, heap_end, heap_total, heap_used, live, size>>

\* A turn of heap_map_more's loop; after the last one kmalloc searches again.
heap_map_more ==
  /\ pc = "grow"
  /\ heap_total < MaxPages * Page
  /\ heap_end' = heap_end + Page
  /\ heap_total' = heap_total + Page
  /\ \E tail \in Listed : hdr[tail].next = Null /\ hdr' = Extended(hdr, tail)
  /\ left' = left - 1
  /\ pc' = IF left = 1 THEN "search" ELSE "grow"
  /\ UNCHANGED <<heap_used, live, size>>

\* No frame, or no page table: kmalloc returns 0, the pages mapped so far stay.
heap_map_more_fails ==
  /\ pc = "grow"
  /\ pc' = "idle"
  /\ UNCHANGED <<hdr, heap_end, heap_total, heap_used, live, size, left>>

Freeable(p) ==
  /\ p >= KHEAP_START + Header
  /\ p < heap_end
  /\ ~hdr[p - Header].free

UsedAfterFree(b) == IF heap_used >= hdr[b].size THEN heap_used - hdr[b].size ELSE 0

kfree(p) ==
  LET b == p - Header
  IN  /\ pc = "idle"
      /\ Freeable(p)
      /\ heap_used' = UsedAfterFree(b)
      /\ hdr' = heap_coalesce([hdr EXCEPT ![b].free = TRUE], b)
      /\ live' = [q \in DOMAIN live \ {p} |-> live[q]]
      /\ UNCHANGED <<heap_end, heap_total, pc, size, left>>

Next ==
  \/ \E n \in Sizes : kmalloc(n)
  \/ kmalloc_fits \/ kmalloc_grows \/ heap_map_more \/ heap_map_more_fails
  \/ \E p \in DOMAIN live : kfree(p)

Spec == Init /\ [][Next]_vars
-----------------------------------------------------------------------------
Blocks == DOMAIN hdr

TypeOK ==
  /\ Blocks \subseteq Nat \ {Null}
  /\ hdr \in [Blocks -> [size : Nat \ {0}, free : BOOLEAN, next : Nat, prev : Nat]]
  /\ heap_end \in Nat /\ heap_total \in Nat /\ heap_used \in Nat
  /\ DOMAIN live \subseteq Nat
  /\ live \in [DOMAIN live -> Sizes]
  /\ pc \in {"idle", "search", "grow"}
  /\ size \in Sizes \cup {0}
  /\ left \in 0..GrowPages
  /\ pc = "grow" => left > 0
  /\ pc # "idle" => size \in Sizes

\* The blocks tile the heap: the list starts at KHEAP_START, each block ends where
\* its successor starts, the last one at heap_end, and the back links are the
\* inverse of the forward ones.  No byte is in two blocks, none is lost, through
\* every order of splits, coalescings and growth.
HeapTiled ==
  /\ KHEAP_START \in Blocks /\ hdr[KHEAP_START].prev = Null
  /\ heap_end = KHEAP_START + heap_total
  /\ \A a \in Blocks :
       /\ a >= KHEAP_START
       /\ a # KHEAP_START => hdr[a].prev \in Blocks /\ hdr[hdr[a].prev].next = a
       /\ IF hdr[a].next = Null
          THEN End(hdr, a) = heap_end
          ELSE /\ hdr[a].next = End(hdr, a)
               /\ hdr[a].next \in Blocks
               /\ hdr[hdr[a].next].prev = a

\* Two free blocks are never neighbours: heap_coalesce, one step in each direction,
\* is enough, and growth never appends a free block to a free one.
NoAdjacentFree ==
  \A a \in Blocks : hdr[a].free /\ hdr[a].next # Null => ~hdr[hdr[a].next].free

\* The used blocks are those callers hold: each pointer kmalloc returned is the
\* 8-byte aligned payload of a used block at least as large as asked for, which
\* kfree will accept, and every used block is some caller's.
LiveBlocksUsed ==
  /\ \A p \in DOMAIN live :
       /\ p - Header \in Blocks
       /\ Freeable(p)
       /\ hdr[p - Header].size >= live[p]
       /\ p % 8 = 0
  /\ \A a \in Blocks : ~hdr[a].free => a + Header \in DOMAIN live

\* heap_used, which syscalls and the heap command report, is the sum of the used
\* blocks' sizes: the clamp to 0 in kfree never acts.
UsedExact ==
  heap_used = MapThenSumSet(LAMBDA a : hdr[a].size, {a \in Blocks : ~hdr[a].free})

\* The list of blocks stays well formed: it tiles the heap, is coalesced as far as
\* it can be, and is what heap_used counts, also when growth fails half way.
HeapConsistent == TypeOK /\ HeapTiled /\ NoAdjacentFree /\ UsedExact
=============================================================================
