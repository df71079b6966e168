-------------------------------- MODULE Heap --------------------------------
(***************************************************************************)
(* The kernel heap: kmalloc and kfree of src/src/kernel/klibc/kmemory.c.   *)
(*                                                                         *)
(* The heap is the chain of its block headers in the order of the next     *)
(* pointers, each with its address.  kfree merges neighbouring free blocks *)
(* exactly as the code does, with the size the code computes: the merged   *)
(* block gets sizeof(header) plus the size of the LAST block of the run,   *)
(* so the bytes of the blocks before it are lost.                          *)
(***************************************************************************)
EXTENDS Integers, Sequences, FiniteSets, SeqFilter

CONSTANTS
  HEAP_START,   \* dynamic_heap_start
  HEAP_END,     \* identity_mapped_cieling, 0x7FFFFF
  HEADER,       \* sizeof(MemoryBlockHeader), 12
  MIN_SPLIT,    \* least payload worth a header of its own, 4
  Sizes         \* the sizes callers ask for

ASSUME HeapAssumption ==
  /\ HEAP_START \in Nat /\ HEAP_END \in Nat /\ HEADER \in Nat \ {0}
  /\ MIN_SPLIT \in Nat \ {0}
  /\ HEAP_START + HEADER + MIN_SPLIT <= HEAP_END
  /\ Sizes \subseteq Nat

VARIABLES
  heap,   \* sequence of headers [addr, size, is_free]
  held    \* pointer |-> size asked for, of the blocks not yet freed

vars == <<heap, held>>

Header(addr, size, is_free) == [addr |-> addr, size |-> size, is_free |-> is_free]

\* kmalloc_init: one free block.
Init ==
  /\ heap = <<Header(HEAP_START, HEAP_END - HEAP_START - HEADER, TRUE)>>
  /\ held = <<>>

-----------------------------------------------------------------------------
\* A slip for Fit: the header is counted as room.
FitWithHeader(n) == {i \in DOMAIN heap : heap[i].is_free /\ heap[i].size + HEADER >= n}

\* The blocks a request of n bytes could take; the loop takes the first.
Fit(n) == {i \in DOMAIN heap : heap[i].is_free /\ heap[i].size >= n}

\* A slip for Splits: no room is set aside for the new header.
SplitsTooEarly(i, n) == heap[i].size >= n + MIN_SPLIT

\* Whether block i is large enough to be split for n bytes.
Splits(i, n) == heap[i].size >= n + HEADER + MIN_SPLIT

\* A slip for Taken: the size of the remainder still includes the new header.
TakenHeaderLost(i, n) ==
  LET b == heap[i]
  IN  IF Splits(i, n)
      THEN SubSeq(heap, 1, i - 1)
             \o << Header(b.addr, n, FALSE), Header(b.addr + HEADER + n, b.size - n, TRUE) >>
             \o SubSeq(heap, i + 1, Len(heap))
      ELSE [heap EXCEPT ![i].is_free = FALSE]

\* The chain after block i is given to a request of n bytes.
Taken(i, n) ==
  LET b == heap[i]
  IN  IF Splits(i, n)
      THEN SubSeq(heap, 1, i - 1)
             \o << Header(b.addr, n, FALSE),
                   Header(b.addr + HEADER + n, b.size - n - HEADER, TRUE) >>
             \o SubSeq(heap, i + 1, Len(heap))
      ELSE [heap EXCEPT ![i].is_free = FALSE]

\* A request of 0 bytes, or one that no block fits, returns NULL.
kmalloc(n) ==
  /\ IF n = 0 \/ Fit(n) = {}
     THEN UNCHANGED vars
     ELSE LET i == Least(Fit(n))
              p == heap[i].addr + HEADER
          IN  /\ heap' = Taken(i, n)
              /\ held' = [q \in DOMAIN held \cup {p} |-> IF q = p THEN n ELSE held[q]]

-----------------------------------------------------------------------------
\* The blocks that the loop of kfree does not merge into the one before.
Kept(h) == {i \in DOMAIN h : i = 1 \/ ~(h[i - 1].is_free /\ h[i].is_free)}

\* The last block of the run that the k-th kept block absorbs.
RunEnd(h, k) == IF k < Cardinality(Kept(h)) THEN Nth(Kept(h), k + 1) - 1 ELSE Len(h)

Coalesced(h) ==
  [k \in 1..Cardinality(Kept(h)) |->
     LET first == Nth(Kept(h), k)
         last  == RunEnd(h, k)
     IN  IF first = last THEN h[first]
         ELSE [h[first] EXCEPT !.size = HEADER + h[last].size]]

\* A slip for kfree: free neighbours are not merged.
KfreeUnmerged(p) ==
  /\ p \in DOMAIN held
  /\ heap' = [i \in DOMAIN heap |->
                IF heap[i].addr = p - HEADER THEN [heap[i] EXCEPT !.is_free = TRUE] ELSE heap[i]]
  /\ held' = [q \in DOMAIN held \ {p} |-> held[q]]

\* A caller gives back a pointer that kmalloc returned to it.
kfree(p) ==
  /\ p \in DOMAIN held
  /\ heap' = Coalesced([i \in DOMAIN heap |->
                          IF heap[i].addr = p - HEADER THEN [heap[i] EXCEPT !.is_free = TRUE]
                          ELSE heap[i]])
  /\ held' = [q \in DOMAIN held \ {p} |-> held[q]]

Next ==
  \/ \E n \in Sizes : kmalloc(n)
  \/ \E p \in DOMAIN held : kfree(p)

Spec == Init /\ [][Next]_vars

-----------------------------------------------------------------------------
(* Properties.                                                             *)

\* The type of both variables.
TypeOK ==
  /\ heap \in Seq([addr : Nat, size : Nat, is_free : BOOLEAN])
  /\ \A p \in DOMAIN held : p \in Nat /\ held[p] \in Nat

\* Blocks lie one after the other inside the heap: no payload reaches into the
\* next header, whatever sequence of splits and wrongly sized merges led here.
BlocksDisjoint ==
  /\ heap # <<>> /\ heap[1].addr = HEAP_START
  /\ \A i \in DOMAIN heap :
       heap[i].addr + HEADER + heap[i].size
         <= IF i = Len(heap) THEN HEAP_END ELSE heap[i + 1].addr

\* Every pointer a caller holds is the payload of a block that is marked in
\* use, is on the chain, and has room for what was asked for; and no other
\* block is in use, so nothing leaks by staying marked.
HeldIsAllocated ==
  /\ DOMAIN held = {heap[i].addr + HEADER : i \in {j \in DOMAIN heap : ~heap[j].is_free}}
  /\ \A i \in DOMAIN heap : ~heap[i].is_free => heap[i].size >= held[heap[i].addr + HEADER]

\* No two free blocks are neighbours: a split leaves its remainder next to a
\* block in use, and kfree merges on both sides in one pass.
FullyMerged ==
  \A i \in 1..Len(heap) - 1 : ~(heap[i].is_free /\ heap[i + 1].is_free)
=============================================================================
