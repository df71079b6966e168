------------------------------- MODULE MCHeap -------------------------------
(***************************************************************************)
(* A small heap for TLC, and the loop of kfree as the code writes it.      *)
(***************************************************************************)
EXTENDS Heap, TLC

\* The while loop of kfree, with the cursor at position i of the chain.
RECURSIVE MergeFrom(_, _)
MergeFrom(h, i) ==
  IF i >= Len(h) THEN h
  ELSE IF h[i].is_free /\ h[i + 1].is_free
       THEN MergeFrom([j \in 1..Len(h) - 1 |->
                         IF j = i THEN [h[i] EXCEPT !.size = HEADER + h[i + 1].size]
                         ELSE IF j > i THEN h[j + 1] ELSE h[j]], i)
       ELSE MergeFrom(h, i + 1)

\* The closed form Coalesced is what that loop computes, also for chains with
\* runs of free blocks longer than kfree ever meets.
ASSUME CoalescedIsLoop ==
  \A n \in 0..5 : \A free \in [1..n -> BOOLEAN] : \A big \in SUBSET (1..n) :
    LET h == [i \in 1..n |-> Header(100 * i, IF i \in big THEN 50 ELSE 7, free[i])]
    IN  Coalesced(h) = MergeFrom(h, 1)
=============================================================================
