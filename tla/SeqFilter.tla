----------------------------- MODULE SeqFilter -----------------------------
(***************************************************************************)
(* Selecting the elements of a sequence that belong to a set, in order.    *)
(*                                                                         *)
(* The intrusive lists of src/src/kernel/ds/list.c are modelled as         *)
(* sequences.  A loop that walks a list and unlinks some of its nodes      *)
(* leaves the other nodes in their order, which is what Filter says.  It   *)
(* computes what SelectSeq computes, but without recursion: the k-th       *)
(* element of the result is found by counting, so that the facts proved in *)
(* SeqFilterProofs need no induction over sequences.                       *)
(***************************************************************************)
EXTENDS Naturals, Sequences, FiniteSets, Functions

\* How many members of the set of numbers K are at most i.
Rank(K, i) == Cardinality({j \in K : j <= i})

\* The k-th smallest member of K.
Nth(K, k) == CHOOSE i \in K : Rank(K, i) = k

\* The positions of s that hold a member of T.
Positions(s, T) == {i \in DOMAIN s : s[i] \in T}

\* The members of T that occur in s, in the order of s.
Filter(s, T) ==
  LET K == Positions(s, T)
  IN  [k \in 1..Cardinality(K) |-> s[Nth(K, k)]]

\* The smallest member of a set of numbers.
Least(K) == Nth(K, 1)

\* No element occurs twice in s.
Distinct(s) == \A i, j \in DOMAIN s : s[i] = s[j] => i = j
=============================================================================
