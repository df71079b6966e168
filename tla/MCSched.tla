------------------------------ MODULE MCSched ------------------------------
(***************************************************************************)
(* Instances of Sched for TLC.                                             *)
(***************************************************************************)
EXTENDS Sched, TLC

\* The kernel's own numbers (src/src/include/proc/sched.h:7-10).
KernelQuantums == 0 :> 40 @@ 1 :> 80 @@ 2 :> 120 @@ 3 :> 160

\* Small slices; at least 2, because a tick that ends a slice does not age.
SmallQuantums == 0 :> 2 @@ 1 :> 3 @@ 2 :> 4

\* The counting definition of Filter computes SelectSeq.
ASSUME FilterIsSelectSeq ==
  \A n \in 0..4 : \A s \in [1..n -> 1..3] : \A T \in SUBSET (1..3) :
    Filter(s, T) = SelectSeq(s, LAMBDA x : x \in T)
=============================================================================
