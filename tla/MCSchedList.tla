---------------------------- MODULE MCSchedList ----------------------------
(***************************************************************************)
(* An instance of SchedList for TLC.                                       *)
(***************************************************************************)
EXTENDS SchedList, TLC

\* Small slices; at least 2, because a tick that ends a slice does not age.
SmallQuantums == 0 :> 2 @@ 1 :> 3 @@ 2 :> 4
=============================================================================
