------------------------------ MODULE MCKernel ------------------------------
(* Model values for Kernel: two levels with short slices.                  *)
EXTENDS Kernel, TLC

SmallQuantums == 0 :> 2 @@ 1 :> 3
=============================================================================
