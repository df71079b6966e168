------------------------------- MODULE MCVmm -------------------------------
(* Model values for Vmm: the three processes of the kernel, memories that  *)
(* end, with the pages of the callers, at every point of their creation    *)
(* and one in which everything fits, and a page that needs a table of its  *)
(* own.                                                                    *)
EXTENDS Vmm

MCBoot     == <<"idle", "p1", "p2">>
MCMemories == 5 .. 11 \cup {13, 17, 22}
MCExplicit == {<<6, 1>>}
=============================================================================
