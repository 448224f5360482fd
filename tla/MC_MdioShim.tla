---------------------------- MODULE MC_MdioShim ----------------------------
(***************************************************************************)
(* Model-checking instance of MdioShim: callers are model values and are   *)
(* interchangeable, so their permutations form a symmetry set.             *)
(***************************************************************************)
EXTENDS MdioShim, TLC

CONSTANTS p1, p2

MC_Procs1 == {p1}
MC_Procs2 == {p1, p2}

Symmetry == Permutations(Procs)

=============================================================================
