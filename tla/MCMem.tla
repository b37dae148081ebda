------------------------------- MODULE MCMem -------------------------------
(***************************************************************************)
(* CoilMem for TLC.                                                        *)
(***************************************************************************)
EXTENDS CoilMem, TLC

CONSTANTS a1, a2, t1, t2

Symmetry == Permutations({a1, a2}) \cup Permutations({t1, t2})
=============================================================================
