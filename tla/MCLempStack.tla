----------------------------- MODULE MCLempStack -----------------------------
(* Instances of LempStack for TLC. *)
EXTENDS LempStack, TLC

CONSTANTS p1, p2

MCProcs == {p1, p2}

Symmetry == Permutations(MCProcs)
=============================================================================
