---------------------------- MODULE MCNginxVhost ----------------------------
(* Instances of NginxVhost for TLC. *)
EXTENDS NginxVhost, TLC

CONSTANTS p1, p2, n1, n2, v1, v2

MCProcs == {p1, p2}

Symmetry == Permutations(MCProcs) \cup Permutations({n1, n2})
=============================================================================
