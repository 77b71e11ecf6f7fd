------------------------- MODULE MCHazardVerification -------------------------
(* Instances of HazardVerification for TLC. *)
EXTENDS HazardVerification, TLC

CONSTANTS u1, u2, u3, u4, p1

Symmetry == Permutations(Users \ {Owner})
=============================================================================
