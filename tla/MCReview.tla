------------------------------ MODULE MCReview ------------------------------
(***************************************************************************)
(* Instances of EventReview small enough for TLC.                          *)
(***************************************************************************)
EXTENDS EventReview, TLC

CONSTANTS r1, r2, r3

Symmetry == Permutations(Reviewer)
=============================================================================
