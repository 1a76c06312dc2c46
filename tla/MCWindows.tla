------------------------------ MODULE MCWindows ------------------------------
(***************************************************************************)
(* Instances of MaintenanceWindows small enough for TLC.                   *)
(***************************************************************************)
EXTENDS MaintenanceWindows, TLC

CONSTANTS s1, s2, c1, c2

Symmetry == Permutations(Client)
=============================================================================
