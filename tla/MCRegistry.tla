----------------------------- MODULE MCRegistry -----------------------------
(***************************************************************************)
(* Instances of StationRegistry small enough for TLC.                      *)
(***************************************************************************)
EXTENDS StationRegistry, TLC

CONSTANTS a, y, z, c1, c2

Symmetry == Permutations(Client) \cup Permutations(ChannelCode)
=============================================================================
