---------------------------- MODULE MCCalibration ----------------------------
(***************************************************************************)
(* Instances of CalibrationJobs small enough for TLC.                      *)
(***************************************************************************)
EXTENDS CalibrationJobs, TLC

CONSTANTS j1, j2, k1, k2, k3

\* An early and a later window, so that one sweep finds both jobs or one; the empty
\* window is refused.
MCOrder == {[kind |-> "mass-center", at |-> 0, window |-> 1],
            [kind |-> "gain-check", at |-> 1, window |-> 1],
            [kind |-> "gain-check", at |-> 0, window |-> 0]}

\* For one kind a pass and a failure; for the other the first is incomplete and
\* the second a pass.
MCReport == {[k \in {"offset", "variance"} |-> "within"],
             [k \in {"offset", "variance", "gain_ratio", "snr"} |->
                IF k = "offset" THEN "outside" ELSE "within"]}

Symmetry == Permutations(Client) \cup Permutations(Job)
=============================================================================
