-------------------------------- MODULE MCDesk --------------------------------
(***************************************************************************)
(* Instances of OperatorDesk small enough for TLC.                         *)
(***************************************************************************)
EXTENDS OperatorDesk, TLC

CONSTANTS k1, k2, k3, k4, k5, r1, r2, A, B, n

Escalated(s, r, info) == [station |-> s, rule |-> r, info |-> info]

MCEvent == {Escalated(1, 1, FALSE), Escalated(1, 2, TRUE)}

\* The worker's alerts are of another station.
MCFinding == {Escalated(2, 1, FALSE)}

\* Two windows; a cap, and a negative one, which is none.
MCSetting ==
  {[window |-> 1, info |-> FALSE, cap |-> 1], [window |-> 2, info |-> TRUE, cap |-> -1]}

\* One code that is in upper case and one that is not.
MCUpper(code) == IF code = "a" THEN "A" ELSE code

Detected(s, r) == [station |-> s, rule |-> r]

\* Both codes and both rules, and one event twice.
MCBatch ==
  {<<Detected("A", r1), Detected("a", r1), Detected("A", r2)>>,
   <<Detected("A", r1), Detected("A", r1)>>}

Recorded(start, end) == [start |-> start, end |-> end]

\* Frames that follow one another, overlap and end together.
MCSpan == {Recorded(0, 1), Recorded(1, 3), Recorded(2, 3), Recorded(3, 4)}

Symmetry == Permutations({k1, k2})
=============================================================================
