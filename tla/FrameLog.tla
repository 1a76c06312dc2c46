------------------------------ MODULE FrameLog ------------------------------
(***************************************************************************)
(* What frame ingestion promises to whoever submits telemetry, with the    *)
(* queue, the worker, the database calls and every failure left out:       *)
(* frames are accepted in some order, and any of them may later become a   *)
(* row of the frames table, at most once and in the order of acceptance.   *)
(***************************************************************************)
EXTENDS Naturals, Sequences

CONSTANT Payload        \* what a client can submit

VARIABLES accepted,     \* payloads accepted so far, in order
          stored        \* indices into accepted, one per row of the table

vars == <<accepted, stored>>

Init == accepted = <<>> /\ stored = <<>>

Accept(p) == accepted' = Append(accepted, p) /\ UNCHANGED stored

Store(i) ==
  /\ \A k \in 1..Len(stored) : stored[k] < i
  /\ stored' = Append(stored, i)
  /\ UNCHANGED accepted

Next == (\E p \in Payload : Accept(p)) \/ (\E i \in 1..Len(accepted) : Store(i))

Spec == Init /\ [][Next]_vars
=============================================================================
