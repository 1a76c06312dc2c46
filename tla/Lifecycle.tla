------------------------------ MODULE Lifecycle ------------------------------
(***************************************************************************)
(* A set of things, each with a state of its own that moves along the      *)
(* edges of one graph.  The tables of the service that hold a status       *)
(* column promise a lifecycle; how far their handlers keep the promise is  *)
(* the subject of the modules that instantiate this one.                   *)
(***************************************************************************)
CONSTANTS Thing, Origin, Edge    \* Edge: pairs of states

VARIABLE state

Init == state = [t \in Thing |-> Origin]

\* One step may move several things, each along one edge.
Next ==
  /\ DOMAIN state' = Thing
  /\ \A t \in Thing : state'[t] # state[t] => <<state[t], state'[t]>> \in Edge

Spec == Init /\ [][Next]_state
=============================================================================
