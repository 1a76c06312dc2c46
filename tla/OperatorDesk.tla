----------------------------- MODULE OperatorDesk -----------------------------
(***************************************************************************)
(* What operators keep and ask for beside the ingest path, side by side:   *)
(* the alert policy, the suppression rules, the station groups and the     *)
(* history of frames.  Their tables are their own; in each behaviour one   *)
(* of them moves.                                                          *)
(***************************************************************************)
EXTENDS Integers, Sequences

CONSTANTS
  Event, Finding, Caller, Setting, Hour, Minute, ListLimit,
  MaxAlerts, MaxClock, MaxSets,                                   \* AlertPolicy
  RuleCode, Upper(_), Rule, MaxHour, Filterer, Batch, MaxWrites,  \* SuppressionRules
  Code, Name, Client, MaxGroups, MaxFaults,                       \* StationGroups
  Span, MaxFrames, DefaultPageLimit, MaxPageLimit, AskedLimit, MaxWalks   \* FrameHistory

VARIABLES
  part,
  policy, alerts, clock, call, caps, sets,
  rules, ruled, writes, filtering, kept,
  known, names, members, creating, asked, created, removed, faults, clashes,
  frames, nextId, walk, begun, inserted, deleted, walks

Policy == INSTANCE AlertPolicy

Suppression ==
  INSTANCE SuppressionRules
    WITH Code <- RuleCode, Client <- Filterer, known <- ruled, call <- filtering

Groups == INSTANCE StationGroups WITH call <- creating

History == INSTANCE FrameHistory

ASSUME DeskAssumption ==
  /\ Policy!PolicyParameters /\ Suppression!SuppressionParameters
  /\ Groups!GroupsParameters /\ History!HistoryParameters

policyVars == <<policy, alerts, clock, call, caps, sets>>
suppressionVars == <<rules, ruled, writes, filtering, kept>>
groupVars == <<known, names, members, creating, asked, created, removed, faults, clashes>>
historyVars == <<frames, nextId, walk, begun, inserted, deleted, walks>>

Part == {"policy", "suppression", "groups", "history"}

\* A part that does not move need not begin in all its ways.
Init ==
  /\ part \in Part
  /\ Policy!Init /\ Suppression!Init /\ Groups!Init /\ History!Init
  /\ part # "policy" => policy = CHOOSE p \in Policy!Effective : TRUE

Next ==
  /\ \/ part = "policy" /\ Policy!Next
     \/ part # "policy" /\ UNCHANGED policyVars
  /\ \/ part = "suppression" /\ Suppression!Next
     \/ part # "suppression" /\ UNCHANGED suppressionVars
  /\ \/ part = "groups" /\ Groups!Next
     \/ part # "groups" /\ UNCHANGED groupVars
  /\ \/ part = "history" /\ History!Next
     \/ part # "history" /\ UNCHANGED historyVars
  /\ UNCHANGED part

vars == <<part, policyVars, suppressionVars, groupVars, historyVars>>

Spec == Init /\ [][Next]_vars
-----------------------------------------------------------------------------
(* The properties of the parts; each is stated, and explained, in its module. *)

\* A second alert from within the window has a reason.
DuplicatesExplained == Policy!DuplicatesExplained

\* Overlapping callers exceed the hourly cap by one each at most.
HourlyCapBounded == Policy!HourlyCapBounded

\* The dry run of the policy foretells an undisturbed escalation.
DryRunForetells == Policy!DryRunForetells

\* Bulk filter and single question agree about suppression.
FilterAgreesWithActive == Suppression!FilterAgreesWithActive

\* An answered group is complete, and remainders have a cause.
GroupsComplete == Groups!GroupsComplete

\* A walk through the pages misses and repeats no more than was changed.
WalkSeesEachOnce == History!WalkSeesEachOnce
=============================================================================
