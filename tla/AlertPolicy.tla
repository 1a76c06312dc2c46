----------------------------- MODULE AlertPolicy -----------------------------
(***************************************************************************)
(* Escalation under the alert policy (alert_policy.go, alert_service.go):  *)
(* EscalateDedup looks for a recent duplicate, counts the last hour and    *)
(* inserts, three database calls between which others escalate, the clock  *)
(* moves and the policy is swapped.  A call keeps the policy it began with.*)
(***************************************************************************)
EXTENDS Integers, Sequences, FiniteSetsExt

CONSTANTS
  Event,        \* QC events: station, rule, and whether of severity info
  Finding,      \* those the ingest worker escalates, all critical
  Caller,       \* goroutines that escalate under the policy
  Setting,      \* what SetAlertPolicy is given: window, info, cap
  Hour, Minute,
  ListLimit,    \* alerts recentDuplicate looks at; 100 in the code
  MaxAlerts, MaxClock,
  MaxSets       \* bound: calls of SetAlertPolicy

PolicyParameters ==
  /\ \A e \in Event \cup Finding : {"station", "rule", "info"} = DOMAIN e /\ e.info \in BOOLEAN
  /\ \A e \in Finding : ~e.info
  /\ Setting \subseteq [window : Int, info : BOOLEAN, cap : Int]
  /\ {Hour, Minute, ListLimit, MaxAlerts, MaxClock, MaxSets} \subseteq Nat
  /\ IsFiniteSet(Caller)

VARIABLES
  policy,       \* defaultPolicy
  alerts,       \* the table, by id
  clock,
  call,         \* what each caller's goroutine holds
  caps,         \* history: the values MaxPerHour has had
  sets

vars == <<policy, alerts, clock, call, caps, sets>>

NoCall == [pc |-> "idle"]

AtLeastZero(n) == IF n < 0 THEN 0 ELSE n

\* Negative limits are taken for zero.
Clamped(p) == [p EXCEPT !.window = AtLeastZero(@), !.cap = AtLeastZero(@)]

\* ORDER BY fired_at LIMIT: the oldest come first.
Oldest ==
  {S \in SUBSET DOMAIN alerts :
     /\ Cardinality(S) = Min({ListLimit, Len(alerts)})
     /\ \A i \in S, k \in DOMAIN alerts \ S : alerts[i].fired <= alerts[k].fired}

\* ORDER BY fired_at DESC LIMIT: among alerts of one instant any may be cut.
Newest ==
  {S \in SUBSET DOMAIN alerts :
     /\ Cardinality(S) = Min({ListLimit, Len(alerts)})
     /\ \A i \in S, k \in DOMAIN alerts \ S : alerts[i].fired >= alerts[k].fired}

SameKey(i, ev) == alerts[i].station = ev.station /\ alerts[i].rule = ev.rule

Duplicate(listed, ev, window, at) ==
  \E i \in listed : /\ SameKey(i, ev)
                    /\ alerts[i].fired + window >= at /\ alerts[i].fired <= at + Minute

\* CountSince of the hour before at, suppressed alerts included.
LastHour(station, at) ==
  Cardinality({i \in DOMAIN alerts : alerts[i].station = station /\ alerts[i].fired + Hour >= at})

\* The cap is left to EscalateDedup.
ShouldEscalateUncapped(ev, at) ==
  {~Duplicate(listed, ev, policy.window, at) : listed \in Newest}

\* The dry run: the answers ShouldEscalate may give.
ShouldEscalate(ev, at) ==
  {/\ policy.window > 0 => ~Duplicate(listed, ev, policy.window, at)
   /\ policy.cap > 0 => LastHour(ev.station, at) < policy.cap : listed \in Newest}

\* What the dry run said is void once something it rests on has changed.
Disturbed(calls) ==
  [c \in Caller |-> IF calls[c] = NoCall THEN NoCall ELSE [calls[c] EXCEPT !.foretold = {}]]

Returned(c) == [call EXCEPT ![c] = NoCall]

ThenCount(p) == IF p.cap > 0 THEN "count" ELSE "insert"
-----------------------------------------------------------------------------
Init ==
  /\ policy \in {Clamped(p) : p \in Setting}
  /\ alerts = <<>> /\ clock = 0
  /\ call = [c \in Caller |-> NoCall]
  /\ caps = {policy.cap}
  /\ sets = 0

SetAlertPolicy(p) ==
  /\ sets < MaxSets /\ sets' = sets + 1
  /\ policy' = Clamped(p) /\ caps' = caps \cup {policy'.cap}
  /\ call' = Disturbed(call)
  /\ UNCHANGED <<alerts, clock>>

\* An event of severity info that the policy drops goes no further.  begun and
\* foretold are history: the alerts there were and what the dry run said as the
\* call began.
EscalateDedup(c, ev) ==
  /\ call[c] = NoCall /\ ~(ev.info /\ policy.info)
  /\ call' = [call EXCEPT ![c] =
       [pc |-> IF policy.window > 0 THEN "look" ELSE ThenCount(policy), ev |-> ev, at |-> clock,
        asked |-> [window |-> policy.window, cap |-> policy.cap, begun |-> Len(alerts)],
        foretold |-> ShouldEscalate(ev, clock)]]
  /\ UNCHANGED <<policy, alerts, clock, caps, sets>>

\* capped is history: the alert was counted against a cap.
Store(ev, at, capped) ==
  /\ Len(alerts) < MaxAlerts
  /\ alerts' = Append(alerts,
       [station |-> ev.station, rule |-> ev.rule, fired |-> at,
        capped |-> capped])
  /\ UNCHANGED <<policy, clock, caps, sets>>

\* The ingest worker does not ask the policy.
Escalate(ev) ==
  /\ Store(ev, clock, FALSE)
  /\ call' = Disturbed(call)

GoOn(c, pc) == call' = [call EXCEPT ![c].pc = pc, ![c].at = clock]

\* recentDuplicate, for the time the call began.
LookForDuplicate(c) ==
  /\ call[c].pc = "look"
  /\ \E listed \in Newest :
       IF Duplicate(listed, call[c].ev, call[c].asked.window, call[c].at)
         THEN call' = Returned(c)
         ELSE GoOn(c, ThenCount(call[c].asked))
  /\ UNCHANGED <<policy, alerts, clock, caps, sets>>

\* The alert that reaches the cap passes.
CountPastCap(c) ==
  /\ call[c].pc = "count"
  /\ IF LastHour(call[c].ev.station, call[c].at) > call[c].asked.cap
       THEN call' = Returned(c)
       ELSE GoOn(c, "insert")
  /\ UNCHANGED <<policy, alerts, clock, caps, sets>>

\* CountLastHour takes the time anew, before it waits for the connection.
CountLastHour(c) ==
  /\ call[c].pc = "count"
  /\ IF LastHour(call[c].ev.station, call[c].at) >= call[c].asked.cap
       THEN call' = Returned(c)
       ELSE GoOn(c, "insert")
  /\ UNCHANGED <<policy, alerts, clock, caps, sets>>

\* The alert carries the time at which the previous call returned.
Insert(c) ==
  /\ call[c].pc = "insert"
  /\ Store(call[c].ev, call[c].at, call[c].asked.cap > 0)
  /\ call' = Disturbed(Returned(c))

\* A database call fails; EscalateDedup returns its error.
Fails(c) ==
  /\ call[c] # NoCall
  /\ call' = Returned(c)
  /\ UNCHANGED <<policy, alerts, clock, caps, sets>>

Tick ==
  /\ clock < MaxClock /\ clock' = clock + 1
  /\ call' = Disturbed(call)
  /\ UNCHANGED <<policy, alerts, caps, sets>>

Next ==
  \/ \E c \in Caller :
       \/ \E ev \in Event : EscalateDedup(c, ev)
       \/ LookForDuplicate(c) \/ CountLastHour(c) \/ Insert(c) \/ Fails(c)
  \/ \E ev \in Finding : Escalate(ev)
  \/ \E p \in Setting : SetAlertPolicy(p)
  \/ Tick

Spec == Init /\ [][Next]_vars
-----------------------------------------------------------------------------
Effective == {Clamped(p) : p \in Setting}

AlertRow == [station : {e.station : e \in Event \cup Finding},
             rule : {e.rule : e \in Event \cup Finding}, fired : 0..MaxClock, capped : BOOLEAN]

\* Alerts and calls keep their types, and a call was begun at an earlier time
\* and size of the table.
TypeOK ==
  /\ policy \in Effective /\ policy.cap \in caps /\ caps \subseteq {p.cap : p \in Effective}
  /\ alerts \in Seq(AlertRow) /\ clock \in 0..MaxClock
  /\ \A c \in Caller :
       \/ call[c] = NoCall
       \/ /\ call[c].pc \in {"look", "count", "insert"} /\ call[c].ev \in Event
          /\ call[c].asked.cap \in caps /\ call[c].asked.begun <= Len(alerts)
          /\ call[c].at <= clock /\ call[c].foretold \subseteq BOOLEAN
  /\ sets \in 0..MaxSets

\* A call that inserts an alert although the table has one of its station and
\* rule from within the window: that alert was stored after the call began, or
\* was crowded out of the list by as many later alerts, of any station, as the
\* list holds.
DuplicatesExplained ==
  [][\A c \in Caller, i \in DOMAIN alerts :
       (/\ call[c] # NoCall /\ call'[c] = NoCall /\ Len(alerts') > Len(alerts)
        /\ call[c].asked.window > 0 /\ SameKey(i, call[c].ev)
        /\ alerts[i].fired + call[c].asked.window >= call[c].at)
         => \/ i > call[c].asked.begun
            \/ Cardinality({k \in DOMAIN alerts \ {i} :
                              alerts[k].fired >= alerts[i].fired}) >= ListLimit]_vars

\* However the callers overlap, the alerts of a station that were counted
\* against a cap exceed the largest cap there has been, in any hour, by at most
\* the other callers, one each.  Rows and calls keep their types.
HourlyCapBounded ==
  /\ TypeOK
  /\ caps # {0} =>
       \A e \in Event, from \in 0..clock :
         Cardinality({i \in DOMAIN alerts :
                        /\ alerts[i].capped /\ alerts[i].station = e.station
                        /\ from <= alerts[i].fired /\ alerts[i].fired <= from + Hour})
           <= Max(caps) + Cardinality(Caller) - 1

\* The dry run foretells what EscalateDedup does if nothing intervenes: no
\* other alert, no new policy, no tick of the clock.
DryRunForetells ==
  [][\A c \in Caller :
       (/\ call[c] # NoCall /\ call'[c] = NoCall /\ call[c].foretold # {}
        /\ LookForDuplicate(c) \/ CountLastHour(c) \/ Insert(c))
         => (Len(alerts') > Len(alerts)) \in call[c].foretold]_vars
=============================================================================
