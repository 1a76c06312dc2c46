----------------------------- MODULE HealthScores -----------------------------
(***************************************************************************)
(* What is told of the QC events of stations: the live score of a station  *)
(* (health_service.go) and its score day by day (health_history.go), the   *)
(* ranking of the network (network_stats.go) and the counts of the weekly  *)
(* report (report_summary.go).  events is the table; times are hours.      *)
(***************************************************************************)
EXTENDS Integers, Sequences, FiniteSetsExt, Functions

CONSTANTS
  Perfect,      \* 100
  ScoreLimit,   \* events Score looks at; 100
  DayLength     \* 24

ScoreParameters == {Perfect, ScoreLimit, DayLength} \subseteq Nat \ {0}

\* healthPenalty, and the constants of Score
Penalty == [critical |-> 15, warn |-> 5, info |-> 1]

IsOpen(events, e) == events[e].status = "open"

AtStation(events, s) == {e \in 1..Len(events) : events[e].station = s}

\* What the open ones among es cost.
Cost(events, es) ==
  SumFunction([e \in {e \in es : IsOpen(events, e)} |-> Penalty[events[e].severity]])

\* The points they leave.
PointsLeft(events, es) == Max({0, Perfect - Cost(events, es)})

\* ListByStation: ORDER BY detected_at DESC LIMIT, whatever the status; among
\* events of one time any may be cut.
Listed(events, s) ==
  LET all == AtStation(events, s)
  IN  {es \in SUBSET all :
         /\ Cardinality(es) = Min({ScoreLimit, Cardinality(all)})
         /\ \A e \in es, k \in all \ es : events[e].at >= events[k].at}

\* Score may answer any of these.
Scores(events, s) == {PointsLeft(events, es) : es \in Listed(events, s)}

Day(at) == at \div DayLength

\* One day less: the oldest day of the series is not all there.
SinceTooLate(now, days) == now - (days - 1) * DayLength

\* timeNow().AddDate(0, 0, -days)
Since(now, days) == now - days * DayLength

\* buildDayScores: the days up to today, the oldest first, each with what the
\* counted events of that day leave.
DayScores(events, counted, now, days) ==
  [k \in 1..days |->
     LET day == Day(now) - (days - k)
     IN  [day |-> day,
          score |-> PointsLeft(events, {e \in counted : Day(events[e].at) = day})]]

\* SQLite's date() of a stored time.  The driver stores what String makes of a
\* time.Time, zone and all, which date() does not read.
DateOf(at) == "NULL"

\* History: a day that is NULL does not scan into a string, and the error is
\* answered instead of the days.
History(events, s, now, days) ==
  LET counted == {e \in AtStation(events, s) :
                    IsOpen(events, e) /\ events[e].at >= Since(now, days)}
  IN  IF \E e \in counted : DateOf(events[e].at) = "NULL"
      THEN [ok |-> FALSE, days |-> <<>>]
      ELSE [ok |-> TRUE, days |-> DayScores(events, counted, now, days)]

Lower(a, b) == a.score < b.score \/ (a.score = b.score /\ a.day < b.day)

\* The days from the worst up, each at the place that those not better leave to it.
WorstDays(history, n) ==
  LET days == Range(history)
  IN  [k \in 1..Min({n, Len(history)}) |->
         CHOOSE day \in days : Cardinality({d \in days : ~Lower(day, d)}) = k]

\* Summary: open events of a severity, whatever their station.
OpenOf(events, severity) ==
  {e \in 1..Len(events) : IsOpen(events, e) /\ events[e].severity = severity}

OpenCritical(events, s) == Cardinality(OpenOf(events, "critical") \cap AtStation(events, s))

Worse(events, s, t) ==
  \/ OpenCritical(events, s) > OpenCritical(events, t)
  \/ OpenCritical(events, s) = OpenCritical(events, t) /\ s < t

\* The k-th of the offenders, by their open critical events, then by code.
OffenderAt(events, offenders, k) ==
  CHOOSE s \in offenders : Cardinality({t \in offenders : ~Worse(events, s, t)}) = k

TopOffenders(events, stations, n) ==
  LET offenders == {s \in stations : OpenCritical(events, s) > 0}
      Offender(s) == [station |-> s, open |-> OpenCritical(events, s)]
  IN  [k \in 1..Min({n, Cardinality(offenders)}) |-> Offender(OffenderAt(events, offenders, k))]

\* qcAggregates: events of a day within the report's range, answered ones too.
Fired(events, s, day, from, to) ==
  {e \in AtStation(events, s) :
     from <= events[e].at /\ events[e].at < to /\ Day(events[e].at) = day}
=============================================================================
