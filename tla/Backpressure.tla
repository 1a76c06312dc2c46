---------------------------- MODULE Backpressure ----------------------------
(***************************************************************************)
(* BackpressureMonitor (ingest_backpressure.go): the latest processing     *)
(* durations and their quantiles.  Every method holds the mutex for all it *)
(* does to the samples, so each is one step.                               *)
(***************************************************************************)
EXTENDS Integers, Sequences, FiniteSets, Functions

CONSTANTS
  Duration,       \* durations passed to Record; a negative one counts as 0
  Capacity,       \* m.max
  MaxRecords      \* bound: calls of Record since the last Reset

MonitorParameters == Capacity \in Nat \ {0} /\ Duration \subseteq Int

VARIABLES
  samples,        \* m.samples
  recorded        \* history: everything recorded since the last Reset

vars == <<samples, recorded>>

Init == samples = <<>> /\ recorded = <<>>

Clamped(d) == IF d < 0 THEN 0 ELSE d

\* Beyond capacity the oldest half goes at once.
Trimmed(s) == IF Len(s) > Capacity THEN SubSeq(s, Capacity \div 2 + 1, Len(s)) ELSE s

Record(d) ==
  /\ Len(recorded) < MaxRecords
  /\ samples' = Trimmed(Append(samples, Clamped(d)))
  /\ recorded' = Append(recorded, Clamped(d))

Reset == samples' = <<>> /\ recorded' = <<>>

Next == Reset \/ \E d \in Duration : Record(d)

Spec == Init /\ [][Next]_vars
-----------------------------------------------------------------------------
\* The sorted copy of a snapshot.
Sorted ==
  LET places == 1..Len(samples)
  IN  CHOOSE s \in {[k \in places |-> samples[p[k]]] : p \in Bijection(places, places)} :
        \A k \in 2..Len(samples) : s[k - 1] <= s[k]

\* Rank without rounding up.
RankDown(pct, n) == LET r == (pct * n) \div 100 IN IF r < 1 THEN 1 ELSE r

\* mathCeil(p * n) within 1..n; the product is exact enough at p = 0.95, 0.99
\* for every n up to the default capacity.
Rank(pct, n) == LET r == (pct * n + 99) \div 100 IN IF r < 1 THEN 1 ELSE IF r > n THEN n ELSE r

\* quantileNearestRank and Percentile of a non-empty history.
Quantile(pct) == Sorted[Rank(pct, Len(samples))]

\* Snapshot: the median is an index of its own.
Snapshot ==
  IF samples = <<>> THEN [p50 |-> 0, p95 |-> 0, p99 |-> 0, max |-> 0]
  ELSE [p50 |-> Sorted[(Len(samples) - 1) \div 2 + 1], p95 |-> Quantile(95),
        p99 |-> Quantile(99), max |-> Sorted[Len(samples)]]

\* The least sample that at least pct percent of the samples do not exceed.
IsQuantile(v, pct) ==
  LET upTo(x) == Cardinality({i \in 1..Len(samples) : samples[i] <= x})
      Reaches(x) == 100 * upTo(x) >= pct * Len(samples)
  IN  /\ \E i \in 1..Len(samples) : samples[i] = v
      /\ Reaches(v)
      /\ \A i \in 1..Len(samples) : samples[i] < v => ~Reaches(samples[i])

\* The samples are the latest durations in order: all of them until there are
\* more than the capacity, later never fewer than half of it; and never more
\* than the capacity, if that is at least two.
SamplesAreLatest ==
  /\ samples = SubSeq(recorded, Len(recorded) - Len(samples) + 1, Len(recorded))
  /\ Len(recorded) <= Capacity => samples = recorded
  /\ Len(recorded) > Capacity => 2 * Len(samples) > Capacity
  /\ Capacity > 1 => Len(samples) <= Capacity
  /\ \A i \in 1..Len(samples) : samples[i] >= 0

\* A snapshot shows the quantiles, ties included, of the latest durations.
SnapshotOfLatest ==
  /\ SamplesAreLatest
  /\ samples # <<>> =>
       /\ IsQuantile(Snapshot.p50, 50) /\ IsQuantile(Snapshot.p95, 95)
       /\ IsQuantile(Snapshot.p99, 99) /\ IsQuantile(Snapshot.max, 100)
=============================================================================
