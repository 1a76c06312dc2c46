------------------------------ MODULE SampleScan ------------------------------
(***************************************************************************)
(* ScanSamples (quality.go): stuck, saturated and ramping stretches of a   *)
(* sample block, found in one pass each and reported up to a cap.          *)
(* Positions count from one here.                                          *)
(***************************************************************************)
EXTENDS Integers, SequencesExt, FiniteSetsExt

CONSTANTS
  StuckRun,     \* stuckRunLength, 64
  RampRun,      \* rampRunLength, 1000
  Guard,        \* saturationLimit, 2^30
  MaxIssues     \* maxReportedIssues, 100

ScanParameters == {StuckRun, RampRun} \subseteq Nat \ {0, 1} /\ {Guard, MaxIssues} \subseteq Nat

Issue(index, kind, samples) == [index |-> index, kind |-> kind, value |-> samples[index]]

\* issueCollector.add: no more once the list is full.
Add(items, issue) == IF Len(items) >= MaxIssues THEN items ELSE Append(items, issue)

\* One step of scanStuck: sample i, or the end of the block, against the one
\* before it.
StuckStep(samples, st, i) ==
  IF i <= Len(samples) /\ samples[i] = samples[i - 1] THEN st
  ELSE [start |-> i,
        items |-> IF i - st.start >= StuckRun
                  THEN Add(st.items, Issue(st.start, "STUCK", samples)) ELSE st.items]

\* Positions after the first, and the one past the end.
Steps(samples) == [k \in 1..Len(samples) |-> k + 1]

ScanStuck(items, samples) ==
  FoldLeft(LAMBDA st, i : StuckStep(samples, st, i),
           [start |-> 1, items |-> items], Steps(samples)).items

ScanSaturated(items, samples) ==
  FoldLeft(LAMBDA found, i :
             IF samples[i] > Guard \/ -samples[i] > Guard
             THEN Add(found, Issue(i, "SATURATED", samples)) ELSE found,
           items, [k \in 1..Len(samples) |-> k])

Sign(x) == IF x > 0 THEN 1 ELSE IF x < 0 THEN -1 ELSE 0

Flushed(samples, st, end) ==
  IF st.dir # 0 /\ end - st.start >= RampRun
  THEN Add(st.items, Issue(st.start, "RAMP", samples)) ELSE st.items

\* A turn starts its run at the new sample, without the one it turned at.
RampStepAfterTurn(samples, st, i) ==
  IF i > Len(samples) THEN [st EXCEPT !.items = Flushed(samples, st, i)]
  ELSE LET step == Sign(samples[i] - samples[i - 1])
       IN  IF step # 0 /\ step = st.dir THEN st
           ELSE [items |-> Flushed(samples, st, i), start |-> i, dir |-> step]

\* One step of scanRamp: a step in the direction of the run extends it, a
\* turn ends it and starts the next at the sample it turned at, and a flat
\* step ends it.
RampStep(samples, st, i) ==
  IF i > Len(samples) THEN [st EXCEPT !.items = Flushed(samples, st, i)]
  ELSE LET step == Sign(samples[i] - samples[i - 1])
       IN  IF step # 0 /\ step = st.dir THEN st
           ELSE [items |-> Flushed(samples, st, i),
                 start |-> IF step = 0 THEN i ELSE i - 1, dir |-> step]

ScanRamp(items, samples) ==
  FoldLeft(LAMBDA st, i : RampStep(samples, st, i),
           [start |-> 1, dir |-> 0, items |-> items], Steps(samples)).items

ScanSamples(samples) == ScanRamp(ScanSaturated(ScanStuck(<<>>, samples), samples), samples)
-----------------------------------------------------------------------------
(* What the issues of a block are, by definition. *)

Stretch(samples) == {ab \in (1..Len(samples)) \X (1..Len(samples)) : ab[1] <= ab[2]}

\* The steps within samples[a..b] all have the sign dir.
Goes(samples, ab, dir) ==
  \A i \in (ab[1] + 1)..ab[2] : Sign(samples[i] - samples[i - 1]) = dir

\* Starts of the longest stretches with the sign dir and at least len samples.
RunStarts(samples, dir, len) ==
  {ab[1] : ab \in {r \in Stretch(samples) :
      /\ Goes(samples, r, dir) /\ r[2] - r[1] + 1 >= len
      /\ \A q \in Stretch(samples) :
           (q[1] <= r[1] /\ r[2] <= q[2] /\ Goes(samples, q, dir)) => q = r}}

Saturated(samples) == {i \in 1..Len(samples) : samples[i] \notin -Guard..Guard}

\* The numbers of a set, the smallest first.
Ascending(A) ==
  [k \in 1..Cardinality(A) |-> CHOOSE i \in A : Cardinality({j \in A : j <= i}) = k]

IssuesAt(starts, kind, samples) ==
  [k \in 1..Cardinality(starts) |-> Issue(Ascending(starts)[k], kind, samples)]

AllIssues(samples) ==
  IssuesAt(RunStarts(samples, 0, StuckRun), "STUCK", samples)
  \o IssuesAt(Saturated(samples), "SATURATED", samples)
  \o IssuesAt(RunStarts(samples, 1, RampRun) \cup RunStarts(samples, -1, RampRun),
              "RAMP", samples)
=============================================================================
