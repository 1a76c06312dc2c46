---------------------------- MODULE FrameTimeline ----------------------------
(***************************************************************************)
(* The timeline of a channel's frames: the gaps that GapAnalysisService    *)
(* (frame_gap_analysis.go) reports, and the joints that VerifyTiming       *)
(* (timing.go) judges.  frames is the table in the order of its rows; a    *)
(* frame is named by its position.  Times and lengths of time count the    *)
(* instants of the clock (nanoseconds), reports whole milliseconds.        *)
(***************************************************************************)
EXTENDS Integers, Sequences, FiniteSetsExt, Functions

CONSTANTS
  Threshold,    \* model.GapWarnThresholdMs, 5000
  PerMilli      \* instants in a millisecond, 10^6 in the code

\* The rows of the query: the frames of channel ch that start in [from, to).
InRange(frames, ch, from, to) ==
  {i \in 1..Len(frames) : /\ frames[i].channel = ch
                          /\ from <= frames[i].start /\ frames[i].start < to}

\* ORDER BY start_time; rows with the same start stay in the order of the table,
\* one of the orders SQLite may give.
NotLater(frames, i, k) ==
  frames[i].start < frames[k].start \/ (frames[i].start = frames[k].start /\ i <= k)

\* The query without its ORDER BY.
TimelineAsStored(frames, es) ==
  [n \in 1..Cardinality(es) |-> CHOOSE i \in es : Cardinality({k \in es : k <= i}) = n]

\* The frames es, each at the place that those not later leave to it.
Timeline(frames, es) ==
  [n \in 1..Cardinality(es) |->
     CHOOSE i \in es : Cardinality({k \in es : NotLater(frames, k, i)}) = n]

\* time.Duration.Milliseconds: what is left of a whole one is dropped.
Milliseconds(length) ==
  IF length < 0 THEN -((-length) \div PerMilli) ELSE length \div PerMilli

\* DriftMs, and gapMs of the analysis: between the end of i and the start of k.
Drift(frames, i, k) == Milliseconds(frames[k].start - frames[i].end)

Gap(drift) == Max({drift, 0})

Overlap(drift) == Max({-drift, 0})

AbsI64(v) == IF v < 0 THEN -v ELSE v

IsClockJump(drift, tolerance) == AbsI64(drift) > AbsI64(tolerance)

\* The period counts instants; never for a rate that is not positive, whose
\* period is 0.
WithinSamplePeriod(drift, period) == AbsI64(drift) * PerMilli < period

Continuous(drift, tolerance, period) ==
  drift = 0 \/ (~IsClockJump(drift, tolerance) /\ WithinSamplePeriod(drift, period))

\* Drifts from frame to frame along the timeline.
Drifts(frames, es) ==
  LET line == Timeline(frames, es)
  IN  [k \in 1..(Cardinality(es) - 1) |-> Drift(frames, line[k], line[k + 1])]

\* How many there are, how long they are together and at most.
Tally(length) ==
  [gaps |-> Cardinality(DOMAIN length), total |-> SumFunction(length),
   max |-> Max({0} \cup Range(length))]

\* The loop over adjacent frames: drifts up to the threshold are passed over.
Measured(drifts) ==
  Tally([k \in {k \in DOMAIN drifts : drifts[k] > Threshold} |-> drifts[k]])

\* Refused: an empty range and a closed channel.
Analyzable(ch, closed, from, to) == from < to /\ ch \notin closed

Analyze(frames, ch, from, to) ==
  LET es == InRange(frames, ch, from, to)
      rep == Measured(Drifts(frames, es))
  IN  [channel |-> ch, frames |-> Cardinality(es),
       gaps |-> rep.gaps, total |-> rep.total, max |-> rep.max]

\* The report of b is not behind that of c: the most time lost first.
NotBehind(reports, b, c) ==
  reports[b].total > reports[c].total \/ (reports[b].total = reports[c].total /\ b <= c)

\* Channels that lost as much stay in order, the one among those sort.Slice may
\* choose that is followed here.
WorstFirst(reports, open) ==
  [n \in 1..Cardinality(open) |->
     reports[CHOOSE c \in open : Cardinality({b \in open : NotBehind(reports, b, c)}) = n]]

\* The channels of a station that Analyze does not refuse; a channel without
\* frames is among them.
ChannelGapSummary(frames, channels, closed, from, to) ==
  LET open == {ch \in channels : Analyzable(ch, closed, from, to)}
  IN  WorstFirst([ch \in open |-> Analyze(frames, ch, from, to)], open)
-----------------------------------------------------------------------------
(* What the gaps are, by definition. *)

\* From the end of one frame to the start of another without a frame between,
\* longer than the threshold by a millisecond at least.
Silence(frames, es) ==
  {ab \in {frames[i].end : i \in es} \X {frames[i].start : i \in es} :
     /\ ab[2] - ab[1] >= (Threshold + 1) * PerMilli
     /\ \A i \in es : frames[i].end <= ab[1] \/ ab[2] <= frames[i].start}

SilenceOf(frames, es) == Tally([ab \in Silence(frames, es) |-> Milliseconds(ab[2] - ab[1])])

\* No frame outlasts one that starts later, nor one with the same start.
InOrder(frames, es) ==
  \A i, k \in es : frames[i].start <= frames[k].start => frames[i].end <= frames[k].end

\* Never fewer, nor shorter; and exactly those if no frame outlasts another.
TellsSilences(frames, es, rep) ==
  LET real == SilenceOf(frames, es)
  IN  /\ rep.gaps >= real.gaps /\ rep.total >= real.total /\ rep.max >= real.max
      /\ InOrder(frames, es) =>
           rep.gaps = real.gaps /\ rep.total = real.total /\ rep.max = real.max

\* From the first start to the last end of the timeline.
Extent(frames, es) ==
  frames[Timeline(frames, es)[Cardinality(es)]].end - frames[Timeline(frames, es)[1]].start

\* What the frames, the gaps between them and their overlaps make of it.
Accounted(frames, es) ==
  LET drifts == Drifts(frames, es)
  IN  SumFunction([i \in es |-> frames[i].end - frames[i].start])
        + PerMilli * SumFunction([k \in DOMAIN drifts |-> Gap(drifts[k])])
        - PerMilli * SumFunction([k \in DOMAIN drifts |-> Overlap(drifts[k])])

\* But for less than a millisecond from each frame to the next.
AccountedFor(frames, es) ==
  AbsI64(Extent(frames, es) - Accounted(frames, es)) <= (PerMilli - 1) * (Cardinality(es) - 1)
=============================================================================
