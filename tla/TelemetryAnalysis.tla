-------------------------- MODULE TelemetryAnalysis --------------------------
(***************************************************************************)
(* The pure algorithms on inputs that grow step by step: a block of        *)
(* samples, which is sent, compressed and scanned, a list of QC events,    *)
(* which is clustered and scored, and a table of frames, whose gaps are    *)
(* measured.  The three share nothing.                                     *)
(***************************************************************************)
EXTENDS FrameCodec, SampleScan

CONSTANTS
  Digit,        \* the samples of a block
  MaxSamples,   \* bound: length of a block
  Code,         \* station and channel codes
  Incident,     \* the events of a list: station, channel, time, ...
  MaxIncidents, \* bound: length of a list
  Span,         \* the window of a cluster
  Threshold, PerMilli,  \* GapWarnThresholdMs; instants in a millisecond
  StoredFrame,  \* frames of a table: channel, start, end
  MaxStored,    \* bound: frames in the table
  Perfect, ScoreLimit, DayLength,   \* of the health scores
  Now           \* the time at which health is asked for

Clusters == INSTANCE EventClusters

Timing == INSTANCE FrameTimeline

Health == INSTANCE HealthScores

ASSUME CodecAssumption == CodecParameters /\ Digit \subseteq Sample

ASSUME ScanAssumption == ScanParameters

ASSUME InputAssumption ==
  /\ Code \subseteq Seq(STRING)
  /\ Incident \subseteq [station : Nat, channel : Nat, at : Nat,
                         severity : {"critical", "warn", "info"}, status : {"open", "acked", "resolved"}]
  /\ Health!ScoreParameters /\ Now \in Nat /\ \A e \in Incident : e.at <= Now
  /\ StoredFrame \subseteq [channel : Nat, start : Nat, end : Nat]
  /\ \A f \in StoredFrame : f.start < f.end
  /\ IsFiniteSet({f.channel : f \in StoredFrame}) /\ IsFiniteSet({e.station : e \in Incident})
  /\ {MaxSamples, MaxIncidents, Span, Threshold, MaxStored} \subseteq Nat
  /\ PerMilli \in Nat \ {0}

VARIABLES samples, events, frames

Init == samples = <<>> /\ events = <<>> /\ frames = <<>>

Sampled(v) ==
  /\ events = <<>> /\ frames = <<>> /\ Len(samples) < MaxSamples
  /\ samples' = Append(samples, v) /\ UNCHANGED <<events, frames>>

Detected(e) ==
  /\ samples = <<>> /\ frames = <<>> /\ Len(events) < MaxIncidents
  /\ events' = Append(events, e) /\ UNCHANGED <<samples, frames>>

Stored(f) ==
  /\ samples = <<>> /\ events = <<>> /\ Len(frames) < MaxStored
  /\ frames' = Append(frames, f) /\ UNCHANGED <<samples, events>>

Next ==
  \/ \E v \in Digit : Sampled(v)
  \/ \E e \in Incident : Detected(e)
  \/ \E f \in StoredFrame : Stored(f)

Spec == Init /\ [][Next]_<<samples, events, frames>>
-----------------------------------------------------------------------------
\* Headers that declare the right count for samples, or one more.
Headers ==
  [station : Code, channel : Code, start : {0}, rate : {"valid"},
   count : {Len(samples), Len(samples) + 1}]

NulAtEnd(code) == code # <<>> /\ Last(code) = "nul"

\* What Build encodes Decode returns, unless a code ends in a NUL byte, which
\* the format cannot tell from padding; and a block that is compressed comes
\* back whole, the widest differences included.  All differences fit into the
\* bits of BitWidth, in two's complement, and into fewer only if one of them is
\* the least that one bit less holds, to which BitWidth gives that bit too many.
EncodedIsDecoded ==
  /\ \A h \in Headers :
       (Buildable(h, samples) /\ ~NulAtEnd(h.station) /\ ~NulAtEnd(h.channel)) =>
         /\ Decodable(Build(h, samples))
         /\ Decode(Build(h, samples)) =
              [station |-> h.station, channel |-> h.channel, start |-> h.start,
               rate |-> h.rate, samples |-> samples]
  /\ samples # <<>> =>
       /\ DeltaDecodeZigZag(DeltaEncodeZigZag(samples), Head(samples)) = samples
       /\ DeltaDecode(DeltaEncode(samples), Head(samples)) = samples
  /\ LET deltas == DeltaEncode(samples)
         Fits(bits) == \A d \in Range(deltas) : -(2 ^ (bits - 1)) <= d /\ d < 2 ^ (bits - 1)
     IN  /\ Fits(BitWidth(deltas))
         /\ \A bits \in 1..(BitWidth(deltas) - 1) :
              Fits(bits) => bits = BitWidth(deltas) - 1 /\ -(2 ^ (bits - 1)) \in Range(deltas)

\* The one-pass scans find exactly the longest flat, rising and falling
\* stretches and every saturated sample, up to the cap, in this order: a turn
\* belongs to the stretch on either side, a flat step to none.
ScanFindsStretches ==
  ScanSamples(samples) =
    SubSeq(AllIssues(samples), 1, Min({MaxIssues, Len(AllIssues(samples))}))

\* The clusters are the chains of events of a station with no silence longer
\* than the window, whatever order the events come in; an event that
\* was answered does not link two open ones among the open events.  A common
\* cause is seen in the chains of several channels that are all critical.
ClustersAreChains ==
  /\ Clusters!AreChains(events, 1..Len(events), Span, Clusters!ClusterByStation(events, Span))
  /\ Clusters!AreChains(events, Clusters!OpenOnly(events), Span,
                        Clusters!OpenClusters(events, Span))
  /\ LET alike == Clusters!CommonCauseClusters(events, Clusters!OpenClusters(events, Span))
     IN  UNION {Range(c) : c \in alike} =
           {e \in Clusters!OpenOnly(events) :
              Clusters!CommonCauseOf(events, Clusters!OpenOnly(events), e, Span)}
  /\ Clusters!Summarized(events, 1..Len(events), Span,
                         Clusters!Summarize(events, Clusters!ClusterByStation(events, Span)))

Stations == {e.station : e \in Incident}

\* A series of days ends today and has of each day the score that its own events
\* leave; a day with less than a perfect score has events in the report; no day
\* that is left out is worse than one of the worst; and the days since the start
\* of time lose all that the live score loses.
TellsDays(series, s, days) ==
  LET all == Health!AtStation(events, s)
      worst == Health!WorstDays(series, 2)
      lost == SumFunction([k \in 1..days |-> Perfect - series[k].score])
  IN  /\ series[days].day = Health!Day(Now)
      /\ \A k \in 1..days :
           /\ series[k].score = Health!PointsLeft(events,
                {e \in all : Health!Day(events[e].at) = series[k].day})
           /\ series[k].score < Perfect =>
                Health!Fired(events, s, series[k].day, 0, Now + 1) # {}
           /\ \A w \in 1..Len(worst) :
                series[k] \notin Range(worst) => worst[w].score <= series[k].score
      /\ days = Health!Day(Now) + 1 => lost >= Perfect - Health!PointsLeft(events, all)

\* What different parts of the service tell of the same events agrees.  The live
\* score is that of all open events of the station, or better when they are not
\* all among the latest.  The days made of its events tell them; when the history
\* answers, its days tell them too, the oldest day included, and it only fails
\* to when an event of those days is open.  The offenders have, between them, the
\* open critical events of the summary.
ScoresAgree ==
  /\ \A s \in Stations :
       LET all == Health!AtStation(events, s)
           exact == Health!PointsLeft(events, all)
       IN  /\ \A score \in Health!Scores(events, s) :
                score >= exact /\ (Cardinality(all) <= ScoreLimit => score = exact)
           /\ \A days \in 1..(Health!Day(Now) + 1) :
                LET answer == Health!History(events, s, Now, days)
                IN  /\ TellsDays(Health!DayScores(events, all, Now, days), s, days)
                    /\ answer.ok => TellsDays(answer.days, s, days)
                    /\ ~answer.ok => \E e \in all : /\ Health!IsOpen(events, e)
                                                    /\ events[e].at + days * DayLength >= Now
  /\ LET top == Health!TopOffenders(events, Stations, Cardinality(Stations))
     IN  /\ SumFunction([k \in 1..Len(top) |-> top[k].open]) =
              Cardinality(Health!OpenOf(events, "critical"))
         /\ \A k \in 2..Len(top) : top[k - 1].open >= top[k].open
         /\ Health!TopOffenders(events, Stations, 1) = SubSeq(top, 1, Min({1, Len(top)}))

Channels == {f.channel : f \in StoredFrame}

\* Ranges end just after the start of a frame; an empty one is refused.
Ends == {1} \cup {f.start + 1 : f \in Range(frames)}

\* Whatever the order in which frames were stored, the gaps reported are the
\* stretches of a millisecond more than the threshold in which no frame was
\* recorded, in number, length in whole milliseconds and maximum; if frames
\* overlap so that one outlasts its successor they are never fewer.  Joints that
\* VerifyTiming calls continuous are no gaps, and gaps less overlaps are what the
\* frames leave of the time from first to last, but for the part of a millisecond
\* that each joint may lose.  The summary has every channel that is not closed,
\* once, the worst first.
GapsAreSilences ==
  \A to \in Ends :
    /\ \A ch \in Channels :
         LET es == Timing!InRange(frames, ch, 0, to)
             rep == Timing!Analyze(frames, ch, 0, to)
             drifts == Timing!Drifts(frames, es)
         IN  /\ Timing!TellsSilences(frames, es, rep)
             /\ \A tolerance \in 0..Threshold, period \in 0..((Threshold + 1) * PerMilli) :
                  (\A k \in DOMAIN drifts : Timing!Continuous(drifts[k], tolerance, period))
                    => rep.gaps = 0
             /\ es # {} => Timing!AccountedFor(frames, es)
    /\ \A closed \in SUBSET Channels :
         LET summary == Timing!ChannelGapSummary(frames, Channels, closed, 0, to)
         IN  /\ Len(summary) = Cardinality(Channels \ closed)
             /\ {summary[k].channel : k \in 1..Len(summary)} = Channels \ closed
             /\ \A k \in 2..Len(summary) : summary[k - 1].total >= summary[k].total
=============================================================================
