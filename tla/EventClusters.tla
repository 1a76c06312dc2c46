---------------------------- MODULE EventClusters ----------------------------
(***************************************************************************)
(* ClusterByStation and OpenClusters (event_correlate.go): QC events that  *)
(* follow each other closely at one station.  events is the slice of the   *)
(* caller, in any order; an event is named by its position in it.          *)
(***************************************************************************)
EXTENDS Integers, SequencesExt, FiniteSetsExt

\* Less of the sort; equal events keep the order of the slice, the one among
\* those sort.Slice may choose that is followed here.
Before(events, i, k) ==
  \/ events[i].station < events[k].station
  \/ events[i].station = events[k].station /\ events[i].at < events[k].at
  \/ events[i].station = events[k].station /\ events[i].at = events[k].at /\ i < k

\* The cluster's first event is compared, not its last.
ExtendsHead(events, cluster, e, window) ==
  /\ events[cluster[1]].station = events[e].station
  /\ events[e].at - events[cluster[1]].at <= window

\* The cluster's last event is of the station of e and at most window older.
Extends(events, cluster, e, window) ==
  /\ events[Last(cluster)].station = events[e].station
  /\ events[e].at - events[Last(cluster)].at <= window

\* The events es sorted: each at the place that those before it leave to it.
NotAfter(events, i, k) == i = k \/ Before(events, i, k)

InTurn(events, es) ==
  [n \in 1..Cardinality(es) |->
     CHOOSE e \in es : Cardinality({k \in es : NotAfter(events, k, e)}) = n]

\* One turn of the loop: e goes into the last cluster, or into one of its own.
Grown(events, clusters, e, window) ==
  IF clusters # <<>> /\ Extends(events, Last(clusters), e, window)
  THEN [clusters EXCEPT ![Len(clusters)] = Append(@, e)]
  ELSE Append(clusters, <<e>>)

\* The loop over the sorted events es.
Cluster(events, es, window) ==
  FoldLeft(LAMBDA clusters, e : Grown(events, clusters, e, window), <<>>, InTurn(events, es))

ClusterByStation(events, window) == Cluster(events, 1..Len(events), window)

\* QCEvent.Open
OpenOnly(events) == {e \in 1..Len(events) : events[e].status = "open"}

\* Events that were answered, acknowledged ones too, are left out before the
\* clusters are formed.
OpenClusters(events, window) == Cluster(events, OpenOnly(events), window)

\* At least two channels, and critical events only.
LikelyCommonCause(events, cluster) ==
  /\ \A e \in Range(cluster) : events[e].severity = "critical"
  /\ Cardinality({events[e].channel : e \in Range(cluster)}) >= 2

\* The order of the result, that of the clusters, is left out.
CommonCauseClusters(events, clusters) ==
  {c \in Range(clusters) : LikelyCommonCause(events, c)}

CriticalCount(events, cluster) ==
  Cardinality({e \in Range(cluster) : events[e].severity = "critical"})

\* The summary of one cluster; Span is from its first event to its last.
Summary(events, cluster) ==
  [station |-> events[cluster[1]].station, count |-> Len(cluster),
   channels |-> {events[e].channel : e \in Range(cluster)},
   critical |-> CriticalCount(events, cluster),
   common |-> LikelyCommonCause(events, cluster),
   span |-> events[Last(cluster)].at - events[cluster[1]].at]

Larger(a, b) == a.count > b.count \/ (a.count = b.count /\ a.station < b.station)

\* The summary at c is not behind that at d; equal ones keep their order, the one
\* among those sort.Slice may choose that is followed here.
Ahead(summaries, c, d) ==
  \/ Larger(summaries[c], summaries[d])
  \/ ~Larger(summaries[d], summaries[c]) /\ c <= d

Ranking(summaries) ==
  [n \in 1..Len(summaries) |->
     CHOOSE c \in 1..Len(summaries) :
       Cardinality({b \in 1..Len(summaries) : Ahead(summaries, b, c)}) = n]

\* Summarize: the clusters with most events first, then by station.
Summarize(events, clusters) ==
  LET summaries == [c \in 1..Len(clusters) |-> Summary(events, clusters[c])]
  IN  [n \in 1..Len(summaries) |-> summaries[Ranking(summaries)[n]]]
-----------------------------------------------------------------------------
(* Which events belong together, by definition. *)

\* Between the times of i and k no silence of the station, among the events
\* es, is longer than the window.
Linked(events, es, i, k, window) ==
  LET early == Min({events[i].at, events[k].at})
      late == Max({events[i].at, events[k].at})
      times == {events[e].at : e \in {e \in es : events[e].station = events[i].station}}
  IN  /\ events[i].station = events[k].station
      /\ \A t \in times : (early <= t /\ t < late) =>
           \E u \in times : t < u /\ u - t <= window

\* The clusters partition es into the linked events, and are in order.
AreChains(events, es, window, clusters) ==
  /\ UNION {Range(clusters[c]) : c \in 1..Len(clusters)} = es
  /\ SumFunction([c \in 1..Len(clusters) |-> Len(clusters[c])]) = Cardinality(es)
  /\ \A c, d \in 1..Len(clusters) : \A i \in Range(clusters[c]), k \in Range(clusters[d]) :
       c = d <=> Linked(events, es, i, k, window)
  /\ \A c \in 2..Len(clusters) :
       Before(events, clusters[c - 1][1], clusters[c][1])

\* The summaries are those of chains: each covers its events with no silence
\* longer than the window, none is left out, and the largest come first.
Summarized(events, es, window, summaries) ==
  /\ SumFunction([c \in 1..Len(summaries) |-> summaries[c].count]) = Cardinality(es)
  /\ SumFunction([c \in 1..Len(summaries) |-> summaries[c].critical]) =
       Cardinality({e \in es : events[e].severity = "critical"})
  /\ \A c \in 1..Len(summaries) :
       /\ 0 <= summaries[c].span /\ summaries[c].span <= (summaries[c].count - 1) * window
       /\ summaries[c].common <=>
            (summaries[c].critical = summaries[c].count /\ Cardinality(summaries[c].channels) > 1)
  /\ \A c \in 2..Len(summaries) : ~Larger(summaries[c], summaries[c - 1])

\* What e is linked to is critical throughout and of several channels.
CommonCauseOf(events, es, e, window) ==
  LET linked == {k \in es : Linked(events, es, e, k, window)}
  IN  /\ \A k \in linked : events[k].severity = "critical"
      /\ \E k \in linked : events[k].channel # events[e].channel
=============================================================================
