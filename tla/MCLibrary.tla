------------------------------ MODULE MCLibrary ------------------------------
(***************************************************************************)
(* Instances of ServiceLibrary small enough for TLC.                       *)
(***************************************************************************)
EXTENDS ServiceLibrary

CONSTANTS p1, p2, p3, s1

\* Both ends of the range, and steps of one and of none.
MCDigit == {MinSample, 0, 1, 2, MaxSample}

\* Too short, full width, with a NUL byte inside and at the end, too long.
MCCode == {<<>>, <<"a">>, <<"space">>, <<"nul", "a">>, <<"a", "nul">>, <<"a", "b", "a">>}

\* Two stations; at the first, two channels and an answered event between them.
At(s, c, t, severity, status) ==
  [station |-> s, channel |-> c, at |-> t, severity |-> severity, status |-> status]

MCIncident ==
  {At(1, 1, t, "critical", "open") : t \in {0, 1, 4}}
    \cup {At(1, 2, t, "critical", "open") : t \in {2, 3}}
    \cup {At(1, 2, 1, "info", "acked"), At(1, 1, 3, "warn", "open"),
          At(2, 3, 1, "critical", "open")}

\* Two channels, times in halves of a millisecond; short frames and one that
\* outlasts its successors, one start twice, and silences as long as the shortest
\* gap, half a millisecond less and half a millisecond more.
Frame(ch, start, end) == [channel |-> ch, start |-> start, end |-> end]

MCStoredFrame ==
  {Frame(1, 0, 4), Frame(1, 2, 11), Frame(1, 4, 6), Frame(1, 7, 8), Frame(1, 10, 14),
   Frame(1, 10, 12), Frame(1, 17, 20), Frame(2, 0, 2), Frame(2, 7, 9)}

\* A negative duration counts as zero.
MCDuration == -1..1

\* An override above the defaults, and one that repeats them.
MCProfile ==
  {[spike |-> 1500000, clipping |-> 950000, gap |-> 9000, ratio |-> 4],
   [spike |-> 1000000, clipping |-> 900000, gap |-> 5000, ratio |-> 3]}

\* Frames on both sides of each threshold, after ten quiet ones.
Judged(max, min, mean, rms, gap, sensitivity) ==
  [frame |-> [max |-> max, min |-> min, mean |-> mean, rms |-> rms], gap |-> gap,
   history |-> [k \in 1..10 |-> [rms |-> 2]], sensitivity |-> sensitivity]

MCContext ==
  {Judged(900000, -600000, 0, 7, 9000, 1), Judged(950000, -50001, 0, 8, 9001, 0),
   Judged(500000, -500001, 6, 7, 5001, 100)}

\* The magic, counts within the limit of two and above it.
MCCell == {-1, 0, 1, 3}
=============================================================================
