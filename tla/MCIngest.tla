------------------------------ MODULE MCIngest ------------------------------
(***************************************************************************)
(* Instances of IngestPipeline small enough for TLC.                       *)
(***************************************************************************)
EXTENDS IngestPipeline, TLC

CONSTANTS s1, s2, c1, c2

Still == [max |-> 1, min |-> -1, mean |-> 0, rms |-> 1]
Clipped == [max |-> 950000, min |-> -10, mean |-> 0, rms |-> 2]
Burst == [max |-> 950000, min |-> -950000, mean |-> 9, rms |-> 9]   \* four findings with a gap

Telegram(c, s, e, a) ==
  [chan |-> c, start |-> s, end |-> e,
   max |-> a.max, min |-> a.min, mean |-> a.mean, rms |-> a.rms]

OneStation == [c \in Channel |-> s1]
UnitSensitivity == [c \in Channel |-> 100]

\* In order, late and overlapping frames of two channels.
OrderPayload ==
  {Telegram(c1, 0, 3, Still), Telegram(c1, 7, 8, Still), Telegram(c2, 2, 4, Still)}

\* A frame with two critical findings and one with a warning, for its gap.
AlertPayload == {Telegram(c1, 0, 1, Burst), Telegram(c1, 9000, 9001, Still)}

LivePayload == {Telegram(c1, 0, 1, Clipped), Telegram(c1, 0, 1, Still)}

\* Of the behaviours with quiet and loud frames, only those that start with
\* ten quiet ones on an open channel are followed.
DriftPayload == {Telegram(c1, 0, 1, Still), Telegram(c1, 0, 1, [Still EXCEPT !.rms = 9])}
QuietThenLoud ==
  /\ ctx = "live" /\ chanStatus[c1] = "open"
  /\ \A i \in 1..Len(accepted) : i <= 10 => accepted[i].rms = 1

NoWindows == {}

\* A window over the first reading of the clock.
OneWindow == {w \in [station : Station, start : {0}, end : {0}] : w.station = s1}
=============================================================================
