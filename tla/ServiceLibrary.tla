---------------------------- MODULE ServiceLibrary ----------------------------
(***************************************************************************)
(* The parts of the service that no database table ties together, side by  *)
(* side: the pure algorithms of TelemetryAnalysis, the retry queue, the    *)
(* backpressure monitor, the tuned rule engine and the batch of frames.    *)
(* They share nothing, so in each behaviour one of them moves.             *)
(***************************************************************************)
EXTENDS TelemetryAnalysis

CONSTANTS
  Payload, Capacity, BaseDelay, DelayBits, MaxPushes, MaxClock,   \* RetryQueue
  Duration, MonitorCapacity, MaxRecords,                          \* Backpressure
  Station, Profile, Context,                                      \* TunedRules
  Cell, MaxBody, MaxSampleCount, QueueSize                        \* FrameBatch

VARIABLES
  part,
  items, dropped, clock, pushes, replaced, handed, streak, last,
  durations, recorded,
  stored, rules, toggling, judging, verdict,
  body, offset, room, walk, queued, refused, failed

Retry == INSTANCE RetryQueue
Monitor == INSTANCE Backpressure WITH Capacity <- MonitorCapacity, samples <- durations
Tuning == INSTANCE TunedRules
Batch == INSTANCE FrameBatch

ASSUME LibraryAssumption ==
  /\ Retry!RetryParameters /\ Monitor!MonitorParameters
  /\ Tuning!TuningParameters /\ Batch!BatchParameters

telemetryVars == <<samples, events, frames>>
retryVars == <<items, dropped, clock, pushes, replaced, handed, streak, last>>
monitorVars == <<durations, recorded>>
tuningVars == <<stored, rules, toggling, judging, verdict>>
batchVars == <<body, offset, room, walk, queued, refused, failed>>

Part == {"telemetry", "retry", "monitor", "tuning", "batch"}

LibraryInit ==
  /\ part \in Part
  /\ Init /\ Retry!Init /\ Monitor!Init /\ Tuning!Init /\ Batch!Init
  /\ part # "batch" => body = <<>> /\ room = 0

LibraryNext ==
  /\ \/ part = "telemetry" /\ Next
     \/ part # "telemetry" /\ UNCHANGED telemetryVars
  /\ \/ part = "retry" /\ Retry!Next
     \/ part # "retry" /\ UNCHANGED retryVars
  /\ \/ part = "monitor" /\ Monitor!Next
     \/ part # "monitor" /\ UNCHANGED monitorVars
  /\ \/ part = "tuning" /\ Tuning!Next
     \/ part # "tuning" /\ UNCHANGED tuningVars
  /\ \/ part = "batch" /\ Batch!Next
     \/ part # "batch" /\ UNCHANGED batchVars
  /\ UNCHANGED part

libraryVars ==
  <<part, telemetryVars, retryVars, monitorVars, tuningVars, batchVars>>

LibrarySpec == LibraryInit /\ [][LibraryNext]_libraryVars
-----------------------------------------------------------------------------
(* The properties of the parts; each is stated, and explained, in its module. *)

\* No push into the retry queue is lost from its accounts or attempts.
EveryPushCounted == Retry!EveryPushCounted

\* Nothing is redelivered before its backoff, nor too often.
BackoffHonoured == Retry!BackoffHonoured

\* A snapshot of the monitor shows the quantiles of the latest durations.
SnapshotOfLatest == Monitor!SnapshotOfLatest

\* Tuning while frames are judged takes away what one profile says, no more.
JudgedByOneProfile == Tuning!JudgedByOneProfile

\* A batch submits the frames it is made of.
BatchIsItsFrames == Batch!BatchIsItsFrames
=============================================================================
