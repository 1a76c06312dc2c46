# seiswatch: TLA+ models, checks and proofs

seiswatch is a seismic telemetry service in one Go process over one SQLite
file: an HTTP API accepts binary telemetry frames, a single background worker
stores them, judges them with quality-control (QC) rules and escalates critical
findings to alerts; operators review the findings, plan maintenance windows,
run calibration jobs and manage stations and channels. The modules here model
the parts that keep state, check them with TLC on small instances and prove the
central invariants with TLAPS for every value of the parameters. Paths below
are relative to the root of the repository, which is `src/` in `PROJECT.json`.

## 1. The system

| component | state | operations | modelled by |
|---|---|---|---|
| Ingest service (`internal/service/ingest_service.go`, `main.go`) | bounded channel of frames, context, latest snapshot per channel (under a mutex), one worker goroutine; tables `frames`, `qc_events`, `alerts` | `Submit`, `Start` (the worker's loop), `processFrame`, `Stop` | `IngestPipeline`, `FrameLog` |
| QC rules and engine (`qc_rules.go`, `qc_engine.go`) | registered rules | `Evaluate` | `QCRules` |
| Alert escalation (`alert_service.go`) | table `alerts` | `Escalate` | `IngestPipeline` |
| Alert policy (`alert_policy.go`) | one policy per process, swapped under a mutex | `SetAlertPolicy`, `EscalateDedup`, `ShouldEscalate` | `AlertPolicy` |
| QC event review (`handler/qc_handler.go`, `store/qc_event_store.go`) | `qc_events.status`, `resolved_at` | ack, resolve | `EventReview`, `Lifecycle` |
| Retention (`retention.go`) | `qc_events_archive` | `ArchiveQCEvents` (one transaction), `PurgeFramesBefore` | `EventReview` (archive), `FrameHistory` (purge) |
| Frame queries and pages (`frame_query.go`, `handler/pagination.go`) | none; reads `frames` | `ListPaged`, `DeleteBefore`, `ParsePage`, `Clamp` | `FrameHistory` |
| Calibration (`calibration_service.go`, `calibration_eval.go`) | `calibration_jobs` | `Schedule`, `Start`, `Fail`, `Complete`, `CompleteEvaluated`, `ExpireOverdue` | `CalibrationJobs`, `Lifecycle` |
| Maintenance (`maintenance_service.go`, `maintenance_conflict.go`) | `maintenance_windows` | `PlanWindow`, `PlanWindowChecked`, `Extend`, `Close`, `ActiveAt` | `MaintenanceWindows`, `IngestPipeline` |
| Stations, channels (`station_service.go`, `channel_service.go`, `station_handler.go`) | `stations`, `channels` | create, `Register`, `SetStatus`, `Decommission`, `AddChannel`, `Close` | `StationRegistry` |
| Suppression rules (`suppression_rule.go`) | `suppression_rules`, one row per station code and QC rule | `Upsert`, `Enable`, `Disable`, `Active`, `FilterEvents` | `SuppressionRules` |
| Station groups (`station_group.go`) | `station_groups`, `station_group_members` | `Create`, `AddStation`, `RemoveStation` | `StationGroups` |
| Rule tuning (`threshold_profile.go`, `qc_rule_tuning.go`) | `threshold_profiles`; the engine's slice of rules | `UpsertThresholdProfile`, `ApplyProfile`, `SetEngineSuppressWarn`, the tuned `Evaluate` | `TunedRules` |
| Batch ingestion (`handler/ingest_admin_handler.go`) | none | `handleFrameBatch` | `FrameBatch` |
| Retry queue (`ingest_retry.go`) | items with attempts and due times, under a mutex | `Push`, `PopDue` | `RetryQueue` |
| Backpressure monitor (`ingest_backpressure.go`) | latest processing times, under a mutex | `Record`, `Snapshot`, `Percentile`, `Reset` | `Backpressure` |
| Frame codec (`ingest/builder.go`, `header.go`, `decode.go`, `compress.go`) | none | `Build`, `Decode`, delta and zig-zag coding | `FrameCodec` |
| Sample scan (`ingest/quality.go`) | none | `ScanSamples` | `SampleScan` |
| Event correlation (`event_correlate.go`) | none | `ClusterByStation`, `OpenClusters`, `CommonCauseClusters`, `Summarize` | `EventClusters` |
| Gap analysis, timing (`frame_gap_analysis.go`, `ingest/timing.go`) | none | `Analyze`, `ChannelGapSummary`, `VerifyTiming`'s predicates | `FrameTimeline` |
| Health, network statistics, reports (`health_service.go`, `health_history.go`, `network_stats.go`, `report_summary.go`) | none; reads `qc_events` | `Score`, `History`, `WorstDays`, `Summary`, `TopOffenders`, the report's counts | `HealthScores` |

Not modelled, with the reason in `PROJECT.json`: routing, parsing and exports of
the HTTP layer, and the embedded web page; they change no state. Of components
that are modelled in part, what is missing is floating point (averages, the
synthetic signal of the builder), counters nothing reads but a snapshot, and
text (CSV, descriptions); section 7 has the list.

### How the parts interact

* Handlers call `Submit`, which puts a decoded frame on the channel without
  blocking. From there only the worker touches it.
* The worker calls the stores one database call after the other, without a
  transaction: resolve station and channel, read the channel's newest frame,
  insert, publish the snapshot, then for each finding insert an event, ask for
  a maintenance window and insert an alert. The pool holds one connection
  (`store/sqlite.go:35`), so each call is atomic and calls of different
  goroutines interleave between calls.
* Handlers run concurrently with the worker and with each other. Nearly every
  operation reads a row, decides, and then updates by id. The review of events
  and the closing of a channel also name the state they have seen
  (`WHERE id = ? AND status = ?`); the others do not.
* An open transaction (the archiver's) holds the only connection.
* What operators configure (policy, suppression rules, groups, profiles) is read
  by value or by separate queries, so a reader may see the old state of one
  thing beside the new state of another. Only the policy has a mutex.
* `Stop` cancels the context of the worker's calls and waits for the worker;
  `main` then closes the database (`main.go:30,74`).

### What is hard, and what makes each part correct

`PROJECT.json` lists the hazards, each at the line where it bites. In short:

* ingest: the read of the newest frame and the insert are separate calls; a
  cancelled insert may have written its row; a channel closes in between; the
  queue and the frame in hand die with the process; some events or alerts of a
  frame fail and others do not; suppression is decided by a time that is
  already past. Correct means: one row at most per frame, in order of
  acceptance; exact gaps and snapshots; each loss paid for by a failure; no
  alert without its own recorded event; nothing written after `Stop`.
* review and archive: two reviewers and an archiver on one event, cancelled
  requests, a failure between copy and delete. Correct means: a forward-only
  workflow, one winner per move, no event lost or doubled.
* calibration, windows, registry: check-then-act by id, and in the handlers a
  create that is cancelled after its insert. Correct means: exact when alone, and a
  stated remainder of the lifecycle under every race; a code, a channel and a closing
  granted once at most. What the races themselves do to a job, a pair of windows or a
  retired station the properties exempt; section 6 tells it.
* alert policy: look for a duplicate, count the last hour and insert are three
  calls, the list looked through is short and shared by all stations. Correct
  means: every duplicate has one of two reasons, the cap is exceeded by
  overlapping callers only, the dry run tells the truth.
* suppression, groups, tuning, pages, batches: one operation made of several
  reads or writes while others change what it has yet to come to. Correct
  means: the result is right for something that was true meanwhile, and right
  altogether when nothing intervened.
* buffers and algorithms: limits, ties, ends of ranges.

Several parts are complete but not wired into the binary: `main.go` creates the
QC engine but never attaches it (`EngineAttached = FALSE` is the deployed
service; TRUE is one after `SetEngine`), and nothing calls the retry queue, the
backpressure monitor, the alert policy, the suppression rules, the groups, the
profiles, the history of scores, `PlanWindowChecked`, `Extend`, `ExpireOverdue`, `Complete`,
`ArchiveQCEvents`, `Register`, `SetStatus`, `Decommission`, `ListPaged`, the
builder, the compression, the scan, the clusters or the network statistics. They are
modelled as libraries: their operations called by any client at any time. The
repository has no tests.

## 2. The modules

**IngestPipeline** is the core. `queue`, `ctx`, `latest` are the fields of
`IngestService`; `pc` and `job` are the worker's position and locals; `frames`,
`events`, `alerts`, `chanStatus`, `windows` are tables, rows named by their
position. Actions: `Submit`; `Take` and `Exit` (the two branches of the
worker's `select`); `Resolve`, `ReadHistory`, `Insert`, `Publish`,
`CreateEvent`, `CheckSuppression`, `Escalate` (the calls of `processFrame`, each
with its error path); `Cancel` and `StopReturns` (`Stop`); `AddChannel`,
`CloseChannel`, `PlanWindow`, `CloseWindow` (what others do to the rows the
worker reads); `Tick`; `Restart` (a crash, or a start after a stop).
A call on the service's context fails by a fault or because the context is
cancelled. `ctx = "racing"` is a cancel that came while a call was under way:
that call may then fail, or fail after its row was written
(`WrittenButFails`; `database/sql` reports the context's error all the same).
A race that the call wins is a cancel that came just after it. `Start`
ignores its argument, so `Stop` is the only cancel. `Submit` after `Stop` is
accepted and lost, as in the code. Fields `acked`, `late`, `told`, `ev`,
`blind` and the variables `accepted`, `refused`, `boot` are history that the
properties need and no guard reads.

**QCRules** holds the five rules over integer aggregates, quotients multiplied
out, and `Evaluate` in registration order. **FrameLog** is the abstract
specification of ingestion: frames are accepted in some order, and any may
become a row, once and in that order. **Lifecycle** is the abstract
specification of a status column: things that move along the edges of a graph.

**EventReview**: `Create`; `Read`, `Update`, `UpdateFails` (the two calls of
`transitionQCEvent` and the update's 500, with or without the row written);
`Begin`, `Copy`, `Delete`, `Commit`, `Rollback` of the archiver's transaction;
`Crash`. `told` records which requests were answered 200. A transaction that
has begun excludes other calls (`ConnFree`) and its writes become visible at
`Commit`.

**CalibrationJobs**: each client holds the jobs its call is about to write
(`call`); `Start`, `Fail`, `Complete`, `CompleteEvaluated` and `ExpireOverdue`
are the check, `Update` the write, job by job for a sweep. A metric is a verdict, within or
outside its limits. `overlapped` records the jobs two calls held at a time.

**MaintenanceWindows**: `Plan` and `Close` are single writes; `CheckPlan` then
`InsertPlanned`, and `ReadToExtend` then `CheckTail` then `Extend`, are the
calls of the checked operations. `loose` marks a row written without a check or
after a check that another write had overtaken.

**StationRegistry**: handler inserts beside service lookups (`Register`,
`AddChannel`, `ReadToClose`, `SetStatus`, `Decommission`) and their writes, with
QC events recorded and reviewed meanwhile. `granted` counts the successful
answers. The handlers insert under the request's context: a write ends in `Grant`,
or in `LoseAnswer` when the client goes away (in a service, when the process dies) after
it is done, and `lost` has what was written for a caller that was told an error.
A station created without a status in the body has the status "".

**AlertPolicy**: `EscalateDedup` begins with a copy of the policy;
`LookForDuplicate`, `CountLastHour` and `Insert` are its calls, and `Escalate` is the
ingest worker, which asks nobody. The list `recentDuplicate` gets is any set of the
newest alerts of that size (`Newest`), since ties in `fired_at` may be cut
anywhere. `foretold` is what the dry run would have answered as the call began,
void as soon as anything changes.

**SuppressionRules**: `LoadRules` and `FilterEvents` are the two queries of the
bulk filter; `Active` answers for one event. `ever` and `always` collect which
events `Active` would have suppressed at some time, and at every time, of the call.
**StationGroups**: `Create`, `Resolve`, `InsertGroup`, `InsertMember` and `Answer` are
the calls of `Create`, none of which undoes another.
**FrameHistory**: `Insert`, `PurgeFramesBefore` and `DeleteBefore` beside a client
whose `NextPage` asks for the rows behind as many as it was given.
**OperatorDesk** has these four side by side; their tables are disjoint, so one
moves in each behaviour.

**TunedRules**: `Begin` and `Judge` are the worker's `Evaluate`, rule by rule, on
the slice it began with; `Apply` puts a new slice in its place, `Toggle` writes
into the one that is there. The code takes no lock. The slice header is read
once, and an element that is overwritten keeps its dynamic type, so a read
yields the old or the new element: those are the outcomes of the race. Tuning
calls are taken to come from one operator at a time.
**FrameBatch**: one turn of the handler's loop is `SubmitNext` or `GiveUp`, while
`QueueMoves` changes the room there is.
**RetryQueue** and **Backpressure** are one action per method (each holds its
mutex throughout). The delay of the queue is computed in `DelayBits` bits with
the overflow of Go's shift.
**HealthScores**, **FrameCodec**, **SampleScan**, **EventClusters**, **FrameTimeline**
are operators: the code's loops as folds, recursive functions and sums, next to
definitions of what they should compute. In `FrameTimeline` times count instants,
`PerMilli` of which make a millisecond, and a drift is cut off to whole milliseconds
as `Milliseconds()` does. In `HealthScores` the day of a stored time is NULL
(`DateOf`): the driver stores what `String` makes of a `time.Time`, zone included,
which SQLite's `date()` does not read, so that `History` fails to scan the row of any
open event and `DayScores` (`buildDayScores`) only ever sees no events; its days are
checked for all events as well. **TelemetryAnalysis** lets a block of
samples, a list of events or a table of frames grow step by step and states
their agreement. **ServiceLibrary** has it side by side with the queue, the
monitor, the tuned engine and the batch, one of which moves in each behaviour.

What a module needs of its constants is an assumption of its own, or, in the parts
that are put side by side, a definition (`PolicyParameters`, ...) that
**OperatorDesk** and **ServiceLibrary** assume.

**MCIngest, MCReview, MCCalibration, MCWindows, MCRegistry, MCDesk, MCLibrary**
give the constants values and, where properties treat the members of a set
alike, a symmetry. The theorems are in modules of their own, each of which extends
the one it is about: **IngestProofs**, **ReviewProofs**, **CalibrationProofs**,
**WindowsProofs**, **RegistryProofs**, **DeskProofs** (groups, alert policy,
suppression, history) and **LibraryProofs** (tuned engine, batch, retry queue,
monitor, codec, scan, clusters, gaps, scores); **CountingLemmas** has what several
of them need about numbers, sets, orders, sums and folds. The definitions whose
comments describe something the code does not do
(`SubmitDropping`, `TakeNewest`, `MatchesById`, ...) are faults put in place of
the definition that follows them, to see that a property notices.

## 3. The runs

| run | configuration | what it shows |
|---|---|---|
| `ingest_order` | 2 channels, 3 payloads (in order, late, overlapping), queue of 2, 3 frames, 1 failing call, 1 restart, no engine | `ImplementsFrameLog`: rows keep the order of acceptance, one per frame at most; `GapFromNewestRow`, `SnapshotIsLastInsert`, `AtMostOneLateFrame`, `LossNeedsFault`, `QuietAfterStop`, `TypeOK` |
| `ingest_alerts` | frames with four findings, one window, 2 stations, 2 frames, 1 failure, 1 restart | `AlertsFollowEvents`; `AlertFailuresBounded`: alerts lost or let through unasked are paid for one by one by failures, the cancel or a crash; `SuppressionAtDetection` |
| `ingest_live` | 3 frames, queue of 2, 1 failure, 1 restart, with fairness | `StopTerminates`, `EveryFrameTaken` |
| `event_review` | 3 reviewers, archiver, 2 events, 2 faults | `ImplementsWorkflow`, `NothingLost`, `AnswersMatchMoves`, `ResolvedStamp` |
| `calibration` | 3 clients, 2 jobs, 1 fault, clock to 2 | `AloneFollowsLifecycle`, `LeavesPendingOnce`, `FinalStateJustified` (with the types): state and metrics of a job come from the same call, and a job expires at its deadline at the earliest |
| `windows` | 2 clients, 2 stations, 2 windows, instants 0..3, 1 fault | `DisjointUnlessOvertaken` (with the types), `WindowsMoveForward`: closed stays closed, and an end moves back only by an `Extend` that another write had overtaken |
| `registry` | 2 clients, 2 stations and channels, 2 events, 1 fault (a failing write, or an answer lost after one) | `GrantedOnce` (with the types): at most one grant each, and what is there without one had its answer lost; `RetiredWereHandled`, `StatusFollowsLifecycle` |
| `desk` | policy: 2 callers, 2 stations, list of 1, 3 alerts, clock to 2, 1 swap; suppression: 2 codes, 2 rules, 3 hours, 2 writes; groups: 2 clients, 2 stations, 1 name, 1 fault; history: 4 frames, 3 limits, 1 walk | `HourlyCapBounded`, `DuplicatesExplained`, `DryRunForetells`; `FilterAgreesWithActive`; `GroupsComplete`; `WalkSeesEachOnce` |
| `library` | 3-bit samples, blocks of 6; lists of 4 events; tables of 4 frames, 2 instants to a millisecond; queue of 2 with 3 payloads, 5 pushes and a 4-bit delay; monitor of 3 with 5 records; 2 profiles, 3 frames to judge; bodies of 6 words | `EncodedIsDecoded`, `ScanFindsStretches`, `ClustersAreChains`, `ScoresAgree`, `GapsAreSilences`; `EveryPushCounted`, `BackoffHonoured`; `SnapshotOfLatest`; `JudgedByOneProfile`; `BatchIsItsFrames` |
| `ingest_drift`, `ingest_alert_event`, `calibration_restart` | smallest instances that show it | where a comment and the code disagree, section 6 |

Why the bounds suffice. In the pipeline a hazard needs the frame in hand, one
before it on the same channel and one behind it in the queue: three frames and
a queue of two; one fault is one more than the properties' accounts start from,
and a fault, a cancel and a crash can all occur in one behaviour. Alerts need a
frame with several critical findings and one that follows it. A check-then-act
race needs two clients and one row, three when a third write must come between;
disjointness and uniqueness need two rows. A call overlaps at most one other
caller in its effect on the cap, a list of one alert is crowded out by one, and a
swap of the policy falls before, between or after the three calls. One walk of
four frames meets late inserts, equal starts and both purges between its pages,
with page sizes of one, two and one that is refused. The queue and the monitor
pass their limits several times, and five pushes take a four-bit delay past its
sign bit. Three-bit samples contain the widest step, both ends and
steps of one and zero; runs of length three and a cap of three issues are passed
within six samples. With two instants to a millisecond and a threshold of one
millisecond there are silences just below, between and above whole milliseconds.
Two station codes or a third client in the registry keep
the results and only take longer.

All configurations turn deadlock checking off: the service may stop (`Stop`
returns, nobody submits), and every counter has a bound.

Fairness (`ingest_live`). Weak fairness of `Worker`: the goroutine is runnable
whenever it has a step and every database call returns. Strong fairness of
`Exit`: with frames arriving, the cancelled branch of `select` is ready again
and again, and `select` chooses uniformly among ready branches. Weak fairness
of `StopReturns`: `wg.Wait` returns once the worker is done. Nothing is assumed
of clients, faults or restarts. `StopTerminates` fails without strong fairness
only in behaviours in which `select` never chooses the cancel.

## 4. What is proved

The theorems hold for all values of the constants that satisfy the assumption
named, the bounds among them. Each rests on an inductive invariant, checked by
TLC before it was proved; there is one lemma per action.

### The pipeline: `IngestProofs`

Under `IngestAssumption` (the constants have their types and the queue at least one
place), for all stations, channels, payloads and windows:

* `TypeCorrect`: `Spec => []TypeOK`. `TypeOK` is not inductive alone: `WorkerInv`
  adds that the frame in hand, the history and the findings that remain refer
  to things that exist while the worker is busy.
* `IngestInvariance`: `IngestInv == TypeOK /\ WorkerInv /\ OrderInv`. `OrderInv` says the
  queue holds the consecutive last accepted frames, the worker has one from
  before them, and rows carry increasing frames below the one in hand until it
  is inserted.
* `PipelineImplementsFrameLog`: with that invariant every step of the pipeline
  is a step of `FrameLog` or leaves it unchanged; `Submit` is `Accept`, an
  `Insert` that writes is `Store` of the frame in hand.
* `AlertsOnePerEvent`: `AlertsFollowEvents`, from `AlertInv`: while the worker is
  about to escalate, its event is critical, recorded, known to the worker and
  newer than that of any alert.
* `GapsFromNewestRow` (`GapFromNewestRow`), from `HistoryInv`: what the worker read as the
  newest frame is still the newest row when it inserts, since it alone inserts.
* `RowsInHand` and `SnapshotsFollowInserts` (`SnapshotIsLastInsert`), from `RowInv`: between
  insert and publication the last row is that of the frame in hand, and no other
  row of the channel has come after it.
* `OneLateFrame` (`AtMostOneLateFrame`), from `LateInv`: only the frame whose channel was
  resolved before the close can be late, and it is the last one.
* `SuppressedAsDetected` (`SuppressionAtDetection`), from `VerdictInv`.
* `AlertLossBounded` (`AlertFailuresBounded`) from `FailureInv` and `LossesCostFaults`
  (`LossNeedsFault`): the accounts of what was lost, as cardinalities, against the
  faults, cancels and crashes that paid for it.
* `StopIsQuiet`: the action property `QuietAfterStop`.

### Review: `ReviewProofs`

Under `ReviewAssumption` (the bounds are natural numbers), for any set of reviewers:

* `ReviewInvariance`: `ReviewInv == TypeOK /\ NothingLost /\ Checked /\ TxnSees /\
  ResolvedStamp`. `Checked`: a request under way asks for a move its handler
  allows from the status it has seen. `TxnSees`: what an open transaction has
  copied and deleted are still the rows its condition selects, because nobody
  else has the connection.
* `EventsNeverLost`, `ResolvedHaveStamps`, and `EventsOnlyMoveForward`
  (`ImplementsWorkflow`: the specification implements `Lifecycle`), from that invariant.
* `AnswersAreMoves` (`AnswersMatchMoves`), from `AnswersInv`: the moves answered 200 are a
  path of the workflow that ends at or, after a failure that wrote its row,
  before the event's status.

### Calibration, windows, registry

Check-then-act by id, under every race. The invariants state what a call that has
checked still knows when it writes, and what it no longer knows.

* `CalibrationProofs`: `CalibrationInv == TypeOK /\ RowsJustified /\ CallsJustified /\
  Alone`: rows and the writes that calls are about to make carry a state and a
  metric of one origin, and an expiry comes no earlier than the deadline; a job two
  calls never held is as its call has read it.
  Hence `FinalStateJustifiedHolds`, `AloneFollowsLifecycleHolds` and
  `LeavesPendingOnceHolds` (the table implements `Lifecycle` without the edge that
  the race adds removed).
* `WindowsProofs`: `WindowsInv == TypeOK /\ Disjoint /\ PlansHold /\ ExtensionsHold`: an
  interval found free stays free until the insert, a tail found free until the
  update, or the call was overtaken. Hence `WindowsDisjoint` and `WindowsOnlyForward`.
* `RegistryProofs`: `RegistryInv == TypeOK /\ CodesGranted /\ ChannelsGranted /\ ClosesGranted
  /\ RowsHandled /\ CallsKnow /\ LossesPaid`: what is in the tables was granted once or its
  answer lost, one for a fault (`WrittenOnce`), the rest was not granted, and what a call
  has found holds until it is overtaken. Hence `RegistryGrantsOnce`,
  `RegistryRetiresHandled` and `StatusLifecycle`.

### The desk: `DeskProofs`

Under `DeskAssumption`, which among others makes the callers and the requests finite:

* `GroupsInvariance` and `GroupsAreComplete` (`GroupsComplete`): what a call has yet to
  resolve and insert is what its group lacks; groups without an answer are at most
  as many as name clashes and faults.
* `PolicyInvariance`: escalations under way know of every alert before them that the
  window of duplicates and the cap need, unless it was inserted while they ran; the
  alerts of an hour under a cap and the calls that have passed it are bounded
  together. Hence `CapIsHeld` (`HourlyCapBounded`, a bound by the number of callers),
  `DuplicatesHaveReasons` (`DuplicatesExplained`) and `DryRunIsRight` (`DryRunForetells`).
* `SuppressionInvariance` and `FiltersAgree` (`FilterAgreesWithActive`): `SuppressionInv`
  has the table one row per code and rule (`RuleTable`), and says of a call under way
  that every rule it has loaded was there when it loaded them, and of every event that
  what it has loaded lies between what suppressed the event at every time of the call
  and at some time of it (`FilterOK`). `Among` states the filtered list by places: how
  many of the kept come before.
* `HistoryInvariance` and `WalkIsComplete` (`WalkSeesEachOnce`): the invariant is an
  account of the walk (`OnWay`): with a `Front` of the order as long as what was asked
  for, the rows of the front the walk was not given are at most as many as were deleted,
  and the rows it was given twice, or will be, at most as many as were inserted, since
  each moves the front by one place. `Ordered` gives each row the place that the number
  of rows before it determines.

### The library: `LibraryProofs`

Under `LibraryAssumption`, which among others makes the payloads that are ever pushed
finite, so that pushes can be added up over them, and of the inputs that they name
finitely many channels and stations, as the tables do:

* `TuningInvariance` and `OneProfileJudges` (`JudgedByOneProfile`): `TuningInv == RulesUniform
  /\ JudgingHolds /\ VerdictHolds`. A slice's rules are of one profile throughout, so
  the findings collected so far are those the rules of that profile give in one of the
  settings they had.
* `BatchInvariance` and `BatchIsWhole` (`BatchIsItsFrames`): `BatchInv == BatchTypes /\
  PiecesHold /\ ChainHolds /\ EndHolds`. Each turn of the loop takes the frame that
  begins where the last one ended, and what is left is the body behind it.
* `RetryInvariance`, `PushesAreCounted` (`EveryPushCounted`) and `BackoffIsHonoured`
  (`BackoffHonoured`): `RetryInv == RetryTypes /\ Waits /\ RetryCounts`. `Waits` says
  that what waits is what was pushed and has not left, each payload once, with the
  attempts of its pushes and due at the delay of those attempts after its latest push;
  the hand-outs are a sum over all payloads, so that the accounts follow by induction
  over subsets (`SumBumps`). What is handed out was pushed at most twice, where the
  shift cannot overflow: of the wrapped delay the proof needs only that four base
  delays fit in a duration. Powers of two come from the number of subsets of a set.
* `SnapshotIsOfLatest` (`SnapshotOfLatest`): `MonitorInv` says the samples are the latest
  durations, no fewer than half the capacity once there were more than fit. That
  numbers can be put in order (`SortExists`, by ranks) makes the sorted copy a
  permutation, and the r-th in order is the least that r of them do not exceed
  (`RankIsQuantile`); the ranks the code computes are the least that reach the
  percentage (`RanksReach`). `Sorted` and `Without` are stated by places and
  permutations, for the library's sorts have no definition the prover can expand.
* `CodecRoundTrip` (`EncodedIsDecoded`), for samples of any width: a word and its sample
  determine each other; differences and their running sums, plain and in zig-zag form,
  undo each other by induction over the block; the differences fit into `BitWidth` bits,
  and into fewer only with the least number of one bit less (`BitWidthFits`), from the
  least natural number of a set and from halving powers of two.
* `ScanIsRight` (`ScanFindsStretches`): the states of each scan are a fold
  (`StuckFolds`, `SaturatedFolds`, `RampFolds`), and by induction over the samples each
  state has reported, as far as the cap allows (`Capped`), the stretches that start
  before its own (`Upto`); a step that goes on extends the stretch in hand, one that
  does not ends it (`RampGoesOn`: at the sample before, when the direction turns). A
  stretch is longest exactly when the steps before and behind it differ
  (`RunsAreWhole`).
* `ClustersAreRight` (`ClustersAreChains`): the events in turn (`InTurnSorts`) are
  numbered by the clusters they fall in (`Numbers`), and by induction over the loop the
  clusters are the places of each number (`Gathered`). Two places have one number exactly
  when every step between them is short (`NumbersGrow`), which is when no silence of the
  station between their times is longer than the window (`NoSilence`): what `Linked`
  says without an order. That the clusters share nothing and the summaries leave nothing
  out are sums over parts (`SumOfParts`).
* `GapsAreRight` (`GapsAreSilences`): in start order, every silence ends where the
  second frame of some joint starts, and the first ended no later than the silence began
  (`BetweenHasJoint`), so that to each silence belongs a joint no shorter, one to one
  (`SumOfFitting`): number, total and maximum are never less, also when whole
  milliseconds are counted (`FitsInParts`). When no frame outlasts a later one, every
  joint is a silence as well, and they are equal. That gaps and overlaps account for the
  time from first to last is an induction along the joints (`Telescope`), less what a
  sum of cut-off lengths loses (`SumOfParted`).
* `ScoresAreRight` (`ScoresAgree`): open events and their penalties are sums over sets
  (`Left`), which grow with the set (`FewerCostLess`): events beyond the limit can only
  make the live score better. Open events of whole days are never cut (`WithinParts`), so
  that a series made of those since the cut tells its days (`SeriesIsDaily`,
  `SeriesTells`), and what all days lose is, day by day, what that day's events cost, or
  all there is to lose (`SumOfCapped`). The worst days and the offenders are at the places
  of a total order (`SortsByCount`), so those left out come later; the offenders'
  events are the parts of the open critical ones (`SumOfParts`).

### What they share: `CountingLemmas`

`Induction` is induction over the natural numbers for a set instead of a predicate, from
the least-element principle, so that it needs no operator as parameter; `Recursion` says
a bounded recursive definition has a solution, and `FoldExists` the same of a fold over
a set from its greatest element down, which is how the community modules define folds of
sequences. With it come sums and their permutations, cardinalities of front parts, and
`SortsByCount`: under a total order the number of members before it is a place for each,
without gaps. Orders in the models are stated by these places (`Ordered`, `Ascending`)
where a theorem rests on them, for the library's sorts have no definition the prover can
expand.

## 5. What is only model-checked

* Liveness (`StopTerminates`, `EveryFrameTaken`): fairness and ENABLED are out of the
  prover's reach.

Every other property of a passing run is stated by a theorem.

## 6. What the models found

Runs that end in a counterexample, each against a comment of the code:

* `ingest_drift`: `RMSDriftRule` "warns when current RMS deviates over 3x from
  recent history" (`qc_rules.go:56`), wants ten frames of history, and
  `processFrame` gives it one. It never warns.
* `ingest_alert_event`: an alert "is an escalation of a critical QC event"
  (`model/alert.go:5`), but the id `Create` returns is discarded and every alert
  is stored with event id 0.
* `calibration_restart`: "Start transitions pending -> running only"
  (`calibration_service.go:47`), but of two calls that both read pending the
  second sets a finished job running again.

Met while modelling, without a run of their own: `MaxAttempts` "bounds how often
one payload may be handed out" (`ingest_retry.go:16`), but `PopDue` drops the count
with the item; `OpenClusters` is said to keep acknowledged events
(`event_correlate.go:80`), `QCEvent.Open` (`model/qc.go:56`) drops them; comparing
with the last event of a cluster is said to keep a long disturbance from becoming
one endless cluster (`event_correlate.go:59`), which comparing with the first would
do; `Build`
is said to emit only frames `ParseHeader` accepts (`builder.go:57`), but a code of
NUL bytes alone passes `validate` and is empty once its padding is stripped;
overlap of windows is half-open, `ActiveAt` includes both ends; a station
created without a status is stuck with "" until it is decommissioned; a monitor
of capacity one never drops a sample; a station retired by `Decommission` may
have events that came after the count; `Continuous` is said to exclude gaps and
overlaps (`timing.go:83`) but admits those within tolerance and sample period;
`ChannelGapSummary` is said to skip empty channels (`frame_gap_analysis.go:104`)
and lists them; a frame that outlasts its successor makes `Analyze` report a gap
that is none (`GapsAreSilences` states when it is exact).

In the parts added last: a suppressed alert counts as a duplicate and towards the
hourly cap; a duplicate is looked for among the latest 100 alerts of all
stations, so a burst at one station lets another's duplicates through
(`alert_policy.go:92`, `DuplicatesExplained` says when); suppression rules store
station codes in upper case, the station handler stores them as given, and
`FilterEvents` compares the two where `Active` converts (`suppression_rule.go:170`,
`FilterAgreesWithActive` says when they agree); `FilterEvents` filters in place and
overwrites its caller's list; a `Create` of a group that fails half-way leaves a
group whose name is taken for good; `ParsePage` is said to clamp limits above the
maximum to 500 (`pagination.go:25`) and answers the default of 50;
`SetEngineSuppressWarn` is said to wrap plain rules when necessary
(`qc_rule_tuning.go:100`) and passes them over; the sensitivity ratio of a profile
has no effect, and a station's profile applies to the frames of all stations;
`Score` sees the latest 100 events only, answered ones included;
an empty batch is answered 202; the retry delay's shift overflows after many
pushes, and the guard makes of it the shortest delay
or, when the wrapped value is positive, whatever that is.

Where a passing property is worded after the code and a comment says otherwise:

* A job whose deadline is exactly now. `ExpireOverdue` expires it, comparing
  `deadline.After(now)`; its comment has it expire jobs "whose window elapsed before
  now" (`calibration_service.go:93`), `Deadline` is "the latest moment the job may still
  transition out of the pending state" (`model/calibration.go:56`), and `Overdue`, which
  nothing calls, calls it live (`now.After`). `FinalStateJustified` asks for the deadline,
  not for an instant more.
* A sweep that comes to a job started or finished since its list was read sets it to
  expired all the same, by its id (`calibration_service.go:108`), where "pending jobs"
  are said to expire; `AloneFollowsLifecycle` exempts it.
* Two checked plans that find the same time free are both inserted, although
  `PlanWindowChecked` plans "after verifying it does not overlap"
  (`maintenance_conflict.go:25`); `DisjointUnlessOvertaken` says when.
* A `SetStatus` that has read a station's status sets it after a decommission, although
  "decommissioned is final" (`station_service.go:124`); `StatusFollowsLifecycle` exempts
  the call that was overtaken.
* A create that is cancelled is answered 500 and may have left its row: the code is
  then taken and a retry is refused (`station_handler.go:47,134`). `GrantedOnce` promises
  one grant at most.
* `BitWidth` says how many bits are "required to store every delta of the block as
  signed two's-complement values" (`compress.go:115`), `MaxAbsDelta` speaks of "the fewest
  bits that can hold every value" (`compress.go:102`). Of a block whose largest magnitude
  is that of the least number, it says one too many: 4 for -4, which 3 hold.
  `EncodedIsDecoded` allows for this case and no other.
* `History` is said to reconstruct "the daily health score for the last `days` days"
  (`health_history.go:29`). As soon as one event of the station since then is open, it
  answers an error: `date(detected_at)` is NULL of the text the driver stores, and does
  not scan into a string (`health_history.go:47,63`). When it answers, every day has
  the perfect score. `ScoresAgree` says that it then is right, and that an open event is
  what it fails for.
* `Milliseconds()` cuts off (`frame_gap_analysis.go:80`, `timing.go:28`). "A delta above
  model.GapWarnThresholdMs (5000 ms) counts as a gap" (`frame_gap_analysis.go:35`), but
  one of 5000.9 ms does not, and each joint may lose up to a millisecond of the totals;
  `GapsAreSilences` counts silences from a whole millisecond more than the threshold on.
  `WithinSamplePeriod` compares the drift cut off, so that a drift of less than a
  millisecond counts as none at any rate, although the test is "the right test when
  frames must be concatenated without losing even one sample slot" (`timing.go:51`).

## 7. Abstractions, and the plan

Decoding, names, messages, times of day and formatting are abstracted to what
the properties tell apart; a payload is a decodable frame with its aggregates.
Integer aggregates stand for floating-point ones. The pipeline's times are whole
milliseconds; what cutting off to them does is modelled in `FrameTimeline`. Queries that only read are
left out unless a decision rests on them.

Not modelled, and why:

* Floating point: the builder's synthetic signal (and `BuildAll`, which calls it),
  `ExpectedFrameCount`, averages of scores. A bounded integer instance would say
  nothing about rounding.
* The monitor's four counters: each is touched by its own increment and read by
  the snapshot; there is nothing to get wrong but the increment.
* `FrameThroughput`: it subtracts timestamps the driver stores as text, so what it
  computes depends on the driver's format.
* Text: CSV exports, descriptions, `String` methods; routing and parsing of requests.
* `WithTx` (no caller) and the migrations, which run before anything else.
* Requests served while `main` closes the database: what a handler gets from a
  closed handle is an error of the library, and it keeps no state after it.
* Rows of `frames` that retention deletes below the pipeline: the worker reads the
  newest frame only, and the purges are modelled where readers walk the history
  (`FrameHistory`).

All parts that keep state are modelled. Of the proofs the plan had, those of the
pipeline, the review, calibration, windows, registry, groups, policy, suppression,
history, tuning, batches, the retry queue, the monitor, the codec, the scan, the
clusters, the gaps and the scores are done (section 4). Nothing the plan named is left.
