--------------------------- MODULE IngestPipeline ---------------------------
(***************************************************************************)
(* Telemetry ingestion: IngestService (ingest_service.go) with the tables  *)
(* it writes.  HTTP handlers Submit frames to a bounded queue; one worker  *)
(* takes them off and, one database call at a time, resolves the channel,  *)
(* reads the channel's newest frame, inserts a row, publishes it as the    *)
(* channel's snapshot, records the QC findings and escalates the critical  *)
(* ones.  Around it channels appear and are closed, maintenance windows    *)
(* are planned and closed, Stop cancels the context of the worker's calls, *)
(* the database fails, and the process crashes and starts again.           *)
(*                                                                         *)
(* The connection pool holds one connection (sqlite.go:35), so each        *)
(* database call is one atomic step.                                       *)
(***************************************************************************)
EXTENDS QCRules, FiniteSets

CONSTANTS
  Station, Channel,
  StationOf,        \* [Channel -> Station]
  Sensitivity,      \* [Channel -> Int], counts per unit
  Payload,          \* decodable frames: a channel, a time span, aggregates
  QueueSize,
  EngineAttached,   \* whether SetEngine was called before Start
  Window,           \* maintenance windows that operators may plan
  MaxAccepted,      \* bound: frames accepted in a behaviour
  MaxFaults,        \* bound: database calls that fail on their own
  MaxRestarts,      \* bound: crashes of the process
  MaxClock          \* bound: readings of the wall clock

ASSUME IngestAssumption ==
  /\ StationOf \in [Channel -> Station]
  /\ Sensitivity \in [Channel -> Int]
  /\ Payload \subseteq [chan : Channel, start : Nat, end : Nat,
                        max : Int, min : Int, mean : Int, rms : Nat]
  /\ QueueSize \in Nat \ {0}
  /\ EngineAttached \in BOOLEAN
  /\ Window \subseteq [station : Station, start : Nat, end : Nat]
  /\ {MaxAccepted, MaxFaults, MaxRestarts, MaxClock} \subseteq Nat

VARIABLES
  accepted,     \* history: every payload Submit accepted; frames are named by
                \* their index in it
  refused,      \* history: frames dropped because their channel was not open
  queue,        \* s.queue
  ctx,          \* s.ctx: "live", "racing" (cancelled while the worker is in a
                \* call that uses it) or "cancelled"
  stop,         \* the Stop call: "none", "waiting" on wg, "returned"
  pc,           \* where the worker is
  job,          \* the worker's locals
  latest,       \* s.latestStats: row of the newest persisted frame, or 0
  boot,         \* history: rows of the frames table when the process started
  chanStatus,   \* channels.status, "absent" before the row exists
  windows,      \* maintenance_windows: state and, as history, the newest frame
                \* the worker had taken up when the window was planned
  frames, events, alerts,   \* the tables; a row is named by its index
  clock, faults, restarts

tables == <<frames, events, alerts>>
vars == <<accepted, refused, queue, ctx, stop, pc, job, latest, boot,
          chanStatus, windows, frames, events, alerts, clock, faults, restarts>>

\* Program points of the worker; the calls of Calls take s.ctx.
Calls == {"resolve", "history", "insert", "create", "suppression"}
PC == Calls \cup {"idle", "publish", "escalate", "exited"}

NoJob == [id |-> 0, now |-> 0, history |-> <<>>, row |-> 0, todo |-> <<>>,
          ev |-> 0, suppressed |-> FALSE, blind |-> FALSE]

Frame == accepted[job.id]        \* the decoded frame in the worker's hands
Finding == Head(job.todo)        \* the rule whose event is being recorded

\* Latest of a set of rows by start_time.
NewestOf(rows) == {r \in rows : \A q \in rows : frames[q].start <= frames[r].start}

RowsOf(c) == {r \in 1..Len(frames) : frames[r].chan = c}

\* The row that rows are ordered by is the newest of any channel.
RecentByChannelAnyChannel(c) ==
  IF Len(frames) = 0 THEN {<<>>} ELSE {<<r>> : r \in NewestOf(1..Len(frames))}

\* ORDER BY start_time DESC LIMIT 1; equal start times come in either order.
RecentByChannel(c) ==
  IF RowsOf(c) = {} THEN {<<>>} ELSE {<<r>> : r \in NewestOf(RowsOf(c))}

GapMilliseconds(prevEnd, start) == IF start > prevEnd THEN start - prevEnd ELSE 0

\* MaintenanceStore.ActiveAt; both ends of a window are inclusive.
ActiveAt(s, t) ==
  \E w \in Window : /\ windows[w].state = "planned"
                    /\ w.station = s /\ w.start <= t /\ t <= w.end
-----------------------------------------------------------------------------
Init ==
  /\ accepted = <<>> /\ refused = {} /\ queue = <<>>
  /\ ctx = "live" /\ stop = "none" /\ pc = "idle" /\ job = NoJob
  /\ latest = [c \in Channel |-> 0] /\ boot = 0
  /\ chanStatus \in [Channel -> {"absent", "open"}]
  /\ windows = [w \in Window |-> [state |-> "none", since |-> 0]]
  /\ frames = <<>> /\ events = <<>> /\ alerts = <<>>
  /\ clock = 0 /\ faults = 0 /\ restarts = 0

\* The error of a full queue is swallowed.
SubmitDropping(p) ==
  /\ Len(accepted) < MaxAccepted
  /\ accepted' = Append(accepted, p)
  /\ queue' = IF Len(queue) < QueueSize THEN Append(queue, Len(accepted) + 1) ELSE queue
  /\ UNCHANGED <<refused, ctx, stop, pc, job, latest, boot, chanStatus, windows,
                 tables, clock, faults, restarts>>

\* The queue grows as needed.
SubmitUnbounded(p) ==
  /\ Len(accepted) < MaxAccepted
  /\ accepted' = Append(accepted, p)
  /\ queue' = Append(queue, Len(accepted) + 1)
  /\ UNCHANGED <<refused, ctx, stop, pc, job, latest, boot, chanStatus, windows,
                 tables, clock, faults, restarts>>

\* Submit: a decodable frame goes to the queue unless the queue is full; the
\* queue is not closed by Stop.  A refused submission changes nothing.
Submit(p) ==
  /\ Len(queue) < QueueSize
  /\ Len(accepted) < MaxAccepted
  /\ accepted' = Append(accepted, p)
  /\ queue' = Append(queue, Len(accepted) + 1)
  /\ UNCHANGED <<refused, ctx, stop, pc, job, latest, boot, chanStatus, windows,
                 tables, clock, faults, restarts>>

\* The newest submission is served first.
TakeNewest ==
  /\ pc = "idle" /\ queue # <<>>
  /\ job' = [NoJob EXCEPT !.id = queue[Len(queue)], !.now = clock]
  /\ queue' = SubSeq(queue, 1, Len(queue) - 1)
  /\ pc' = "resolve"
  /\ UNCHANGED <<accepted, refused, ctx, stop, latest, boot, chanStatus, windows,
                 tables, clock, faults, restarts>>

\* The worker's select: with both channels ready, either branch may be taken.
Take ==
  /\ pc = "idle" /\ queue # <<>>
  /\ job' = [NoJob EXCEPT !.id = Head(queue), !.now = clock]
  /\ queue' = Tail(queue)
  /\ pc' = "resolve"
  /\ UNCHANGED <<accepted, refused, ctx, stop, latest, boot, chanStatus, windows,
                 tables, clock, faults, restarts>>

Exit ==
  /\ pc = "idle" /\ ctx = "cancelled"
  /\ pc' = "exited"
  /\ UNCHANGED <<accepted, refused, queue, ctx, stop, job, latest, boot,
                 chanStatus, windows, tables, clock, faults, restarts>>

\* A call on s.ctx returns an error: the database failed, or the context is
\* cancelled.  A call racing with the cancel that succeeds is one that came
\* just before it.
CallFails ==
  \/ /\ ctx = "live" /\ faults < MaxFaults
     /\ faults' = faults + 1 /\ UNCHANGED ctx
  \/ /\ ctx # "live"
     /\ ctx' = "cancelled" /\ UNCHANGED faults

CallSucceeds == ctx = "live" /\ UNCHANGED <<ctx, faults>>

\* An insert interrupted by the cancel after its row was written: the driver
\* reports the context's error all the same.
WrittenButFails == ctx = "racing" /\ ctx' = "cancelled" /\ UNCHANGED faults

\* The worker gives up on the first frame it cannot finish.
ReturnAndExit == pc' = "exited" /\ job' = NoJob

\* processFrame returns to the worker's loop.
Return == pc' = "idle" /\ job' = NoJob

\* The status of the channel is not looked at.
ResolveAnyStatus ==
  /\ pc = "resolve"
  /\ \/ /\ CallSucceeds /\ chanStatus[Frame.chan] # "absent"
        /\ pc' = "history" /\ UNCHANGED <<job, refused>>
     \/ CallFails /\ Return /\ UNCHANGED refused
  /\ UNCHANGED <<accepted, queue, stop, latest, boot, chanStatus, windows,
                 tables, clock, restarts>>

\* GetByCode and FindByCode, then the check of the channel's status.  A
\* channel's station exists before it and is never removed, so reading the
\* two rows together sees what reading one after the other does.
Resolve ==
  /\ pc = "resolve"
  /\ \/ /\ CallSucceeds /\ chanStatus[Frame.chan] = "open"
        /\ pc' = "history" /\ UNCHANGED <<job, refused>>
     \/ /\ CallSucceeds /\ chanStatus[Frame.chan] # "open"
        /\ refused' = refused \cup {job.id} /\ Return
     \/ CallFails /\ Return /\ UNCHANGED refused
  /\ UNCHANGED <<accepted, queue, stop, latest, boot, chanStatus, windows,
                 tables, clock, restarts>>

ReadHistory ==
  /\ pc = "history"
  /\ \/ /\ CallSucceeds
        /\ \E h \in RecentByChannel(Frame.chan) : job' = [job EXCEPT !.history = h]
        /\ pc' = "insert"
     \/ CallFails /\ Return
  /\ UNCHANGED <<accepted, refused, queue, stop, latest, boot, chanStatus,
                 windows, tables, clock, restarts>>

GapBefore ==
  IF job.history = <<>> THEN 0
  ELSE GapMilliseconds(frames[Head(job.history)].end, Frame.start)

\* The inserted row; acked and late are history: whether the caller was told
\* of the row, and whether its channel had been closed by then.
NewRow(acked) ==
  [id |-> job.id, chan |-> Frame.chan, start |-> Frame.start, end |-> Frame.end,
   max |-> Frame.max, min |-> Frame.min, mean |-> Frame.mean, rms |-> Frame.rms,
   gap |-> GapBefore, acked |-> acked, late |-> chanStatus[Frame.chan] # "open"]

Insert ==
  /\ pc = "insert"
  /\ \/ /\ CallSucceeds
        /\ frames' = Append(frames, NewRow(TRUE))
        /\ job' = [job EXCEPT !.row = Len(frames) + 1]
        /\ pc' = "publish"
     \/ /\ WrittenButFails
        /\ frames' = Append(frames, NewRow(FALSE))
        /\ Return
     \/ CallFails /\ Return /\ UNCHANGED frames
  /\ UNCHANGED <<accepted, refused, queue, stop, latest, boot, chanStatus,
                 windows, events, alerts, clock, restarts>>

\* The findings on the inserted row; history is what ReadHistory returned.
Findings ==
  IF ~EngineAttached THEN <<>>
  ELSE Evaluate(frames[job.row], frames[job.row].gap,
                [i \in 1..Len(job.history) |-> frames[job.history[i]]],
                Sensitivity[Frame.chan])

\* The rest of processFrame once the findings todo remain.
Continue(todo) ==
  IF todo = <<>> THEN Return
  ELSE pc' = "create" /\ job' = [job EXCEPT !.todo = todo, !.ev = 0,
                                   !.suppressed = FALSE, !.blind = FALSE]

\* The snapshot of a channel is filled once and never replaced.
PublishOnce ==
  /\ pc = "publish"
  /\ latest' = [latest EXCEPT ![Frame.chan] = IF @ = 0 THEN job.row ELSE @]
  /\ Continue(Findings)
  /\ UNCHANGED <<accepted, refused, queue, ctx, stop, boot, chanStatus, windows,
                 tables, clock, faults, restarts>>

\* latestStats under the lock, then Evaluate, which reads locals only.
Publish ==
  /\ pc = "publish"
  /\ latest' = [latest EXCEPT ![Frame.chan] = job.row]
  /\ Continue(Findings)
  /\ UNCHANGED <<accepted, refused, queue, ctx, stop, boot, chanStatus, windows,
                 tables, clock, faults, restarts>>

\* Warnings page the operators too.
EscalatedSeverities == {"critical", "warn"}

\* Only critical findings are escalated.
Escalated == {"critical"}

\* told is history: whether Create's caller learnt of the row.
NewEvent(told) == [row |-> job.row, rule |-> Finding, detected |-> job.now, told |-> told]

\* Without the continue after a failed Create.
CreateEventFallsThrough ==
  /\ pc = "create"
  /\ \/ CallSucceeds /\ events' = Append(events, NewEvent(TRUE))
     \/ WrittenButFails /\ events' = Append(events, NewEvent(FALSE))
     \/ CallFails /\ UNCHANGED events
  /\ IF Severity[Finding] \in Escalated
     THEN pc' = "suppression" /\ job' = [job EXCEPT !.ev = Len(events) + 1]
     ELSE Continue(Tail(job.todo))
  /\ UNCHANGED <<accepted, refused, queue, stop, latest, boot, chanStatus,
                 windows, frames, alerts, clock, restarts>>

CreateEvent ==
  /\ pc = "create"
  /\ \/ /\ CallSucceeds
        /\ events' = Append(events, NewEvent(TRUE))
        /\ IF Severity[Finding] \in Escalated
           THEN pc' = "suppression" /\ job' = [job EXCEPT !.ev = Len(events) + 1]
           ELSE Continue(Tail(job.todo))
     \/ /\ WrittenButFails
        /\ events' = Append(events, NewEvent(FALSE))
        /\ Continue(Tail(job.todo))
     \/ CallFails /\ Continue(Tail(job.todo)) /\ UNCHANGED events
  /\ UNCHANGED <<accepted, refused, queue, stop, latest, boot, chanStatus,
                 windows, frames, alerts, clock, restarts>>

\* The moment the worker asks decides.
SuppressedAtQuery == ActiveAt(StationOf[Frame.chan], clock)

\* The moment the frame was taken up decides, not the moment of the query.
Suppressed == ActiveAt(StationOf[Frame.chan], job.now)

\* An error of ActiveAt counts as not suppressed; blind is history.
CheckSuppression ==
  /\ pc = "suppression"
  /\ \/ /\ CallSucceeds
        /\ job' = [job EXCEPT !.suppressed = Suppressed]
     \/ CallFails /\ job' = [job EXCEPT !.suppressed = FALSE, !.blind = TRUE]
  /\ pc' = "escalate"
  /\ UNCHANGED <<accepted, refused, queue, stop, latest, boot, chanStatus,
                 windows, tables, clock, restarts>>

\* The event handed to Escalate is the one Evaluate built: Create's id is
\* discarded and ev.ID keeps its zero value.  ev is history: the row meant.
NewAlert == [qcEventID |-> 0, ev |-> job.ev, suppressed |-> job.suppressed,
             blind |-> job.blind]

\* Escalate runs on the background context: only the database can fail it.
Escalate ==
  /\ pc = "escalate"
  /\ \/ alerts' = Append(alerts, NewAlert) /\ UNCHANGED faults
     \/ faults < MaxFaults /\ faults' = faults + 1 /\ UNCHANGED alerts
  /\ Continue(Tail(job.todo))
  /\ UNCHANGED <<accepted, refused, queue, ctx, stop, latest, boot, chanStatus,
                 windows, frames, events, clock, restarts>>
-----------------------------------------------------------------------------
\* Stop waits for a worker that nobody told to stop.
CancelNothing ==
  /\ stop = "none"
  /\ stop' = "waiting"
  /\ UNCHANGED <<accepted, refused, queue, ctx, pc, job, latest, boot, chanStatus,
                 windows, tables, clock, faults, restarts>>

\* Stop: cancel, then wait for the worker.
Cancel ==
  /\ stop = "none"
  /\ stop' = "waiting"
  /\ ctx' = IF pc \in Calls THEN "racing" ELSE "cancelled"
  /\ UNCHANGED <<accepted, refused, queue, pc, job, latest, boot, chanStatus,
                 windows, tables, clock, faults, restarts>>

\* The wait for the worker is left out.
StopReturnsAtOnce ==
  /\ stop = "waiting"
  /\ stop' = "returned"
  /\ UNCHANGED <<accepted, refused, queue, ctx, pc, job, latest, boot,
                 chanStatus, windows, tables, clock, faults, restarts>>

StopReturns ==
  /\ stop = "waiting" /\ pc = "exited"
  /\ stop' = "returned"
  /\ UNCHANGED <<accepted, refused, queue, ctx, pc, job, latest, boot,
                 chanStatus, windows, tables, clock, faults, restarts>>

AddChannel(c) ==
  /\ chanStatus[c] = "absent"
  /\ chanStatus' = [chanStatus EXCEPT ![c] = "open"]
  /\ UNCHANGED <<accepted, refused, queue, ctx, stop, pc, job, latest, boot,
                 windows, tables, clock, faults, restarts>>

\* ChannelService.Close: the update is conditional on status = 'open'.
CloseChannel(c) ==
  /\ chanStatus[c] = "open"
  /\ chanStatus' = [chanStatus EXCEPT ![c] = "closed"]
  /\ UNCHANGED <<accepted, refused, queue, ctx, stop, pc, job, latest, boot,
                 windows, tables, clock, faults, restarts>>

PlanWindow(w) ==
  /\ windows[w].state = "none"
  /\ windows' = [windows EXCEPT ![w] = [state |-> "planned", since |-> Len(accepted) - Len(queue)]]
  /\ UNCHANGED <<accepted, refused, queue, ctx, stop, pc, job, latest, boot,
                 chanStatus, tables, clock, faults, restarts>>

CloseWindow(w) ==
  /\ windows[w].state = "planned"
  /\ windows' = [windows EXCEPT ![w].state = "closed"]
  /\ UNCHANGED <<accepted, refused, queue, ctx, stop, pc, job, latest, boot,
                 chanStatus, tables, clock, faults, restarts>>

Tick ==
  /\ clock < MaxClock /\ clock' = clock + 1
  /\ UNCHANGED <<accepted, refused, queue, ctx, stop, pc, job, latest, boot,
                 chanStatus, windows, tables, faults, restarts>>

\* The process dies, at any point or after Stop, and is started again: the
\* tables are kept, NewIngestService and Start build the rest anew.
Restart ==
  /\ restarts < MaxRestarts /\ restarts' = restarts + 1
  /\ queue' = <<>> /\ ctx' = "live" /\ stop' = "none"
  /\ pc' = "idle" /\ job' = NoJob
  /\ latest' = [c \in Channel |-> 0]
  /\ boot' = Len(frames)
  /\ UNCHANGED <<accepted, refused, chanStatus, windows, tables, clock, faults>>

Worker == Take \/ Exit \/ Resolve \/ ReadHistory \/ Insert \/ Publish
          \/ CreateEvent \/ CheckSuppression \/ Escalate

Next ==
  \/ \E p \in Payload : Submit(p)
  \/ Take \/ Exit
  \/ Resolve \/ ReadHistory \/ Insert \/ Publish
  \/ CreateEvent \/ CheckSuppression \/ Escalate
  \/ Cancel \/ StopReturns
  \/ \E c \in Channel : AddChannel(c) \/ CloseChannel(c)
  \/ \E w \in Window : PlanWindow(w) \/ CloseWindow(w)
  \/ Tick
  \/ Restart

Spec == Init /\ [][Next]_vars

\* The worker is a goroutine that is always runnable while it has a step, and
\* select picks uniformly among ready branches, so a cancelled context is
\* noticed however fast frames arrive.
Fairness == WF_vars(Worker) /\ SF_vars(Exit) /\ WF_vars(StopReturns)

FairSpec == Spec /\ Fairness
-----------------------------------------------------------------------------
JobType ==
  [id : Nat, now : Nat, history : Seq(Nat), row : Nat, todo : Seq(Rule),
   ev : Nat, suppressed : BOOLEAN, blind : BOOLEAN]

FrameRow ==
  [id : Nat, chan : Channel, start : Nat, end : Nat, max : Int, min : Int,
   mean : Int, rms : Nat, gap : Nat, acked : BOOLEAN, late : BOOLEAN]

\* Every variable keeps its type and the queue its capacity.
TypeOK ==
  /\ accepted \in Seq(Payload)
  /\ refused \subseteq Nat
  /\ queue \in Seq(Nat) /\ Len(queue) <= QueueSize
  /\ ctx \in {"live", "racing", "cancelled"}
  /\ stop \in {"none", "waiting", "returned"}
  /\ pc \in PC /\ job \in JobType
  /\ latest \in [Channel -> Nat] /\ boot \in Nat
  /\ chanStatus \in [Channel -> {"absent", "open", "closed"}]
  /\ windows \in [Window -> [state : {"none", "planned", "closed"}, since : Nat]]
  /\ frames \in Seq(FrameRow)
  /\ events \in Seq([row : Nat, rule : Rule, detected : Nat, told : BOOLEAN])
  /\ alerts \in Seq([qcEventID : {0}, ev : Nat, suppressed : BOOLEAN, blind : BOOLEAN])
  /\ {clock, faults, restarts} \subseteq Nat

Log == INSTANCE FrameLog
         WITH stored <- [k \in 1..Len(frames) |-> frames[k].id]

\* Through failures, cancellation and crashes an accepted frame becomes at
\* most one row and rows keep the order in which frames were accepted: the
\* single worker is what makes processFrame's read-then-insert safe.
ImplementsFrameLog == Log!Spec

\* The gap stored with a frame is measured from the newest frame of the same
\* channel among all those inserted before it: no row slips in between the
\* read of the history and the insert.
GapFromNewestRow ==
  \A r \in 1..Len(frames) :
    LET earlier == {q \in RowsOf(frames[r].chan) : q < r}
    IN  IF earlier = {} THEN frames[r].gap = 0
        ELSE \E q \in NewestOf(earlier) :
               frames[r].gap = GapMilliseconds(frames[q].end, frames[r].start)

\* Rows of c this process inserted and knows of, once Publish has run.
KnownRows(c) ==
  {r \in RowsOf(c) : /\ boot < r /\ frames[r].acked
                     /\ ~(pc = "publish" /\ r = job.row)}

\* Snapshot: at any moment the snapshot of a channel is the last row this
\* process inserted for it, whatever failed or raced in between.
SnapshotIsLastInsert ==
  \A c \in Channel :
    IF KnownRows(c) = {} THEN latest[c] = 0
    ELSE latest[c] \in KnownRows(c) /\ \A r \in KnownRows(c) : r <= latest[c]

Late(c) == {r \in RowsOf(c) : frames[r].late}

\* The status check and the insert are separate calls, so a channel that is
\* closed in between still gets the frame in the worker's hands; never a
\* second one.
AtMostOneLateFrame == \A c \in Channel : Cardinality(Late(c)) <= 1

Stored == {frames[r].id : r \in 1..Len(frames)}

InHand == IF pc \in {"resolve", "history", "insert"} THEN {job.id} ELSE {}

Missing ==
  1..Len(accepted)
    \ (Stored \cup refused \cup InHand \cup {queue[k] : k \in 1..Len(queue)})

\* As long as nothing was cancelled and nothing crashed, an accepted frame is
\* queued, being processed, stored or refused for its channel; each one that
\* is none of these cost a database failure of its own.
LossNeedsFault == ctx = "live" /\ restarts = 0 => Cardinality(Missing) <= faults

\* Each alert stems from a recorded critical event of its own, in the order
\* of the events: none is escalated twice, on whatever path the loop took.
AlertsFollowEvents ==
  \A k \in 1..Len(alerts) :
    /\ alerts[k].ev \in 1..Len(events)
    /\ Severity[events[alerts[k].ev].rule] = "critical"
    /\ events[alerts[k].ev].told
    /\ \A j \in 1..(k - 1) : alerts[j].ev < alerts[k].ev

Unalerted ==
  {e \in 1..Len(events) : /\ Severity[events[e].rule] = "critical"
                          /\ \A k \in 1..Len(alerts) : alerts[k].ev # e}

\* Alerts sent without an answer about maintenance.
Blind == {k \in 1..Len(alerts) : alerts[k].blind}

\* A critical event without an alert is in the worker's hands, or cost a
\* failure, and so did an alert that was let through because the maintenance
\* query failed: together they are one at most per failed database call, per
\* crash, and for the cancelled context however many events were still to be
\* recorded.
AlertFailuresBounded ==
  Cardinality(Unalerted) + Cardinality(Blind)
    <= faults + restarts
       + (IF ctx # "live" \/ pc \in {"suppression", "escalate"} THEN 1 ELSE 0)

CoveredBy(w, e) ==
  /\ w.station = StationOf[frames[events[e].row].chan]
  /\ w.start <= events[e].detected /\ events[e].detected <= w.end

\* The suppression of an alert is that of the moment its frame was taken up:
\* a window over that moment that was planned before and never closed is
\* honoured even if it ends before the query, and none is honoured otherwise.
SuppressionAtDetection ==
  \A k \in 1..Len(alerts) : ~alerts[k].blind =>
    LET e == alerts[k].ev
    IN  /\ alerts[k].suppressed =>
             \E w \in Window : CoveredBy(w, e) /\ windows[w].state # "none"
        /\ (\E w \in Window : /\ CoveredBy(w, e)
                              /\ windows[w].state = "planned"
                              /\ windows[w].since < frames[events[e].row].id)
             => alerts[k].suppressed

\* Once Stop has returned, the worker never writes again: main closes the
\* database right after (main.go:30,74).
QuietAfterStop == [][stop = "returned" => UNCHANGED tables]_vars

\* Stop returns, however full the queue and wherever the worker was.
StopTerminates == stop = "waiting" ~> stop # "waiting"

Queued(i) == \E k \in 1..Len(queue) : queue[k] = i

\* A frame does not stay in the queue of a service that is not being stopped.
EveryFrameTaken ==
  \A i \in 1..MaxAccepted : Queued(i) ~> (~Queued(i) \/ ctx # "live")
-----------------------------------------------------------------------------
(* What comments of the code say and the code does not do. *)

\* model/alert.go:5: "Alert is an escalation of a critical QC event": the
\* event an alert refers to is a row of qc_events.
AlertNamesItsEvent ==
  \A k \in 1..Len(alerts) : alerts[k].qcEventID \in 1..Len(events)

\* The ten rows of c before r that are newest by start time.
TenBefore(r) ==
  LET earlier == {q \in RowsOf(frames[r].chan) : q < r}
  IN  {q \in earlier :
         Cardinality({p \in earlier : frames[p].start > frames[q].start}) < 10}

\* qc_rules.go:56: "RMSDriftRule warns when current RMS deviates over 3x from
\* recent history": a frame above three times every one of at least ten
\* recent frames has its event once the worker is done with it.
RMSDriftWarns ==
  \A r \in 1..Len(frames) :
    (/\ EngineAttached /\ ctx = "live" /\ faults = 0 /\ restarts = 0
     /\ pc = "idle" /\ r > 10
     /\ Cardinality(TenBefore(r)) >= 10
     /\ \A q \in TenBefore(r) : 0 < frames[q].rms /\ frames[r].rms > 3 * frames[q].rms)
      => \E e \in 1..Len(events) : events[e].row = r /\ events[e].rule = "RMS_DRIFT"
=============================================================================
