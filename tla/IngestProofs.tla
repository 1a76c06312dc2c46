---------------------------- MODULE IngestProofs ----------------------------
(***************************************************************************)
(* Proofs about IngestPipeline, for every value of its constants.          *)
(***************************************************************************)
EXTENDS IngestPipeline, SequenceTheorems, FiniteSetTheorems, TLAPS

\* Program points at which the worker holds a frame.
Busy == PC \ {"idle", "exited"}

\* The worker's locals make sense together: it holds an accepted frame while
\* it is busy, its history names rows of the table, and it has a finding in
\* hand while it records one.
WorkerInv ==
  /\ pc \in Busy => job.id \in 1..Len(accepted)
  /\ \A i \in 1..Len(job.history) : job.history[i] \in 1..Len(frames)
  /\ pc \in {"create", "suppression", "escalate"} => job.todo # <<>>

-----------------------------------------------------------------------------
(* Operators of the rules. *)

LEMMA FindingIfType ==
  ASSUME NEW b, NEW r \in Rule
  PROVE  FindingIf(b, r) \in Seq(Rule)
<1>1. CASE b
  BY <1>1 DEF FindingIf
<1>2. CASE ~b
  BY <1>2 DEF FindingIf
<1> QED
  BY <1>1, <1>2

\* The engine's findings are built-in rules.
LEMMA EvaluateType ==
  ASSUME NEW f, NEW gap, NEW history, NEW sensitivity
  PROVE  Evaluate(f, gap, history, sensitivity) \in Seq(Rule)
<1>1. \A s, t \in Seq(Rule) : s \o t \in Seq(Rule)
  BY ConcatProperties
<1>2. /\ "SPIKE" \in Rule /\ "CLIPPING" \in Rule /\ "GAP" \in Rule
      /\ "RMS_DRIFT" \in Rule /\ "SENSITIVITY_DRIFT" \in Rule
  BY DEF Rule
<1>3. FindingIf(SpikeFires(f), "SPIKE") \in Seq(Rule)
  BY <1>2, FindingIfType
<1>4. FindingIf(ClippingFires(f), "CLIPPING") \in Seq(Rule)
  BY <1>2, FindingIfType
<1>5. FindingIf(GapFires(gap), "GAP") \in Seq(Rule)
  BY <1>2, FindingIfType
<1>6. FindingIf(RMSDriftFires(f, history), "RMS_DRIFT") \in Seq(Rule)
  BY <1>2, FindingIfType
<1>7. FindingIf(SensitivityDriftFires(f, sensitivity), "SENSITIVITY_DRIFT") \in Seq(Rule)
  BY <1>2, FindingIfType
<1> QED
  BY <1>1, <1>3, <1>4, <1>5, <1>6, <1>7 DEF Evaluate
-----------------------------------------------------------------------------
(* Type correctness. *)

\* A row built from an accepted frame has the type of a row.
LEMMA NewRowType ==
  ASSUME TypeOK, WorkerInv, pc = "insert", NEW acked \in BOOLEAN
  PROVE  NewRow(acked) \in FrameRow
<1>1. Frame \in [chan : Channel, start : Nat, end : Nat,
                 max : Int, min : Int, mean : Int, rms : Nat]
  BY IngestAssumption DEF Frame, TypeOK, WorkerInv, Busy, PC, Calls
<1>2. /\ Frame.chan \in Channel /\ Frame.start \in Nat /\ Frame.end \in Nat
      /\ Frame.max \in Int /\ Frame.min \in Int /\ Frame.mean \in Int
      /\ Frame.rms \in Nat
  BY <1>1
<1>3. GapBefore \in Nat
  <2>1. CASE job.history = <<>>
    BY <2>1 DEF GapBefore
  <2>2. CASE job.history # <<>>
    <3>1. job.history \in Seq(Nat)
      BY DEF TypeOK, JobType
    <3>2. Head(job.history) = job.history[1] /\ 1 \in 1..Len(job.history)
      BY <2>2, <3>1
    <3>3. Head(job.history) \in 1..Len(frames)
      BY <3>2 DEF WorkerInv
    <3>4. frames \in Seq(FrameRow)
      BY DEF TypeOK
    <3>5. frames[Head(job.history)] \in FrameRow
      BY <3>3, <3>4
    <3>6. frames[Head(job.history)].end \in Nat
      BY <3>5 DEF FrameRow
    <3> QED
      BY <1>2, <2>2, <3>6 DEF GapBefore, GapMilliseconds
  <2> QED
    BY <2>1, <2>2
<1>4. job.id \in Nat
  BY DEF TypeOK, JobType
<1> QED
  BY <1>2, <1>3, <1>4 DEF NewRow, FrameRow

LEMMA NoJobType ==
  /\ NoJob \in JobType
  /\ Len(NoJob.history) = 0
<1>1. <<>> \in Seq(Nat) /\ <<>> \in Seq(Rule) /\ Len(<<>>) = 0
  OBVIOUS
<1> QED
  BY <1>1 DEF NoJob, JobType

\* An early return leaves the worker idle with no frame.
LEMMA ReturnType ==
  ASSUME Return
  PROVE  pc' \in PC /\ job' \in JobType /\ WorkerInv'
BY NoJobType DEF Return, WorkerInv, PC, Busy

\* What the worker carries on with after a finding is well formed.
LEMMA ContinueType ==
  ASSUME TypeOK, WorkerInv, pc \in Busy, NEW todo \in Seq(Rule), Continue(todo),
         Len(accepted') = Len(accepted), Len(frames') = Len(frames)
  PROVE  pc' \in PC /\ job' \in JobType /\ WorkerInv'
<1>1. CASE todo = <<>>
  BY <1>1, ReturnType DEF Continue
<1>2. CASE todo # <<>>
  <2>1. job \in JobType
    BY DEF TypeOK
  <2>2. /\ pc' = "create"
        /\ job' = [job EXCEPT !.todo = todo, !.ev = 0,
                              !.suppressed = FALSE, !.blind = FALSE]
    BY <1>2 DEF Continue
  <2>3. /\ job' \in JobType
        /\ job'.id = job.id /\ job'.history = job.history /\ job'.todo = todo
    BY <2>1, <2>2 DEF JobType
  <2>4. job.id \in 1..Len(accepted')
        /\ \A i \in 1..Len(job.history) : job.history[i] \in 1..Len(frames')
    BY DEF WorkerInv
  <2>5. WorkerInv'
    BY <1>2, <2>2, <2>3, <2>4 DEF WorkerInv
  <2> QED
    BY <2>2, <2>3, <2>5 DEF PC, Calls
<1> QED
  BY <1>1, <1>2

LEMMA TypeInit == Init => TypeOK /\ WorkerInv
<1> SUFFICES ASSUME Init PROVE TypeOK /\ WorkerInv
  OBVIOUS
<1>1. TypeOK
  BY NoJobType, IngestAssumption DEF Init, TypeOK, PC
<1>2. WorkerInv
  BY DEF Init, WorkerInv, NoJob, Busy
<1> QED
  BY <1>1, <1>2

\* One lemma for each action that touches more than one simple variable.
LEMMA TypeSubmit ==
  ASSUME TypeOK, WorkerInv, NEW p \in Payload, Submit(p)
  PROVE  TypeOK' /\ WorkerInv'
<1>1. /\ accepted \in Seq(Payload) /\ queue \in Seq(Nat)
      /\ accepted' = Append(accepted, p)
      /\ queue' = Append(queue, Len(accepted) + 1)
      /\ Len(queue) < QueueSize /\ Len(queue) \in Nat
  BY DEF TypeOK, Submit
<1>2. accepted' \in Seq(Payload) /\ Len(accepted') = Len(accepted) + 1
  BY <1>1
<1>3. queue' \in Seq(Nat) /\ Len(queue') <= QueueSize
  BY <1>1, IngestAssumption
<1>4. TypeOK'
  BY <1>2, <1>3 DEF TypeOK, Submit, tables
<1>5. Len(accepted) \in Nat /\ pc' = pc /\ job' = job /\ frames' = frames
  BY <1>1 DEF Submit, tables
<1>6. WorkerInv'
  BY <1>2, <1>5 DEF WorkerInv
<1> QED
  BY <1>4, <1>6

LEMMA TypeTake ==
  ASSUME TypeOK, WorkerInv, Take,
         \A k \in 1..Len(queue) : queue[k] \in 1..Len(accepted)
  PROVE  TypeOK' /\ WorkerInv'
<1>1. /\ queue \in Seq(Nat) /\ queue # <<>> /\ clock \in Nat
      /\ Len(queue) <= QueueSize /\ queue' = Tail(queue)
      /\ job' = [NoJob EXCEPT !.id = Head(queue), !.now = clock]
      /\ pc' = "resolve"
  BY DEF TypeOK, Take
<1>2. Head(queue) \in 1..Len(accepted) /\ Head(queue) \in Nat
  BY <1>1
<1>3. queue' \in Seq(Nat) /\ Len(queue') <= QueueSize
  BY <1>1, IngestAssumption
<1>4. job' \in JobType /\ job'.id = Head(queue) /\ job'.history = NoJob.history
  BY <1>1, <1>2, NoJobType DEF JobType
<1>5. pc' \in PC
  BY <1>1 DEF PC, Calls
<1>6. TypeOK'
  BY <1>3, <1>4, <1>5 DEF TypeOK, Take, tables
<1>7. accepted' = accepted /\ frames' = frames
  BY DEF Take, tables
<1>8. WorkerInv'
  BY <1>1, <1>2, <1>4, <1>7, NoJobType DEF WorkerInv
<1> QED
  BY <1>6, <1>8

LEMMA CallFailsType ==
  ASSUME TypeOK, CallFails \/ CallSucceeds \/ WrittenButFails
  PROVE  ctx' \in {"live", "racing", "cancelled"} /\ faults' \in Nat
<1>1. faults \in Nat /\ ctx \in {"live", "racing", "cancelled"}
  BY DEF TypeOK
<1> QED
  BY <1>1 DEF CallFails, CallSucceeds, WrittenButFails

LEMMA TypeResolve ==
  ASSUME TypeOK, WorkerInv, Resolve
  PROVE  TypeOK' /\ WorkerInv'
<1>1. CallFails \/ CallSucceeds
  BY DEF Resolve
<1>2. ctx' \in {"live", "racing", "cancelled"} /\ faults' \in Nat
  BY <1>1, CallFailsType
<1>3. job \in JobType /\ job.id \in Nat /\ refused \subseteq Nat
  BY DEF TypeOK, JobType
<1>4. refused' \subseteq Nat
  BY <1>3 DEF Resolve
<1>5. accepted' = accepted /\ frames' = frames
  BY DEF Resolve, tables
<1>6. pc' \in PC /\ job' \in JobType /\ WorkerInv'
  <2>1. CASE Return
    BY <2>1, ReturnType
  <2>2. CASE pc' = "history" /\ UNCHANGED job
    <3>1. pc \in Busy /\ pc' \in PC
      BY <2>2 DEF Resolve, Busy, PC, Calls
    <3> QED
      BY <1>3, <1>5, <2>2, <3>1 DEF WorkerInv
  <2> QED
    BY <2>1, <2>2 DEF Resolve
<1>7. TypeOK'
  BY <1>2, <1>4, <1>6 DEF TypeOK, Resolve, tables
<1> QED
  BY <1>6, <1>7

\* What RecentByChannel returns: at most one row, of the table.
LEMMA RecentByChannelType ==
  ASSUME NEW c, NEW h \in RecentByChannel(c), TypeOK
  PROVE  h \in Seq(Nat) /\ \A i \in 1..Len(h) : h[i] \in 1..Len(frames)
<1>1. CASE h = <<>>
  BY <1>1
<1>2. ASSUME NEW r \in RowsOf(c), h = <<r>>
      PROVE  h \in Seq(Nat) /\ \A i \in 1..Len(h) : h[i] \in 1..Len(frames)
  <2>1. r \in 1..Len(frames) /\ r \in Nat
    BY DEF RowsOf
  <2>2. Len(<<r>>) = 1 /\ <<r>>[1] = r /\ <<r>> \in Seq(Nat)
    BY <2>1
  <2> QED
    BY <1>2, <2>1, <2>2
<1>3. h = <<>> \/ \E r \in RowsOf(c) : h = <<r>>
  BY DEF RecentByChannel, NewestOf
<1> QED
  BY <1>1, <1>2, <1>3

LEMMA TypeReadHistory ==
  ASSUME TypeOK, WorkerInv, ReadHistory
  PROVE  TypeOK' /\ WorkerInv'
<1>1. CallFails \/ CallSucceeds
  BY DEF ReadHistory
<1>2. ctx' \in {"live", "racing", "cancelled"} /\ faults' \in Nat
  BY <1>1, CallFailsType
<1>3. accepted' = accepted /\ frames' = frames
  BY DEF ReadHistory, tables
<1>4. pc' \in PC /\ job' \in JobType /\ WorkerInv'
  <2>1. CASE Return
    BY <2>1, ReturnType
  <2>2. ASSUME NEW h \in RecentByChannel(Frame.chan),
               job' = [job EXCEPT !.history = h], pc' = "insert", pc = "history"
        PROVE  pc' \in PC /\ job' \in JobType /\ WorkerInv'
    <3>1. h \in Seq(Nat) /\ \A i \in 1..Len(h) : h[i] \in 1..Len(frames)
      BY <2>2, RecentByChannelType
    <3>2. job \in JobType
      BY DEF TypeOK
    <3>3. job' \in JobType /\ job'.history = h /\ job'.id = job.id
      BY <2>2, <3>1, <3>2 DEF JobType
    <3>4. pc \in Busy /\ pc' \in PC
      BY <2>2 DEF Busy, PC, Calls
    <3>5. WorkerInv'
      BY <1>3, <2>2, <3>1, <3>3, <3>4 DEF WorkerInv
    <3> QED
      BY <3>3, <3>4, <3>5
  <2> QED
    BY <2>1, <2>2 DEF ReadHistory
<1>5. TypeOK'
  BY <1>2, <1>4 DEF TypeOK, ReadHistory, tables
<1> QED
  BY <1>4, <1>5

LEMMA TypeInsert ==
  ASSUME TypeOK, WorkerInv, Insert
  PROVE  TypeOK' /\ WorkerInv'
<1>1. CallFails \/ CallSucceeds \/ WrittenButFails
  BY DEF Insert
<1>2. ctx' \in {"live", "racing", "cancelled"} /\ faults' \in Nat
  BY <1>1, CallFailsType
<1>3. accepted' = accepted /\ frames \in Seq(FrameRow) /\ Len(frames) \in Nat
  BY DEF Insert, TypeOK
<1>4. \A acked \in BOOLEAN : NewRow(acked) \in FrameRow
  BY NewRowType DEF Insert
<1>5. frames' \in Seq(FrameRow) /\ Len(frames') >= Len(frames) /\ Len(frames') \in Nat
  <2>1. CASE frames' = frames
    BY <1>3, <2>1
  <2>2. ASSUME NEW acked \in BOOLEAN, frames' = Append(frames, NewRow(acked))
        PROVE  /\ frames' \in Seq(FrameRow) /\ Len(frames') >= Len(frames)
               /\ Len(frames') \in Nat
    BY <1>3, <1>4, <2>2
  <2> QED
    BY <2>1, <2>2 DEF Insert
<1>6. pc' \in PC /\ job' \in JobType /\ WorkerInv'
  <2>1. CASE Return
    BY <2>1, ReturnType
  <2>2. CASE job' = [job EXCEPT !.row = Len(frames) + 1] /\ pc' = "publish"
    <3>1. job \in JobType /\ Len(frames) + 1 \in Nat
      BY <1>3 DEF TypeOK
    <3>2. job' \in JobType /\ job'.history = job.history /\ job'.id = job.id
      BY <2>2, <3>1 DEF JobType
    <3>3. pc \in Busy /\ pc' \in PC
      BY <2>2 DEF Insert, Busy, PC, Calls
    <3>4. \A i \in 1..Len(job.history) : job.history[i] \in 1..Len(frames')
      BY <1>3, <1>5 DEF WorkerInv
    <3>5. WorkerInv'
      BY <1>3, <2>2, <3>2, <3>3, <3>4 DEF WorkerInv
    <3> QED
      BY <3>2, <3>3, <3>5
  <2> QED
    BY <2>1, <2>2 DEF Insert
<1>7. TypeOK'
  BY <1>2, <1>5, <1>6 DEF TypeOK, Insert
<1> QED
  BY <1>6, <1>7

LEMMA TypePublish ==
  ASSUME TypeOK, WorkerInv, Publish
  PROVE  TypeOK' /\ WorkerInv'
<1>1. job \in JobType /\ job.row \in Nat /\ latest \in [Channel -> Nat]
  BY DEF TypeOK, JobType
<1>2. latest' \in [Channel -> Nat]
  BY <1>1 DEF Publish
<1>3. accepted' = accepted /\ frames' = frames /\ pc \in Busy /\ Continue(Findings)
  BY DEF Publish, tables, Busy, PC, Calls
<1>4. Findings \in Seq(Rule)
  BY EvaluateType DEF Findings
<1>5. pc' \in PC /\ job' \in JobType /\ WorkerInv'
  BY <1>3, <1>4, ContinueType
<1>6. TypeOK'
  BY <1>2, <1>5 DEF TypeOK, Publish, tables
<1> QED
  BY <1>5, <1>6

\* While a finding is being recorded, the remaining ones are rules.
LEMMA FindingType ==
  ASSUME TypeOK, WorkerInv, pc \in {"create", "suppression", "escalate"}
  PROVE  Finding \in Rule /\ Tail(job.todo) \in Seq(Rule) /\ pc \in Busy
<1>1. job.todo \in Seq(Rule) /\ job.todo # <<>>
  BY DEF TypeOK, JobType, WorkerInv
<1> QED
  BY <1>1 DEF Finding, Busy, PC, Calls

EventRow == [row : Nat, rule : Rule, detected : Nat, told : BOOLEAN]

LEMMA TypeCreateEvent ==
  ASSUME TypeOK, WorkerInv, CreateEvent
  PROVE  TypeOK' /\ WorkerInv'
<1>1. CallFails \/ CallSucceeds \/ WrittenButFails
  BY DEF CreateEvent
<1>2. ctx' \in {"live", "racing", "cancelled"} /\ faults' \in Nat
  BY <1>1, CallFailsType
<1>3. accepted' = accepted /\ frames' = frames /\ pc = "create"
  BY DEF CreateEvent
<1>4. Finding \in Rule /\ Tail(job.todo) \in Seq(Rule) /\ pc \in Busy
  BY <1>3, FindingType
<1>5. events \in Seq(EventRow) /\ Len(events) + 1 \in Nat /\ job \in JobType
  BY DEF TypeOK, EventRow
<1>6. \A told \in BOOLEAN : NewEvent(told) \in EventRow
  BY <1>4, <1>5 DEF NewEvent, EventRow, JobType
<1>7. events' \in Seq(EventRow)
  <2>1. NewEvent(TRUE) \in EventRow /\ NewEvent(FALSE) \in EventRow
    BY <1>6
  <2>2. \/ events' = Append(events, NewEvent(TRUE))
        \/ events' = Append(events, NewEvent(FALSE))
        \/ events' = events
    BY DEF CreateEvent
  <2>3. events \in Seq(EventRow)
    BY <1>5
  <2>4. \A e \in EventRow : Append(events, e) \in Seq(EventRow)
    BY <2>3
  <2> QED
    BY <2>1, <2>2, <2>3, <2>4
<1>8. pc' \in PC /\ job' \in JobType /\ WorkerInv'
  <2>1. CASE Continue(Tail(job.todo))
    BY <1>3, <1>4, <2>1, ContinueType
  <2>2. CASE pc' = "suppression" /\ job' = [job EXCEPT !.ev = Len(events) + 1]
    <3>1. /\ job' \in JobType /\ job'.history = job.history
          /\ job'.id = job.id /\ job'.todo = job.todo
      BY <1>5, <2>2 DEF JobType
    <3>2. pc' \in PC
      BY <2>2 DEF PC, Calls
    <3>3. WorkerInv'
      BY <1>3, <1>4, <2>2, <3>1 DEF WorkerInv
    <3> QED
      BY <3>1, <3>2, <3>3
  <2> QED
    BY <2>1, <2>2 DEF CreateEvent
<1>9. TypeOK'
  BY <1>2, <1>7, <1>8 DEF TypeOK, CreateEvent, EventRow
<1> QED
  BY <1>8, <1>9

LEMMA TypeCheckSuppression ==
  ASSUME TypeOK, WorkerInv, CheckSuppression
  PROVE  TypeOK' /\ WorkerInv'
<1>1. CallFails \/ CallSucceeds
  BY DEF CheckSuppression
<1>2. ctx' \in {"live", "racing", "cancelled"} /\ faults' \in Nat
  BY <1>1, CallFailsType
<1>3. accepted' = accepted /\ frames' = frames /\ pc = "suppression" /\ pc' = "escalate"
  BY DEF CheckSuppression, tables
<1>4. pc \in Busy /\ pc' \in PC
  BY <1>3 DEF Busy, PC, Calls
<1>5. Suppressed \in BOOLEAN
  BY DEF Suppressed, ActiveAt
<1>6. \E b \in BOOLEAN : \/ job' = [job EXCEPT !.suppressed = b]
                         \/ job' = [job EXCEPT !.suppressed = b, !.blind = TRUE]
  BY <1>5 DEF CheckSuppression
<1>7. /\ job' \in JobType /\ job'.history = job.history
      /\ job'.id = job.id /\ job'.todo = job.todo
  <2>1. job \in JobType
    BY DEF TypeOK
  <2> QED
    BY <1>6, <2>1 DEF JobType
<1>8. WorkerInv'
  BY <1>3, <1>4, <1>7 DEF WorkerInv
<1>9. TypeOK'
  BY <1>2, <1>4, <1>7 DEF TypeOK, CheckSuppression, tables
<1> QED
  BY <1>8, <1>9

AlertRow == [qcEventID : {0}, ev : Nat, suppressed : BOOLEAN, blind : BOOLEAN]

LEMMA TypeEscalate ==
  ASSUME TypeOK, WorkerInv, Escalate
  PROVE  TypeOK' /\ WorkerInv'
<1>1. accepted' = accepted /\ frames' = frames /\ pc = "escalate" /\ Continue(Tail(job.todo))
  BY DEF Escalate
<1>2. Finding \in Rule /\ Tail(job.todo) \in Seq(Rule) /\ pc \in Busy
  BY <1>1, FindingType
<1>3. pc' \in PC /\ job' \in JobType /\ WorkerInv'
  BY <1>1, <1>2, ContinueType
<1>4. alerts \in Seq(AlertRow) /\ job \in JobType /\ faults \in Nat
  BY DEF TypeOK, AlertRow
<1>5. NewAlert \in AlertRow
  BY <1>4 DEF NewAlert, AlertRow, JobType
<1>6. alerts' \in Seq(AlertRow) /\ faults' \in Nat
  BY <1>4, <1>5 DEF Escalate
<1>7. TypeOK'
  BY <1>3, <1>6 DEF TypeOK, Escalate, AlertRow
<1> QED
  BY <1>3, <1>7

LEMMA TypeWindow ==
  ASSUME TypeOK, WorkerInv, NEW w \in Window, PlanWindow(w) \/ CloseWindow(w),
         Len(queue) <= Len(accepted)
  PROVE  TypeOK' /\ WorkerInv'
<1>1. /\ windows \in [Window -> [state : {"none", "planned", "closed"}, since : Nat]]
      /\ Len(accepted) - Len(queue) \in Nat
  BY DEF TypeOK
<1>2. windows[w] \in [state : {"none", "planned", "closed"}, since : Nat]
  BY <1>1
<1>3. /\ [state |-> "planned", since |-> Len(accepted) - Len(queue)]
           \in [state : {"none", "planned", "closed"}, since : Nat]
      /\ [windows[w] EXCEPT !.state = "closed"]
           \in [state : {"none", "planned", "closed"}, since : Nat]
  BY <1>1, <1>2
<1>4. windows' \in [Window -> [state : {"none", "planned", "closed"}, since : Nat]]
  BY <1>1, <1>3 DEF PlanWindow, CloseWindow
<1>5. TypeOK'
  BY <1>4 DEF TypeOK, PlanWindow, CloseWindow, tables
<1>6. WorkerInv'
  BY DEF WorkerInv, PlanWindow, CloseWindow, tables
<1> QED
  BY <1>5, <1>6

LEMMA TypeRestart ==
  ASSUME TypeOK, WorkerInv, Restart
  PROVE  TypeOK' /\ WorkerInv'
<1>1. Return
  BY DEF Restart, Return
<1>2. pc' \in PC /\ job' \in JobType /\ WorkerInv'
  BY <1>1, ReturnType
<1>3. /\ queue' \in Seq(Nat) /\ Len(queue') <= QueueSize
      /\ latest' \in [Channel -> Nat]
      /\ boot' \in Nat /\ restarts' \in Nat
  <2>1. queue' = <<>> /\ latest' = [c \in Channel |-> 0]
        /\ boot' = Len(frames) /\ restarts' = restarts + 1
    BY DEF Restart
  <2>2. Len(frames) \in Nat /\ restarts \in Nat
    BY DEF TypeOK
  <2> QED
    BY <2>1, <2>2, IngestAssumption
<1>4. TypeOK'
  BY <1>2, <1>3 DEF TypeOK, Restart, tables
<1> QED
  BY <1>2, <1>4

-----------------------------------------------------------------------------
(* At most once and in order. *)

\* How many accepted frames the worker has taken up, or a crash has lost.
Taken == Len(accepted) - Len(queue)

\* The queue is the tail of what was accepted; rows come from frames taken
\* earlier, and until the frame in hand is inserted, from frames before it.
OrderInv ==
  /\ Len(queue) <= Len(accepted)
  /\ \A k \in 1..Len(queue) : queue[k] = Taken + k
  /\ pc \in Busy => job.id <= Taken
  /\ \A r \in 1..Len(frames) : frames[r].id \in 1..Taken
  /\ pc \in {"resolve", "history", "insert"} =>
       \A r \in 1..Len(frames) : frames[r].id < job.id
  /\ \A r \in 1..Len(frames) : \A q \in 1..(r - 1) : frames[q].id < frames[r].id

IngestInv == TypeOK /\ WorkerInv /\ OrderInv

\* Actions other than these leave the order of things alone.
LEMMA OrderUnchanged ==
  ASSUME OrderInv, UNCHANGED <<queue, accepted, frames>>,
         \/ UNCHANGED <<pc, job>>
         \/ pc' \notin Busy
         \/ pc' \in Busy \ {"resolve"} /\ pc \in Busy /\ job'.id = job.id
            /\ (pc' \in {"history", "insert"} => pc \in {"resolve", "history"})
  PROVE  OrderInv'
<1>1. Taken' = Taken
  BY DEF Taken
<1>2. pc' \in Busy => job'.id <= Taken
  BY DEF OrderInv
<1>3. pc' \in {"resolve", "history", "insert"} =>
        \A r \in 1..Len(frames) : frames[r].id < job'.id
  BY DEF OrderInv, Busy, PC, Calls
<1> QED
  BY <1>1, <1>2, <1>3 DEF OrderInv

LEMMA OrderSubmit ==
  ASSUME TypeOK, OrderInv, NEW p \in Payload, Submit(p)
  PROVE  OrderInv'
<1>1. /\ accepted \in Seq(Payload) /\ queue \in Seq(Nat)
      /\ accepted' = Append(accepted, p)
      /\ queue' = Append(queue, Len(accepted) + 1)
      /\ UNCHANGED <<pc, job, frames>>
  BY DEF TypeOK, Submit, tables
<1>2. Len(accepted') = Len(accepted) + 1 /\ Len(queue') = Len(queue) + 1
  BY <1>1
<1>3. Taken' = Taken /\ Taken \in Int /\ Len(queue) \in Nat /\ Len(accepted) \in Nat
  BY <1>1, <1>2 DEF Taken
<1>4. \A k \in 1..Len(queue') : queue'[k] = Taken + k
  <2>1. \A k \in 1..Len(queue) : queue'[k] = queue[k]
    BY <1>1
  <2>2. queue'[Len(queue) + 1] = Taken + (Len(queue) + 1)
    BY <1>1, <1>3 DEF Taken
  <2> QED
    BY <1>2, <1>3, <2>1, <2>2 DEF OrderInv
<1>5. Taken' = Taken /\ UNCHANGED <<pc, job, frames>> /\ Len(queue') <= Len(accepted')
  BY <1>1, <1>2, <1>3 DEF OrderInv
<1> QED
  BY <1>4, <1>5 DEF OrderInv

LEMMA OrderTake ==
  ASSUME TypeOK, OrderInv, Take
  PROVE  OrderInv'
<1>1. /\ queue \in Seq(Nat) /\ queue # <<>> /\ queue' = Tail(queue)
      /\ accepted' = accepted /\ frames' = frames /\ pc' = "resolve"
      /\ job' = [NoJob EXCEPT !.id = Head(queue), !.now = clock]
      /\ Len(accepted) \in Nat
  BY DEF TypeOK, Take, tables
<1>2. /\ Len(queue) \in Nat /\ Len(queue) >= 1 /\ Len(queue') = Len(queue) - 1
      /\ Head(queue) = queue[1]
      /\ \A k \in 1..Len(queue') : queue'[k] = queue[k + 1]
  BY <1>1
<1>3. Taken' = Taken + 1 /\ Taken \in Int
  BY <1>1, <1>2 DEF Taken
<1>4. job'.id = Taken + 1
  <2>1. queue[1] = Taken + 1
    BY <1>2 DEF OrderInv
  <2> QED
    BY <1>1, <1>2, <2>1 DEF NoJob
<1>5. \A k \in 1..Len(queue') : queue'[k] = Taken' + k
  BY <1>2, <1>3 DEF OrderInv
<1>6. \A r \in 1..Len(frames) : frames[r].id \in 1..Taken
  BY DEF OrderInv
<1> QED
  BY <1>1, <1>2, <1>3, <1>4, <1>5, <1>6 DEF OrderInv

LEMMA OrderInsert ==
  ASSUME TypeOK, WorkerInv, OrderInv, Insert
  PROVE  OrderInv'
<1>1. /\ frames \in Seq(FrameRow) /\ Len(frames) \in Nat /\ pc = "insert"
      /\ UNCHANGED <<queue, accepted>> /\ job.id \in Nat
      /\ Taken' = Taken /\ Taken \in Int
  BY DEF TypeOK, Insert, JobType, Taken
<1>2. job.id \in 1..Len(accepted) /\ job.id <= Taken
  BY <1>1 DEF WorkerInv, OrderInv, Busy, PC, Calls
<1>3. CASE frames' = frames /\ Return
  <2>1. pc' \notin Busy
    BY <1>3 DEF Return, Busy
  <2> QED
    BY <1>1, <1>3, <2>1, OrderUnchanged
<1>4. ASSUME NEW acked \in BOOLEAN, frames' = Append(frames, NewRow(acked)),
             pc' \notin {"resolve", "history", "insert"},
             pc' \in Busy => job'.id = job.id
      PROVE  OrderInv'
  <2>1. Len(frames') = Len(frames) + 1
    BY <1>1, <1>4
  <2>2. \A r \in 1..Len(frames) : frames'[r] = frames[r]
    BY <1>1, <1>4
  <2>3. frames'[Len(frames) + 1].id = job.id
    BY <1>1, <1>4 DEF NewRow
  <2>4. \A r \in 1..Len(frames) : frames[r].id < job.id
    BY <1>1 DEF OrderInv
  <2>5. \A r \in 1..Len(frames') : frames'[r].id \in 1..Taken
    <3>1. \A r \in 1..Len(frames) : frames[r].id \in 1..Taken
      BY DEF OrderInv
    <3>2. job.id \in 1..Taken
      BY <1>1, <1>2
    <3>3. ASSUME NEW r \in 1..Len(frames') PROVE frames'[r].id \in 1..Taken
      <4>1. CASE r \in 1..Len(frames)
        BY <2>2, <3>1, <4>1
      <4>2. CASE r = Len(frames) + 1
        BY <2>3, <3>2, <4>2
      <4> QED
        BY <1>1, <2>1, <4>1, <4>2
    <3> QED
      BY <1>1, <3>3
  <2>6. \A r \in 1..Len(frames') : \A q \in 1..(r - 1) : frames'[q].id < frames'[r].id
    <3>1. \A r \in 1..Len(frames) : \A q \in 1..(r - 1) : frames'[q].id < frames'[r].id
      <4>1. \A r \in 1..Len(frames) : \A q \in 1..(r - 1) : frames[q].id < frames[r].id
        BY DEF OrderInv
      <4>2. \A r \in 1..Len(frames) : 1..(r - 1) \subseteq 1..Len(frames)
        BY <1>1
      <4> QED
        BY <2>2, <4>1, <4>2
    <3>2. \A q \in 1..Len(frames) : frames'[q].id < frames'[Len(frames) + 1].id
      BY <2>2, <2>3, <2>4
    <3>3. ASSUME NEW r \in 1..Len(frames')
          PROVE  \A q \in 1..(r - 1) : frames'[q].id < frames'[r].id
      <4>1. CASE r \in 1..Len(frames)
        BY <3>1, <4>1
      <4>2. CASE r = Len(frames) + 1
        <5>1. 1..(r - 1) = 1..Len(frames)
          BY <1>1, <4>2
        <5> QED
          BY <3>2, <4>2, <5>1
      <4> QED
        BY <1>1, <2>1, <4>1, <4>2
    <3> QED
      BY <3>3
  <2> QED
    BY <1>1, <1>2, <1>4, <2>5, <2>6 DEF OrderInv
<1>5. Return => pc' \notin Busy /\ pc' \notin {"resolve", "history", "insert"}
  BY DEF Return, Busy
<1>6. job' = [job EXCEPT !.row = Len(frames) + 1] => job'.id = job.id
  BY DEF TypeOK, JobType
<1> QED
  BY <1>3, <1>4, <1>5, <1>6 DEF Insert

LEMMA IngestInit == Init => IngestInv
<1> SUFFICES ASSUME Init PROVE IngestInv
  OBVIOUS
<1>1. TypeOK /\ WorkerInv
  BY TypeInit
<1>2. OrderInv
  BY DEF Init, OrderInv, Taken, Busy
<1> QED
  BY <1>1, <1>2 DEF IngestInv

LEMMA IngestStep == IngestInv /\ [Next]_vars => IngestInv'
<1> SUFFICES ASSUME TypeOK, WorkerInv, OrderInv, [Next]_vars
             PROVE  TypeOK' /\ WorkerInv' /\ OrderInv'
  BY DEF IngestInv
<1>0. \A k \in 1..Len(queue) : queue[k] \in 1..Len(accepted)
  <2>1. Len(queue) \in Nat /\ Len(accepted) \in Nat /\ Len(queue) <= Len(accepted)
    BY DEF TypeOK, OrderInv
  <2> QED
    BY <2>1 DEF OrderInv, Taken
<1>1. ASSUME NEW p \in Payload, Submit(p) PROVE TypeOK' /\ WorkerInv' /\ OrderInv'
  BY <1>1, TypeSubmit, OrderSubmit
<1>2. CASE Take
  BY <1>0, <1>2, TypeTake, OrderTake
<1>3. CASE Exit
  <2>1. TypeOK' /\ WorkerInv'
    BY <1>3 DEF Exit, TypeOK, WorkerInv, tables, PC, Busy
  <2> QED
    BY <1>3, <2>1, OrderUnchanged DEF Exit, tables, Busy
<1>4. CASE Resolve
  <2>1. Return => pc' \notin Busy
    BY DEF Return, Busy
  <2> QED
    BY <1>4, <2>1, TypeResolve, OrderUnchanged DEF Resolve, tables, Busy, PC, Calls
<1>5. CASE ReadHistory
  <2>1. Return => pc' \notin Busy
    BY DEF Return, Busy
  <2>2. \A h : job' = [job EXCEPT !.history = h] => job'.id = job.id
    BY DEF TypeOK, JobType
  <2> QED
    BY <1>5, <2>1, <2>2, TypeReadHistory, OrderUnchanged
       DEF ReadHistory, tables, Busy, PC, Calls
<1>6. CASE Insert
  BY <1>6, TypeInsert, OrderInsert
<1>7. ASSUME NEW todo, Continue(todo)
      PROVE  pc' \notin Busy \/ (pc' = "create" /\ job'.id = job.id)
  BY <1>7 DEF Continue, Return, Busy, TypeOK, JobType
<1>8. CASE Publish
  BY <1>7, <1>8, TypePublish, OrderUnchanged DEF Publish, tables, Busy, PC, Calls
<1>9. CASE CreateEvent
  <2>1. job' = [job EXCEPT !.ev = Len(events) + 1] => job'.id = job.id
    BY DEF TypeOK, JobType
  <2> QED
    BY <1>7, <1>9, <2>1, TypeCreateEvent, OrderUnchanged DEF CreateEvent, Busy, PC, Calls
<1>10. CASE CheckSuppression
  <2>1. job'.id = job.id
    BY <1>10 DEF CheckSuppression, TypeOK, JobType
  <2> QED
    BY <1>10, <2>1, TypeCheckSuppression, OrderUnchanged
       DEF CheckSuppression, tables, Busy, PC, Calls
<1>11. CASE Escalate
  BY <1>7, <1>11, TypeEscalate, OrderUnchanged DEF Escalate, Busy, PC, Calls
<1>12. CASE Cancel
  <2>1. TypeOK' /\ WorkerInv'
    BY <1>12 DEF Cancel, TypeOK, WorkerInv, tables
  <2> QED
    BY <1>12, <2>1, OrderUnchanged DEF Cancel, tables
<1>13. CASE StopReturns
  <2>1. TypeOK' /\ WorkerInv'
    BY <1>13 DEF StopReturns, TypeOK, WorkerInv, tables
  <2> QED
    BY <1>13, <2>1, OrderUnchanged DEF StopReturns, tables
<1>14. ASSUME NEW c \in Channel, AddChannel(c) \/ CloseChannel(c)
       PROVE  TypeOK' /\ WorkerInv' /\ OrderInv'
  <2>1. TypeOK' /\ WorkerInv'
    BY <1>14 DEF AddChannel, CloseChannel, TypeOK, WorkerInv, tables
  <2> QED
    BY <1>14, <2>1, OrderUnchanged DEF AddChannel, CloseChannel, tables
<1>15. ASSUME NEW w \in Window, PlanWindow(w) \/ CloseWindow(w)
       PROVE  TypeOK' /\ WorkerInv' /\ OrderInv'
  <2>1. Len(queue) <= Len(accepted)
    BY DEF OrderInv
  <2> QED
    BY <1>15, <2>1, TypeWindow, OrderUnchanged DEF PlanWindow, CloseWindow, tables
<1>16. CASE Tick
  <2>1. TypeOK' /\ WorkerInv'
    BY <1>16 DEF Tick, TypeOK, WorkerInv, tables
  <2> QED
    BY <1>16, <2>1, OrderUnchanged DEF Tick, tables
<1>17. CASE Restart
  <2>1. /\ queue' = <<>> /\ UNCHANGED <<accepted, frames>> /\ pc' = "idle"
        /\ Len(accepted) \in Nat /\ Len(queue) \in Nat
    BY <1>17 DEF Restart, tables, TypeOK
  <2>2. Taken' = Len(accepted) /\ Taken <= Taken' /\ Taken \in Int
    BY <2>1 DEF Taken
  <2>3. OrderInv'
    BY <2>1, <2>2 DEF OrderInv, Busy
  <2> QED
    BY <1>17, <2>3, TypeRestart
<1>18. CASE UNCHANGED vars
  <2>1. TypeOK' /\ WorkerInv'
    BY <1>18 DEF vars, TypeOK, WorkerInv, tables
  <2> QED
    BY <1>18, <2>1, OrderUnchanged DEF vars, tables
<1> QED
  BY <1>1, <1>2, <1>3, <1>4, <1>5, <1>6, <1>8, <1>9, <1>10, <1>11, <1>12, <1>13,
     <1>14, <1>15, <1>16, <1>17, <1>18 DEF Next

\* The inductive invariant holds of every behaviour.
THEOREM IngestInvariance == Spec => []IngestInv
BY IngestInit, IngestStep, PTL DEF Spec

\* Every variable of the pipeline keeps its type: in particular the queue
\* never holds more than QueueSize frames, whatever the timing of Submit,
\* the worker, Stop and crashes.
THEOREM TypeCorrect == Spec => []TypeOK
<1>1. IngestInv => TypeOK
  BY DEF IngestInv
<1> QED
  BY <1>1, IngestInvariance, PTL

StoredIds == [k \in 1..Len(frames) |-> frames[k].id]

\* An insert is the abstract step that stores the frame in the worker's hands.
LEMMA InsertRefines ==
  ASSUME IngestInv, Insert, NEW acked \in BOOLEAN, frames' = Append(frames, NewRow(acked))
  PROVE  Log!Store(job.id) /\ job.id \in 1..Len(accepted)
<1>1. /\ frames \in Seq(FrameRow) /\ Len(frames) \in Nat /\ pc = "insert"
      /\ accepted' = accepted
  BY DEF IngestInv, TypeOK, Insert
<1>2. job.id \in 1..Len(accepted)
  BY <1>1 DEF IngestInv, WorkerInv, Busy, PC, Calls
<1>3. Len(frames') = Len(frames) + 1 /\ frames'[Len(frames) + 1].id = job.id
  BY <1>1 DEF NewRow
<1>4. \A r \in 1..Len(frames) : frames'[r] = frames[r]
  BY <1>1
<1>5. /\ StoredIds \in Seq(Nat) /\ Len(StoredIds) = Len(frames)
      /\ \A k \in 1..Len(frames) : StoredIds[k] = frames[k].id
  <2>1. \A row \in FrameRow : row.id \in Nat
    BY DEF FrameRow
  <2>2. \A k \in 1..Len(frames) : frames[k] \in FrameRow
    BY <1>1
  <2> QED
    BY <1>1, <2>1, <2>2 DEF StoredIds
<1>6. StoredIds' = Append(StoredIds, job.id)
  <2>1. StoredIds' = [k \in 1..(Len(frames) + 1) |-> frames'[k].id]
    BY <1>3 DEF StoredIds
  <2>2. Append(StoredIds, job.id)
          = [k \in 1..(Len(frames) + 1) |-> IF k = Len(frames) + 1 THEN job.id ELSE StoredIds[k]]
    BY <1>1, <1>5
  <2>3. \A k \in 1..(Len(frames) + 1) :
          frames'[k].id = IF k = Len(frames) + 1 THEN job.id ELSE StoredIds[k]
    BY <1>1, <1>3, <1>4, <1>5
  <2> QED
    BY <2>1, <2>2, <2>3
<1>7. \A k \in 1..Len(StoredIds) : StoredIds[k] < job.id
  BY <1>1, <1>5 DEF IngestInv, OrderInv
<1> QED
  BY <1>1, <1>2, <1>6, <1>7 DEF Log!Store, StoredIds

LEMMA StepRefines ==
  ASSUME IngestInv, [Next]_vars
  PROVE  [Log!Next]_Log!vars
<1>1. ASSUME NEW p \in Payload, Submit(p) PROVE Log!Next
  BY <1>1 DEF Submit, tables, Log!Next, Log!Accept
<1>2. CASE UNCHANGED <<accepted, frames>>
  BY <1>2 DEF Log!vars
<1>3. CASE Insert
  <2>1. ASSUME NEW acked \in BOOLEAN, frames' = Append(frames, NewRow(acked))
        PROVE  Log!Next
    <3>1. Log!Store(job.id) /\ job.id \in 1..Len(accepted)
      BY <1>3, <2>1, InsertRefines
    <3>2. \E i \in 1..Len(accepted) : Log!Store(i)
      BY <3>1 DEF Log!Store
    <3> QED
      BY <3>2 DEF Log!Next
  <2>2. CASE frames' = frames
    BY <1>2, <1>3, <2>2 DEF Insert
  <2> QED
    BY <1>3, <2>1, <2>2 DEF Insert
<1>4. CASE Take \/ Exit \/ Resolve \/ ReadHistory \/ Publish \/ CreateEvent
           \/ CheckSuppression \/ Escalate
  BY <1>2, <1>4 DEF Take, Exit, Resolve, ReadHistory, Publish, CreateEvent,
                    CheckSuppression, Escalate, tables
<1>5. CASE Cancel \/ StopReturns \/ Tick \/ Restart \/ UNCHANGED vars
  BY <1>2, <1>5 DEF Cancel, StopReturns, Tick, Restart, vars, tables
<1>6. ASSUME NEW c \in Channel, AddChannel(c) \/ CloseChannel(c)
      PROVE  UNCHANGED <<accepted, frames>>
  BY <1>6 DEF AddChannel, CloseChannel, tables
<1>7. ASSUME NEW w \in Window, PlanWindow(w) \/ CloseWindow(w)
      PROVE  UNCHANGED <<accepted, frames>>
  BY <1>7 DEF PlanWindow, CloseWindow, tables
<1> QED
  BY <1>1, <1>2, <1>3, <1>4, <1>5, <1>6, <1>7 DEF Next

\* The pipeline implements the frame log: for any number of channels and
\* frames, any queue size and any failures, an accepted frame becomes at most
\* one row and rows keep the order of acceptance.
THEOREM PipelineImplementsFrameLog == Spec => ImplementsFrameLog
<1>1. Init => Log!Init
  BY DEF Init, Log!Init
<1>2. IngestInv /\ [Next]_vars => [Log!Next]_Log!vars
  BY StepRefines
<1> QED
  BY <1>1, <1>2, IngestInvariance, PTL DEF Spec, ImplementsFrameLog, Log!Spec

-----------------------------------------------------------------------------
(* One alert per critical event. *)

CriticalRow(e) == Severity[e.rule] = "critical" /\ e.told

\* While an event waits for its alert it is the last of the table, and the
\* alerts sent so far stem from events before it.
AlertInv ==
  /\ \A k \in 1..Len(alerts) : alerts[k].ev \in 1..Len(events) /\ CriticalRow(events[alerts[k].ev])
  /\ \A k \in 1..Len(alerts) : \A j \in 1..(k - 1) : alerts[j].ev < alerts[k].ev
  /\ pc \in {"suppression", "escalate"} =>
       /\ job.ev \in 1..Len(events) /\ CriticalRow(events[job.ev])
       /\ \A k \in 1..Len(alerts) : alerts[k].ev < job.ev

LEMMA AlertUnchanged ==
  ASSUME AlertInv, UNCHANGED <<events, alerts>>,
         \/ UNCHANGED <<pc, job>>
         \/ pc' \notin {"suppression", "escalate"}
         \/ pc \in {"suppression", "escalate"} /\ job'.ev = job.ev
  PROVE  AlertInv'
BY DEF AlertInv

LEMMA AlertCreateEvent ==
  ASSUME TypeOK, AlertInv, CreateEvent
  PROVE  AlertInv'
<1>1. /\ events \in Seq(EventRow) /\ Len(events) \in Nat /\ job \in JobType
      /\ alerts' = alerts
  BY DEF TypeOK, EventRow, CreateEvent
<1>2. Continue(Tail(job.todo)) => pc' \notin {"suppression", "escalate"}
  BY DEF Continue, Return
<1>3. ASSUME NEW told \in BOOLEAN, events' = Append(events, NewEvent(told))
      PROVE  /\ Len(events') = Len(events) + 1
             /\ \A e \in 1..Len(events) : events'[e] = events[e]
             /\ events'[Len(events) + 1] = NewEvent(told)
  BY <1>1, <1>3
<1>4. ASSUME Len(events') >= Len(events), Len(events') \in Nat,
             \A e \in 1..Len(events) : events'[e] = events[e]
      PROVE  \A k \in 1..Len(alerts') :
               alerts'[k].ev \in 1..Len(events') /\ CriticalRow(events'[alerts'[k].ev])
  BY <1>1, <1>4 DEF AlertInv
<1>5. CASE events' = events /\ Continue(Tail(job.todo))
  BY <1>1, <1>2, <1>5, AlertUnchanged
<1>6. CASE /\ events' = Append(events, NewEvent(FALSE))
           /\ Continue(Tail(job.todo))
  <2>1. \A k \in 1..Len(alerts') :
          alerts'[k].ev \in 1..Len(events') /\ CriticalRow(events'[alerts'[k].ev])
    <3>1. /\ Len(events') = Len(events) + 1
          /\ \A e \in 1..Len(events) : events'[e] = events[e]
      BY <1>3, <1>6
    <3> QED
      BY <1>1, <1>4, <3>1
  <2> QED
    BY <1>1, <1>2, <1>6, <2>1 DEF AlertInv
<1>7. CASE /\ events' = Append(events, NewEvent(TRUE))
           /\ Continue(Tail(job.todo))
  <2>1. \A k \in 1..Len(alerts') :
          alerts'[k].ev \in 1..Len(events') /\ CriticalRow(events'[alerts'[k].ev])
    <3>1. /\ Len(events') = Len(events) + 1
          /\ \A e \in 1..Len(events) : events'[e] = events[e]
      BY <1>3, <1>7
    <3> QED
      BY <1>1, <1>4, <3>1
  <2> QED
    BY <1>1, <1>2, <1>7, <2>1 DEF AlertInv
<1>8. CASE /\ events' = Append(events, NewEvent(TRUE))
           /\ Severity[Finding] \in Escalated
           /\ job' = [job EXCEPT !.ev = Len(events) + 1]
  <2>1. job'.ev = Len(events) + 1
    BY <1>1, <1>8 DEF JobType
  <2>2. /\ Len(events') = Len(events) + 1
        /\ events'[Len(events) + 1] = NewEvent(TRUE)
        /\ \A e \in 1..Len(events) : events'[e] = events[e]
    BY <1>3, <1>8
  <2>3. CriticalRow(events'[Len(events) + 1])
    BY <1>8, <2>2 DEF CriticalRow, NewEvent, Escalated
  <2>4. \A k \in 1..Len(alerts') :
          alerts'[k].ev \in 1..Len(events') /\ CriticalRow(events'[alerts'[k].ev])
    BY <1>1, <1>4, <2>2
  <2>5. \A k \in 1..Len(alerts') : alerts'[k].ev < job'.ev
    BY <1>1, <2>1 DEF AlertInv
  <2>6. job'.ev \in 1..Len(events') /\ CriticalRow(events'[job'.ev])
    <3>1. Len(events) + 1 \in 1..Len(events')
      BY <1>1, <2>2
    <3> QED
      BY <2>1, <2>3, <3>1
  <2> QED
    BY <1>1, <2>4, <2>5, <2>6 DEF AlertInv
<1> QED
  BY <1>5, <1>6, <1>7, <1>8 DEF CreateEvent

LEMMA AlertEscalate ==
  ASSUME TypeOK, AlertInv, Escalate
  PROVE  AlertInv'
<1>1. /\ alerts \in Seq(AlertRow) /\ Len(alerts) \in Nat
      /\ pc = "escalate" /\ events' = events
  BY DEF TypeOK, AlertRow, Escalate
<1>2. pc' \notin {"suppression", "escalate"}
  BY DEF Escalate, Continue, Return
<1>3. CASE alerts' = alerts
  BY <1>1, <1>2, <1>3, AlertUnchanged
<1>4. CASE alerts' = Append(alerts, NewAlert)
  <2>1. /\ Len(alerts') = Len(alerts) + 1
        /\ \A k \in 1..Len(alerts) : alerts'[k] = alerts[k]
        /\ alerts'[Len(alerts) + 1].ev = job.ev
    BY <1>1, <1>4 DEF NewAlert
  <2>2. /\ job.ev \in 1..Len(events) /\ CriticalRow(events[job.ev])
        /\ \A k \in 1..Len(alerts) : alerts[k].ev < job.ev
    BY <1>1 DEF AlertInv
  <2>3. \A k \in 1..Len(alerts') :
          alerts'[k].ev \in 1..Len(events') /\ CriticalRow(events'[alerts'[k].ev])
    BY <1>1, <2>1, <2>2 DEF AlertInv
  <2>4. \A k \in 1..Len(alerts') : \A j \in 1..(k - 1) : alerts'[j].ev < alerts'[k].ev
    <3>1. \A k \in 1..Len(alerts) : \A j \in 1..(k - 1) : alerts'[j].ev < alerts'[k].ev
      <4>1. \A k \in 1..Len(alerts) : \A j \in 1..(k - 1) : alerts[j].ev < alerts[k].ev
        BY <1>1 DEF AlertInv
      <4>2. \A k \in 1..Len(alerts) : 1..(k - 1) \subseteq 1..Len(alerts)
        BY <1>1
      <4> QED
        BY <2>1, <4>1, <4>2
    <3>2. \A j \in 1..Len(alerts) : alerts'[j].ev < alerts'[Len(alerts) + 1].ev
      BY <2>1, <2>2
    <3>3. ASSUME NEW k \in 1..Len(alerts')
          PROVE  \A j \in 1..(k - 1) : alerts'[j].ev < alerts'[k].ev
      <4>1. CASE k \in 1..Len(alerts)
        BY <3>1, <4>1
      <4>2. CASE k = Len(alerts) + 1
        <5>1. 1..(k - 1) = 1..Len(alerts)
          BY <1>1, <4>2
        <5> QED
          BY <3>2, <4>2, <5>1
      <4> QED
        BY <1>1, <2>1, <4>1, <4>2
    <3> QED
      BY <3>3
  <2> QED
    BY <1>2, <2>3, <2>4 DEF AlertInv
<1> QED
  BY <1>3, <1>4 DEF Escalate

LEMMA AlertStep == TypeOK /\ AlertInv /\ [Next]_vars => AlertInv'
<1> SUFFICES ASSUME TypeOK, AlertInv, [Next]_vars PROVE AlertInv'
  OBVIOUS
<1>1. ASSUME NEW p \in Payload, Submit(p) PROVE AlertInv'
  BY <1>1, AlertUnchanged DEF Submit, tables
<1>2. CASE Take \/ Exit
  BY <1>2, AlertUnchanged DEF Take, Exit, tables
<1>3. CASE Resolve \/ ReadHistory \/ Insert
  BY <1>3, AlertUnchanged DEF Resolve, ReadHistory, Insert, Return, tables
<1>4. CASE Publish
  BY <1>4, AlertUnchanged DEF Publish, Continue, Return, tables
<1>5. CASE CreateEvent
  BY <1>5, AlertCreateEvent
<1>6. CASE CheckSuppression
  <2>1. job'.ev = job.ev
    BY <1>6 DEF CheckSuppression, TypeOK, JobType
  <2> QED
    BY <1>6, <2>1, AlertUnchanged DEF CheckSuppression, tables
<1>7. CASE Escalate
  BY <1>7, AlertEscalate
<1>8. CASE Cancel \/ StopReturns \/ Tick \/ UNCHANGED vars
  BY <1>8, AlertUnchanged DEF Cancel, StopReturns, Tick, vars, tables
<1>9. CASE Restart
  BY <1>9, AlertUnchanged DEF Restart, tables
<1>10. ASSUME NEW c \in Channel, AddChannel(c) \/ CloseChannel(c) PROVE AlertInv'
  BY <1>10, AlertUnchanged DEF AddChannel, CloseChannel, tables
<1>11. ASSUME NEW w \in Window, PlanWindow(w) \/ CloseWindow(w) PROVE AlertInv'
  BY <1>11, AlertUnchanged DEF PlanWindow, CloseWindow, tables
<1> QED
  BY <1>1, <1>2, <1>3, <1>4, <1>5, <1>6, <1>7, <1>8, <1>9, <1>10, <1>11 DEF Next

\* Each alert stems from a recorded critical event of its own, in the order
\* of the events, however many events a frame yields and whatever fails,
\* is cancelled or crashes between recording an event and escalating it.
THEOREM AlertsOnePerEvent == Spec => []AlertsFollowEvents
<1>1. Init => AlertInv
  BY DEF Init, AlertInv
<1>2. AlertInv => AlertsFollowEvents
  BY DEF AlertInv, AlertsFollowEvents, CriticalRow
<1> QED
  BY <1>1, <1>2, AlertStep, TypeCorrect, PTL DEF Spec

-----------------------------------------------------------------------------
(***************************************************************************)
(* What the tables say of one another and of the failures on the way, on   *)
(* top of the invariant IngestInv.                                         *)
(***************************************************************************)
\* Steps around the worker: they leave it and the tables alone.
Aside ==
  \/ \E p \in Payload : Submit(p)
  \/ Cancel \/ StopReturns
  \/ \E c \in Channel : AddChannel(c) \/ CloseChannel(c)
  \/ \E w \in Window : PlanWindow(w) \/ CloseWindow(w)
  \/ Tick \/ UNCHANGED vars

LEMMA NextParts ==
  [Next]_vars => \/ Aside \/ Take \/ Exit \/ Resolve \/ ReadHistory \/ Insert \/ Publish
                 \/ CreateEvent \/ CheckSuppression \/ Escalate \/ Restart
BY DEF Next, Aside

LEMMA AsideKeeps == Aside => UNCHANGED <<pc, job, latest, boot, frames, events, alerts, refused>>
BY DEF Aside, Submit, Cancel, StopReturns, AddChannel, CloseChannel, PlanWindow, CloseWindow,
       Tick, vars, tables

LEMMA Appended ==
  ASSUME NEW S, NEW s \in Seq(S), NEW x
  PROVE  LET t == Append(s, x)
         IN  /\ Len(s) \in Nat /\ Len(t) = Len(s) + 1 /\ t[Len(s) + 1] = x
             /\ \A i \in 1..Len(s) : t[i] = s[i]
OBVIOUS

Extends(s, t) == Len(s) \in Nat /\ Len(t) \in Nat /\ Len(s) <= Len(t) /\ \A i \in 1..Len(s) : t[i] = s[i]

\* Nothing is taken back: rows and accepted frames stay what they are.
LEMMA OnlyAppended ==
  ASSUME TypeOK, [Next]_vars
  PROVE  Extends(accepted, accepted') /\ Extends(frames, frames')
         /\ Extends(events, events') /\ Extends(alerts, alerts')
<1>1. /\ accepted \in Seq(Payload) /\ frames \in Seq(FrameRow)
      /\ events \in Seq(EventRow) /\ alerts \in Seq(AlertRow)
  BY DEF TypeOK, EventRow, AlertRow
<1>2. Extends(accepted, accepted')
  <2>1. accepted' = accepted \/ \E p \in Payload : accepted' = Append(accepted, p)
    BY DEF Next, vars, tables, Submit, Take, Exit, Resolve, ReadHistory, Insert, Publish,
       CreateEvent, CheckSuppression, Escalate, Cancel, StopReturns, AddChannel, CloseChannel,
       PlanWindow, CloseWindow, Tick, Restart
  <2> QED
    BY <1>1, <2>1, Appended DEF Extends
<1>3. Extends(frames, frames')
  <2>1. \/ frames' = frames
        \/ frames' = Append(frames, NewRow(TRUE)) \/ frames' = Append(frames, NewRow(FALSE))
    BY DEF Next, vars, tables, Submit, Take, Exit, Resolve, ReadHistory, Insert, Publish,
       CreateEvent, CheckSuppression, Escalate, Cancel, StopReturns, AddChannel, CloseChannel,
       PlanWindow, CloseWindow, Tick, Restart
  <2>2. ASSUME NEW row, frames' = Append(frames, row) PROVE Extends(frames, frames')
    BY <1>1, <2>2, Appended DEF Extends
  <2>3. frames' = frames => Extends(frames, frames')
    BY <1>1 DEF Extends
  <2> QED
    BY <2>1, <2>2, <2>3
<1>4. Extends(events, events')
  <2>1. events' = events \/ \E row : events' = Append(events, row)
    BY DEF Next, vars, tables, Submit, Take, Exit, Resolve, ReadHistory, Insert, Publish,
       CreateEvent, CheckSuppression, Escalate, Cancel, StopReturns, AddChannel, CloseChannel,
       PlanWindow, CloseWindow, Tick, Restart
  <2> QED
    BY <1>1, <2>1, Appended DEF Extends
<1>5. Extends(alerts, alerts')
  <2>1. alerts' = alerts \/ \E row : alerts' = Append(alerts, row)
    BY DEF Next, vars, tables, Submit, Take, Exit, Resolve, ReadHistory, Insert, Publish,
       CreateEvent, CheckSuppression, Escalate, Cancel, StopReturns, AddChannel, CloseChannel,
       PlanWindow, CloseWindow, Tick, Restart
  <2> QED
    BY <1>1, <2>1, Appended DEF Extends
<1> QED
  BY <1>2, <1>3, <1>4, <1>5

\* The frame in hand is the same from Take to the return.
LEMMA FrameKept ==
  ASSUME IngestInv, [Next]_vars, pc \in Busy, job'.id = job.id
  PROVE  Frame' = Frame /\ Frame \in Payload /\ Frame.chan \in Channel
<1>1. Extends(accepted, accepted') /\ job.id \in 1..Len(accepted) /\ accepted \in Seq(Payload)
  BY OnlyAppended DEF IngestInv, TypeOK, WorkerInv
<1>2. /\ accepted[job.id] \in Payload /\ accepted'[job.id] = accepted[job.id]
      /\ accepted[job.id].chan \in Channel
  <2>1. accepted[job.id] \in Payload /\ accepted'[job.id] = accepted[job.id]
    BY <1>1 DEF Extends
  <2> QED
    BY <2>1, IngestAssumption
<1> QED
  BY <1>2 DEF Frame
-----------------------------------------------------------------------------
(* Nothing is written once Stop has returned. *)

StopInv == stop = "returned" => pc = "exited"

LEMMA StopStep == StopInv /\ [Next]_vars => StopInv'
BY DEF StopInv, Next, vars, tables, Submit, Take, Exit, Resolve, ReadHistory, Insert, Publish,
   CreateEvent, CheckSuppression, Escalate, Cancel, StopReturns, AddChannel, CloseChannel,
   PlanWindow, CloseWindow, Tick, Restart

\* Once Stop has returned, the worker never writes again (main closes the
\* database right after).
THEOREM StopIsQuiet == Spec => QuietAfterStop
<1> DEFINE Step == stop = "returned" => UNCHANGED tables
<1>1. Init => StopInv
  BY DEF Init, StopInv
<1>2. StopInv /\ [Next]_vars => Step
  BY DEF StopInv, Next, vars, tables, Submit, Take, Exit, Resolve, ReadHistory, Insert, Publish,
     CreateEvent, CheckSuppression, Escalate, Cancel, StopReturns, AddChannel, CloseChannel,
     PlanWindow, CloseWindow, Tick, Restart
<1>3. Spec => [][Step]_vars
  <2> HIDE DEF Step
  <2> QED
    BY <1>1, <1>2, StopStep, PTL DEF Spec
<1> QED
  BY <1>3 DEF QuietAfterStop
-----------------------------------------------------------------------------
(* The stored gap. *)

\* GapFromNewestRow of one row.
GapRight(r) ==
  LET earlier == {q \in RowsOf(frames[r].chan) : q < r}
  IN  IF earlier = {} THEN frames[r].gap = 0
      ELSE \E q \in NewestOf(earlier) :
             frames[r].gap = GapMilliseconds(frames[q].end, frames[r].start)

\* Between the read of the history and the insert, no row is added.
HistoryInv ==
  /\ pc = "insert" => job.history \in RecentByChannel(Frame.chan)
  /\ GapFromNewestRow

LEMMA WorkerLeavesInsert ==
  ASSUME [Next]_vars, pc' = "insert"
  PROVE  \/ ReadHistory /\ \E h \in RecentByChannel(Frame.chan) :
                              job' = [job EXCEPT !.history = h]
         \/ Aside /\ pc = "insert"
BY NextParts, AsideKeeps
   DEF Take, Exit, Resolve, ReadHistory, Insert, Publish, CreateEvent, CheckSuppression,
       Escalate, Restart, Return, Continue

LEMMA GapKept ==
  ASSUME Extends(frames, frames'), NEW r \in 1..Len(frames), GapRight(r)
  PROVE  GapRight(r)'
<1> DEFINE earlier == {q \in RowsOf(frames[r].chan) : q < r}
<1>1. /\ r \in 1..Len(frames') /\ r \in Nat
      /\ \A q \in 1..Len(frames) : frames'[q] = frames[q] /\ q \in 1..Len(frames')
      /\ Len(frames) \in Nat /\ Len(frames') \in Nat /\ Len(frames) <= Len(frames')
  BY DEF Extends
<1>2. earlier' = earlier /\ earlier \subseteq 1..Len(frames)
  BY <1>1 DEF RowsOf
<1>3. NewestOf(earlier)' = NewestOf(earlier)
  BY <1>1, <1>2 DEF NewestOf
<1>4. \A q \in NewestOf(earlier) : q \in 1..Len(frames)
  BY <1>2 DEF NewestOf
<1> QED
  BY <1>1, <1>2, <1>3, <1>4 DEF GapRight

\* The row that is inserted has its gap from the newest row of its channel.
LEMMA GapOfNewRow ==
  ASSUME IngestInv, HistoryInv, pc = "insert", NEW acked \in BOOLEAN,
         frames' = Append(frames, NewRow(acked)), NEW n, n = Len(frames) + 1
  PROVE  GapRight(n)'
<1> DEFINE c == Frame.chan
<1>1. /\ n \in Nat /\ Len(frames') = n /\ frames'[n] = NewRow(acked)
      /\ \A q \in 1..Len(frames) : frames'[q] = frames[q]
  BY Appended DEF IngestInv, TypeOK
<1>2. frames'[n].chan = c /\ frames'[n].gap = GapBefore /\ frames'[n].start = Frame.start
  BY <1>1 DEF NewRow
<1>3. {q \in 1..Len(frames') : frames'[q].chan = c /\ q < n} = RowsOf(c)
  BY <1>1 DEF RowsOf
<1>4. CASE RowsOf(c) = {}
  <2>1. GapBefore = 0
    BY <1>4 DEF HistoryInv, RecentByChannel, GapBefore
  <2> QED
    BY <1>1, <1>2, <1>3, <1>4, <2>1 DEF GapRight, RowsOf
<1>5. CASE RowsOf(c) # {}
  <2>1. PICK q \in NewestOf(RowsOf(c)) : job.history = <<q>>
    BY <1>5 DEF HistoryInv, RecentByChannel
  <2>2. q \in 1..Len(frames) /\ GapBefore = GapMilliseconds(frames[q].end, Frame.start)
    BY <2>1 DEF NewestOf, RowsOf, GapBefore
  <2>3. q \in RowsOf(c) /\ \A p \in RowsOf(c) : frames'[p].start <= frames'[q].start
    BY <1>1, <2>1 DEF NewestOf, RowsOf
  <2> QED
    BY <1>1, <1>2, <1>3, <1>5, <2>2, <2>3 DEF GapRight, RowsOf, NewestOf
<1> QED
  BY <1>4, <1>5

LEMMA HistoryStep == IngestInv /\ HistoryInv /\ [Next]_vars => HistoryInv'
<1> SUFFICES ASSUME IngestInv, HistoryInv, [Next]_vars PROVE HistoryInv'
  OBVIOUS
<1>1. Extends(frames, frames')
  BY OnlyAppended DEF IngestInv
<1>2. ASSUME pc' = "insert" PROVE (job.history \in RecentByChannel(Frame.chan))'
  <2>1. frames' = frames /\ pc \in Busy /\ job \in JobType
    BY <1>2, WorkerLeavesInsert, AsideKeeps DEF ReadHistory, tables, Busy, PC, Calls, IngestInv, TypeOK
  <2>2. job'.id = job.id /\ job'.history \in RecentByChannel(Frame.chan)
    BY <1>2, <2>1, WorkerLeavesInsert, AsideKeeps DEF HistoryInv, JobType
  <2>3. Frame' = Frame
    BY <2>1, <2>2, FrameKept
  <2> QED
    BY <2>1, <2>2, <2>3 DEF RecentByChannel, NewestOf, RowsOf
<1>3. \A r \in 1..Len(frames) : GapRight(r)'
  BY <1>1, GapKept DEF HistoryInv, GapFromNewestRow, GapRight
<1>4. \A r \in 1..Len(frames') : GapRight(r)'
  <2>1. CASE frames' = frames
    BY <1>3, <2>1
  <2>2. ASSUME NEW acked \in BOOLEAN, pc = "insert", frames' = Append(frames, NewRow(acked))
        PROVE  \A r \in 1..Len(frames') : GapRight(r)'
    <3>1. Len(frames') = Len(frames) + 1 /\ Len(frames) \in Nat
      BY <2>2, Appended DEF IngestInv, TypeOK
    <3>2. ASSUME NEW n, n = Len(frames) + 1 PROVE GapRight(n)'
      BY <2>2, <3>2, GapOfNewRow
    <3>3. \A r \in 1..Len(frames') : r \in 1..Len(frames) \/ r = Len(frames) + 1
      BY <3>1
    <3> QED
      BY <1>3, <3>2, <3>3
  <2>3. \/ frames' = frames
        \/ pc = "insert" /\ \E acked \in BOOLEAN : frames' = Append(frames, NewRow(acked))
    BY NextParts, AsideKeeps DEF Take, Exit, Resolve, ReadHistory, Insert, Publish,
       CreateEvent, CheckSuppression, Escalate, Restart, tables
  <2> QED
    BY <2>1, <2>2, <2>3
<1> QED
  BY <1>2, <1>4 DEF HistoryInv, GapFromNewestRow, GapRight

\* The gap stored with a frame is measured from the newest earlier row of its
\* channel: processFrame's read and insert are not interrupted by another.
THEOREM GapsFromNewestRow == Spec => []GapFromNewestRow
<1>1. Init => HistoryInv
  BY DEF Init, HistoryInv, GapFromNewestRow
<1>2. HistoryInv => GapFromNewestRow
  BY DEF HistoryInv
<1> QED
  BY <1>1, <1>2, HistoryStep, IngestInvariance, PTL DEF Spec
-----------------------------------------------------------------------------
(* The row in the worker's hands and the snapshots. *)

After == {"publish", "create", "suppression", "escalate"}

\* After the insert the worker has the row of its frame, the last of the table
\* until it is published.
RowInv ==
  /\ boot <= Len(frames)
  /\ pc \in After => /\ job.row \in 1..Len(frames)
                     /\ frames[job.row].chan = Frame.chan /\ frames[job.row].id = job.id
  /\ pc = "publish" => job.row = Len(frames) /\ boot < job.row /\ frames[job.row].acked

LEMMA ContinueKeeps ==
  ASSUME TypeOK, NEW todo, Continue(todo)
  PROVE  \/ pc' = "idle" /\ job' = NoJob
         \/ /\ pc' = "create" /\ todo # <<>> /\ job'.todo = todo
            /\ job'.row = job.row /\ job'.id = job.id /\ job'.now = job.now
            /\ job'.ev = 0 /\ job'.blind = FALSE
BY DEF Continue, Return, TypeOK, JobType

\* How the worker comes to the points after the insert.
LEMMA ToAfter ==
  ASSUME TypeOK, [Next]_vars, pc' \in After
  PROVE  \/ /\ Insert /\ pc' = "publish" /\ CallSucceeds /\ frames' = Append(frames, NewRow(TRUE))
            /\ job'.row = Len(frames) + 1 /\ job'.id = job.id
         \/ /\ pc \in After /\ UNCHANGED <<frames, boot>>
            /\ job'.row = job.row /\ job'.id = job.id /\ job'.now = job.now
            /\ pc' = "publish" => pc = "publish"
<1>0. job \in JobType
  BY DEF TypeOK
<1>1. CASE Insert
  BY <1>0, <1>1 DEF Insert, Return, JobType, After
<1>2. CASE Publish
  BY <1>2, ContinueKeeps DEF Publish, tables, After
<1>3. CASE CreateEvent
  <2>1. CASE Continue(Tail(job.todo))
    BY <1>3, <2>1, ContinueKeeps DEF CreateEvent, After
  <2>2. CASE pc' = "suppression" /\ job' = [job EXCEPT !.ev = Len(events) + 1]
    <3>1. job'.row = job.row /\ job'.id = job.id /\ job'.now = job.now
      BY <1>0, <2>2 DEF JobType
    <3> QED
      BY <1>3, <2>2, <3>1 DEF CreateEvent, After
  <2> QED
    BY <1>3, <2>1, <2>2 DEF CreateEvent
<1>4. CASE CheckSuppression
  <2>1. job'.row = job.row /\ job'.id = job.id /\ job'.now = job.now
    BY <1>0, <1>4 DEF CheckSuppression, JobType
  <2> QED
    BY <1>4, <2>1 DEF CheckSuppression, tables, After
<1>5. CASE Escalate
  BY <1>5, ContinueKeeps DEF Escalate, After
<1>6. CASE Aside
  BY <1>6, AsideKeeps
<1> QED
  BY <1>1, <1>2, <1>3, <1>4, <1>5, <1>6, NextParts
     DEF Take, Exit, Resolve, ReadHistory, Restart, Return, After

LEMMA RowStep == IngestInv /\ RowInv /\ [Next]_vars => RowInv'
<1> SUFFICES ASSUME IngestInv, RowInv, [Next]_vars PROVE RowInv'
  OBVIOUS
<1>1. Extends(frames, frames') /\ TypeOK
  BY OnlyAppended DEF IngestInv
<1>2. boot' <= Len(frames')
  <2>1. boot' = boot \/ boot' = Len(frames)
    BY DEF Next, vars, Submit, Take, Exit, Resolve, ReadHistory, Insert, Publish,
       CreateEvent, CheckSuppression, Escalate, Cancel, StopReturns, AddChannel, CloseChannel,
       PlanWindow, CloseWindow, Tick, Restart
  <2> QED
    BY <1>1, <2>1 DEF RowInv, Extends, TypeOK
<1>3. ASSUME pc' \in After, Insert, pc' = "publish", frames' = Append(frames, NewRow(TRUE)),
             job'.row = Len(frames) + 1, job'.id = job.id
      PROVE  /\ job'.row \in 1..Len(frames') /\ frames'[job'.row].chan = Frame'.chan
             /\ frames'[job'.row].id = job'.id /\ job'.row = Len(frames')
             /\ boot' < job'.row /\ frames'[job'.row].acked
  <2>1. Len(frames') = Len(frames) + 1 /\ frames'[Len(frames) + 1] = NewRow(TRUE)
    BY <1>1, <1>3, Appended DEF TypeOK
  <2>2. Frame' = Frame /\ boot' = boot
    BY <1>3, FrameKept DEF Insert, Busy, PC, Calls
  <2>3. NewRow(TRUE).chan = Frame.chan /\ NewRow(TRUE).id = job.id /\ NewRow(TRUE).acked
    BY DEF NewRow
  <2>4. Len(frames) \in Nat /\ boot \in Nat /\ boot <= Len(frames)
    BY DEF RowInv, IngestInv, TypeOK
  <2>5. /\ frames'[job'.row].chan = Frame'.chan /\ frames'[job'.row].id = job'.id
        /\ frames'[job'.row].acked
    BY <1>3, <2>1, <2>2, <2>3
  <2>6. job'.row = Len(frames') /\ job'.row \in 1..Len(frames') /\ boot' < job'.row
    <3>1. job'.row = Len(frames) + 1 /\ Len(frames') = Len(frames) + 1 /\ boot' = boot
      BY <1>3, <2>1, <2>2
    <3> QED
      BY <2>4, <3>1
  <2> QED
    BY <2>5, <2>6
<1>4. ASSUME pc' \in After, pc \in After, UNCHANGED <<frames, boot>>,
             job'.row = job.row, job'.id = job.id
      PROVE  /\ job'.row \in 1..Len(frames') /\ frames'[job'.row].chan = Frame'.chan
             /\ frames'[job'.row].id = job'.id
  <2>1. Frame' = Frame
    BY <1>4, FrameKept DEF After, Busy, PC, Calls
  <2> QED
    BY <1>4, <2>1 DEF RowInv
<1>5. CASE pc' \notin After
  BY <1>2, <1>5 DEF RowInv, After
<1>6. CASE pc' \in After
  BY <1>1, <1>2, <1>3, <1>4, <1>6, ToAfter DEF RowInv
<1> QED
  BY <1>5, <1>6

\* A row is in hand, or no other step turns it into a known one.
LEMMA KnownKept ==
  ASSUME UNCHANGED <<frames, boot>>,
         \/ pc # "publish" /\ pc' # "publish"
         \/ UNCHANGED <<pc, job>>,
         NEW c
  PROVE  KnownRows(c)' = KnownRows(c)
BY DEF KnownRows, RowsOf

LEMMA SnapshotInsert ==
  ASSUME IngestInv, RowInv, Insert, NEW c \in Channel
  PROVE  KnownRows(c)' = KnownRows(c)
<1>1. pc = "insert" /\ boot' = boot /\ frames \in Seq(FrameRow) /\ Len(frames) \in Nat
  BY DEF Insert, IngestInv, TypeOK
<1>2. CASE frames' = frames /\ Return
  BY <1>1, <1>2, KnownKept DEF Return
<1>3. CASE frames' = Append(frames, NewRow(FALSE)) /\ Return
  <2>1. /\ Len(frames') = Len(frames) + 1 /\ ~frames'[Len(frames) + 1].acked
        /\ \A r \in 1..Len(frames) : frames'[r] = frames[r]
    BY <1>1, <1>3, Appended DEF NewRow
  <2>2. ASSUME NEW r PROVE r \in KnownRows(c)' <=> r \in KnownRows(c)
    <3>1. CASE r \in 1..Len(frames)
      BY <1>1, <1>3, <2>1, <3>1 DEF KnownRows, RowsOf, Return
    <3>2. CASE r \notin 1..Len(frames)
      BY <1>1, <2>1, <3>2 DEF KnownRows, RowsOf
    <3> QED
      BY <3>1, <3>2
  <2> QED
    BY <2>2
<1>4. CASE /\ frames' = Append(frames, NewRow(TRUE)) /\ pc' = "publish"
           /\ job' = [job EXCEPT !.row = Len(frames) + 1]
  <2>1. /\ Len(frames') = Len(frames) + 1 /\ job'.row = Len(frames) + 1
        /\ \A r \in 1..Len(frames) : frames'[r] = frames[r]
    BY <1>1, <1>4, Appended DEF IngestInv, TypeOK, JobType
  <2>2. ASSUME NEW r PROVE r \in KnownRows(c)' <=> r \in KnownRows(c)
    <3>1. CASE r \in 1..Len(frames)
      BY <1>1, <1>4, <2>1, <3>1 DEF KnownRows, RowsOf
    <3>2. CASE r \notin 1..Len(frames)
      <4>1. r \in 1..Len(frames') => r = job'.row
        BY <1>1, <2>1, <3>2
      <4> QED
        BY <1>4, <3>2, <4>1 DEF KnownRows, RowsOf
    <3> QED
      BY <3>1, <3>2
  <2> QED
    BY <2>2
<1> QED
  BY <1>2, <1>3, <1>4 DEF Insert

\* Publishing makes the row known and the snapshot of its channel.
LEMMA SnapshotPublish ==
  ASSUME IngestInv, RowInv, SnapshotIsLastInsert, Publish
  PROVE  SnapshotIsLastInsert'
<1>0. PICK f, n : f = Frame.chan /\ n = job.row
  OBVIOUS
<1>1. /\ pc = "publish" /\ pc' # "publish" /\ UNCHANGED <<frames, boot>>
      /\ latest' = [latest EXCEPT ![f] = n] /\ latest \in [Channel -> Nat]
  BY <1>0 DEF Publish, Continue, Return, tables, IngestInv, TypeOK
<1>2. /\ n \in 1..Len(frames) /\ n = Len(frames) /\ boot < n /\ frames[n].acked
      /\ frames[n].chan = f /\ Len(frames) \in Nat /\ n \in Nat
  BY <1>0, <1>1 DEF RowInv, After, IngestInv, TypeOK
<1>3. ASSUME NEW c \in Channel
      PROVE  IF KnownRows(c)' = {} THEN latest'[c] = 0
             ELSE latest'[c] \in KnownRows(c)' /\ \A r \in KnownRows(c)' : r <= latest'[c]
  <2>0. \A r \in KnownRows(c) : r <= n
    BY <1>2 DEF KnownRows, RowsOf
  <2>1. CASE c = f
    <3>1. latest'[c] = n
      BY <1>1, <2>1
    <3>2. KnownRows(c)' = KnownRows(c) \cup {n}
      BY <1>0, <1>1, <1>2, <2>1 DEF KnownRows, RowsOf
    <3> QED
      BY <1>2, <2>0, <3>1, <3>2
  <2>2. CASE c # f
    <3>1. KnownRows(c)' = KnownRows(c)
      BY <1>0, <1>1, <1>2, <2>2 DEF KnownRows, RowsOf
    <3> QED
      BY <1>1, <2>2, <3>1 DEF SnapshotIsLastInsert
  <2> QED
    BY <2>1, <2>2
<1> QED
  BY <1>3 DEF SnapshotIsLastInsert

LEMMA SnapshotStep == IngestInv /\ RowInv /\ SnapshotIsLastInsert /\ [Next]_vars => SnapshotIsLastInsert'
<1> SUFFICES ASSUME IngestInv, RowInv, SnapshotIsLastInsert, [Next]_vars
             PROVE  SnapshotIsLastInsert'
  OBVIOUS
<1>1. ASSUME latest' = latest, \A c \in Channel : KnownRows(c)' = KnownRows(c)
      PROVE  SnapshotIsLastInsert'
  BY <1>1 DEF SnapshotIsLastInsert
<1>2. CASE Insert
  BY <1>1, <1>2, SnapshotInsert DEF Insert
<1>3. CASE Publish
  BY <1>3, SnapshotPublish
<1>4. CASE Restart
  <2>1. frames' = frames /\ boot' = Len(frames) /\ latest' = [c \in Channel |-> 0]
    BY <1>4 DEF Restart, tables
  <2>2. \A c \in Channel : KnownRows(c)' = {}
    BY <2>1 DEF KnownRows, RowsOf, IngestInv, TypeOK
  <2> QED
    BY <2>1, <2>2 DEF SnapshotIsLastInsert
<1>5. CASE Aside
  BY <1>1, <1>5, AsideKeeps, KnownKept
<1>6. CASE Take \/ Exit \/ Resolve \/ ReadHistory
  BY <1>1, <1>6, KnownKept DEF Take, Exit, Resolve, ReadHistory, Return, tables
<1>7. CASE CreateEvent \/ CheckSuppression \/ Escalate
  BY <1>1, <1>7, KnownKept DEF CreateEvent, CheckSuppression, Escalate, Continue, Return, tables
<1> QED
  BY <1>2, <1>3, <1>4, <1>5, <1>6, <1>7, NextParts

\* The worker's row is the one of its frame.
THEOREM RowsInHand == Spec => []RowInv
<1>1. Init => RowInv
  BY DEF Init, RowInv, After
<1> QED
  BY <1>1, RowStep, IngestInvariance, PTL DEF Spec

\* The snapshot of a channel is the last row this process inserted for it and
\* knows of, whatever failed or raced.
THEOREM SnapshotsFollowInserts == Spec => []SnapshotIsLastInsert
<1>1. Init => SnapshotIsLastInsert
  BY DEF Init, SnapshotIsLastInsert, KnownRows, RowsOf
<1> QED
  BY <1>1, SnapshotStep, RowsInHand, IngestInvariance, PTL DEF Spec
-----------------------------------------------------------------------------
(* Late frames. *)

\* A channel with a late row is closed for good, and while the worker is
\* between the status check and the insert its channel has none yet.
LateInv ==
  /\ \A c \in Channel : \A r, q \in Late(c) : r = q
  /\ \A c \in Channel : Late(c) # {} => chanStatus[c] = "closed"
  /\ pc \in {"history", "insert"} =>
       chanStatus[Frame.chan] # "absent" /\ Late(Frame.chan) = {}

LEMMA LateInsert ==
  ASSUME IngestInv, LateInv, pc = "insert", NEW acked \in BOOLEAN,
         frames' = Append(frames, NewRow(acked)), UNCHANGED chanStatus, NEW c \in Channel
  PROVE  (\A r, q \in Late(c) : r = q)' /\ (Late(c)' # {} => chanStatus'[c] = "closed")
<1>1. PICK f, n : f = Frame.chan /\ n = Len(frames) + 1
  OBVIOUS
<1>2. /\ Len(frames) \in Nat /\ Len(frames') = n /\ frames'[n] = NewRow(acked)
      /\ \A q \in 1..Len(frames) : frames'[q] = frames[q]
  BY <1>1, Appended DEF IngestInv, TypeOK
<1>3. frames'[n].chan = f /\ (chanStatus[f] = "open" => ~frames'[n].late)
  <2>1. NewRow(acked).chan = f /\ NewRow(acked).late = (chanStatus[f] # "open")
    BY <1>1 DEF NewRow
  <2>2. frames'[n].late = (chanStatus[f] # "open")
    BY <1>2, <2>1, Zenon
  <2>3. chanStatus[f] = "open" => ~(chanStatus[f] # "open")
    OBVIOUS
  <2>4. chanStatus[f] = "open" => ~frames'[n].late
    BY <2>2, <2>3, Zenon
  <2> QED
    BY <1>2, <2>1, <2>4, Zenon
<1>4. \A r \in Late(c)' : r \in Late(c) \/ (r = n /\ c = f /\ chanStatus[f] # "open")
  BY <1>1, <1>2, <1>3 DEF Late, RowsOf
<1>5. c = f => Late(c) = {} /\ chanStatus[f] # "absent"
  BY <1>1 DEF LateInv
<1>6. chanStatus[c] \in {"absent", "open", "closed"}
  BY DEF IngestInv, TypeOK
<1>7. /\ \A r, q \in Late(c)' : r = q
      /\ Late(c)' # {} => chanStatus'[c] = "closed"
  BY <1>4, <1>5, <1>6 DEF LateInv
<1> QED
  BY <1>7

\* How the worker comes to hold a frame whose channel it has checked.
LEMMA ToChecked ==
  ASSUME TypeOK, [Next]_vars, pc' \in {"history", "insert"}
  PROVE  /\ UNCHANGED frames /\ job'.id = job.id
         /\ \/ /\ pc = "resolve" /\ chanStatus[Frame.chan] = "open" /\ UNCHANGED chanStatus
            \/ pc \in {"history", "insert"}
<1>0. job \in JobType
  BY DEF TypeOK
<1>1. CASE Resolve
  BY <1>1 DEF Resolve, Return, tables
<1>2. CASE ReadHistory
  <2>1. job'.id = job.id
    BY <1>0, <1>2 DEF ReadHistory, Return, JobType
  <2> QED
    BY <1>2, <2>1 DEF ReadHistory, Return, tables
<1>3. CASE Aside
  BY <1>3, AsideKeeps
<1> QED
  BY <1>1, <1>2, <1>3, NextParts
     DEF Take, Exit, Insert, Publish, CreateEvent, CheckSuppression, Escalate, Restart,
         Return, Continue

LEMMA StatusMoves ==
  ASSUME TypeOK, [Next]_vars, NEW c \in Channel
  PROVE  /\ chanStatus[c] = "closed" => chanStatus'[c] = "closed"
         /\ chanStatus[c] # "absent" => chanStatus'[c] # "absent"
<1>1. CASE UNCHANGED chanStatus
  BY <1>1
<1>2. ASSUME NEW d \in Channel, AddChannel(d) \/ CloseChannel(d)
      PROVE  /\ chanStatus[c] = "closed" => chanStatus'[c] = "closed"
             /\ chanStatus[c] # "absent" => chanStatus'[c] # "absent"
  BY <1>2 DEF AddChannel, CloseChannel, TypeOK
<1>3. UNCHANGED chanStatus \/ \E d \in Channel : AddChannel(d) \/ CloseChannel(d)
  BY DEF Next, vars, Submit, Take, Exit, Resolve, ReadHistory, Insert, Publish,
     CreateEvent, CheckSuppression, Escalate, Cancel, StopReturns, PlanWindow, CloseWindow,
     Tick, Restart
<1> QED
  BY <1>1, <1>2, <1>3

\* Rows come from the insert only.
LEMMA RowsFromInsert ==
  [Next]_vars =>
    \/ frames' = frames
    \/ /\ Insert /\ \E acked \in BOOLEAN : frames' = Append(frames, NewRow(acked))
       /\ UNCHANGED <<chanStatus, accepted>>
BY NextParts, AsideKeeps DEF Take, Exit, Resolve, ReadHistory, Insert, Publish,
   CreateEvent, CheckSuppression, Escalate, Restart, tables

LEMMA LateStep == IngestInv /\ LateInv /\ [Next]_vars => LateInv'
<1> SUFFICES ASSUME IngestInv, LateInv, [Next]_vars PROVE LateInv'
  OBVIOUS
<1>1. CASE frames' = frames
  <2>1. \A c \in Channel : Late(c)' = Late(c)
    BY <1>1 DEF Late, RowsOf
  <2>2. ASSUME NEW c \in Channel
        PROVE  (\A r, q \in Late(c) : r = q)' /\ (Late(c)' # {} => chanStatus'[c] = "closed")
    BY <2>1, StatusMoves DEF LateInv, IngestInv
  <2>3. ASSUME pc' \in {"history", "insert"}
        PROVE  (chanStatus[Frame.chan] # "absent")' /\ (Late(Frame.chan) = {})'
    <3>1. PICK f : f = Frame.chan
      OBVIOUS
    <3>2. f \in Channel /\ Frame'.chan = f
      BY <2>3, <3>1, ToChecked, FrameKept DEF Busy, PC, Calls, IngestInv
    <3>3. chanStatus[f] # "absent" /\ Late(f) = {}
      BY <2>3, <3>1, <3>2, ToChecked DEF LateInv, IngestInv
    <3>4. chanStatus'[f] # "absent" /\ Late(f)' = {}
      BY <2>1, <3>2, <3>3, StatusMoves DEF IngestInv
    <3> QED
      BY <1>1, <3>2, <3>4 DEF Late, RowsOf
  <2> QED
    BY <2>2, <2>3 DEF LateInv
<1>2. CASE Insert /\ (\E acked \in BOOLEAN : frames' = Append(frames, NewRow(acked)))
           /\ UNCHANGED chanStatus
  <2>1. pc = "insert" /\ pc' \notin {"history", "insert"}
    BY <1>2, NewRowType DEF Insert, Return
  <2>2. ASSUME NEW c \in Channel
        PROVE  (\A r, q \in Late(c) : r = q)' /\ (Late(c)' # {} => chanStatus'[c] = "closed")
    BY <1>2, <2>1, LateInsert
  <2> QED
    BY <2>1, <2>2 DEF LateInv
<1> QED
  BY <1>1, <1>2, RowsFromInsert

LEMMA AtMostOne ==
  ASSUME NEW S, \A x, y \in S : x = y
  PROVE  Cardinality(S) <= 1
<1>1. CASE S = {}
  BY <1>1, FS_EmptySet
<1>2. CASE S # {}
  <2>1. PICK x : S = {x}
    BY <1>2
  <2> QED
    BY <2>1, FS_Singleton
<1> QED
  BY <1>1, <1>2

\* A channel that is closed while a frame of it is between the status check
\* and the insert still gets that frame, and never a second one: Close is
\* conditional, so it happens once, and the single worker has one frame.
THEOREM OneLateFrame == Spec => []AtMostOneLateFrame
<1>1. Init => LateInv
  BY DEF Init, LateInv, Late, RowsOf
<1>2. LateInv => AtMostOneLateFrame
  BY AtMostOne DEF LateInv, AtMostOneLateFrame
<1> QED
  BY <1>1, <1>2, LateStep, IngestInvariance, PTL DEF Spec
-----------------------------------------------------------------------------
(* The suppression of an alert. *)

\* SuppressionAtDetection of one event and one verdict.
VerdictRight(e, suppressed) ==
  /\ suppressed => \E w \in Window : CoveredBy(w, e) /\ windows[w].state # "none"
  /\ (\E w \in Window : /\ CoveredBy(w, e)
                        /\ windows[w].state = "planned"
                        /\ windows[w].since < frames[events[e].row].id)
       => suppressed

\* The event in hand is the one of the row in hand, and a verdict that was
\* reached is right for it until the alert is sent.
VerdictInv ==
  /\ \A e \in 1..Len(events) : events[e].row \in 1..Len(frames)
  /\ pc \in {"suppression", "escalate"} =>
       events[job.ev].row = job.row /\ events[job.ev].detected = job.now
  /\ pc = "escalate" /\ ~job.blind => VerdictRight(job.ev, job.suppressed)
  /\ SuppressionAtDetection

LEMMA AlertInvariance == Spec => []AlertInv
<1>1. Init => AlertInv
  BY DEF Init, AlertInv
<1> QED
  BY <1>1, AlertStep, TypeCorrect, PTL DEF Spec

\* Windows are planned once, after what the worker had taken up by then, and
\* never unplanned.
LEMMA WindowMoves ==
  ASSUME TypeOK, [Next]_vars, NEW w \in Window
  PROVE  /\ windows[w].state # "none" => windows'[w].state # "none"
         /\ windows'[w].state = "planned" =>
              \/ windows[w].state = "planned" /\ windows'[w].since = windows[w].since
              \/ windows'[w].since = Taken
<1>1. CASE UNCHANGED windows
  BY <1>1
<1>2. ASSUME NEW v \in Window, PlanWindow(v)
      PROVE  /\ windows[w].state # "none" => windows'[w].state # "none"
             /\ windows'[w].state = "planned" =>
                  \/ windows[w].state = "planned" /\ windows'[w].since = windows[w].since
                  \/ windows'[w].since = Taken
  BY <1>2 DEF PlanWindow, TypeOK, Taken
<1>3. ASSUME NEW v \in Window, CloseWindow(v)
      PROVE  /\ windows[w].state # "none" => windows'[w].state # "none"
             /\ windows'[w].state = "planned" =>
                  windows[w].state = "planned" /\ windows'[w].since = windows[w].since
  BY <1>3 DEF CloseWindow, TypeOK
<1>4. UNCHANGED windows \/ \E v \in Window : PlanWindow(v) \/ CloseWindow(v)
  BY DEF Next, vars, Submit, Take, Exit, Resolve, ReadHistory, Insert, Publish,
     CreateEvent, CheckSuppression, Escalate, Cancel, StopReturns, AddChannel, CloseChannel,
     Tick, Restart
<1> QED
  BY <1>1, <1>2, <1>3, <1>4

\* A right verdict stays right: what is planned from now on is planned after
\* the frame was taken up.
LEMMA VerdictKept ==
  ASSUME IngestInv, [Next]_vars, NEW e \in 1..Len(events), events[e].row \in 1..Len(frames),
         NEW s, VerdictRight(e, s)
  PROVE  VerdictRight(e, s)'
<1>1. Extends(frames, frames') /\ Extends(events, events') /\ TypeOK
  BY OnlyAppended DEF IngestInv
<1>2. events'[e] = events[e] /\ frames'[events[e].row] = frames[events[e].row]
  BY <1>1 DEF Extends
<1>3. frames[events[e].row].id \in Nat /\ frames[events[e].row].id <= Taken /\ Taken \in Nat
  <2>1. frames[events[e].row].id \in 1..Taken
    BY DEF IngestInv, OrderInv
  <2>2. Len(accepted) \in Nat /\ Len(queue) \in Nat /\ Len(queue) <= Len(accepted)
    BY DEF IngestInv, OrderInv, TypeOK
  <2>3. Taken \in Nat
    BY <2>2 DEF Taken
  <2> QED
    BY <2>1, <2>3
<1>4. \A w \in Window : CoveredBy(w, e)' <=> CoveredBy(w, e)
  BY <1>2 DEF CoveredBy
<1>5. ASSUME s PROVE \E w \in Window : CoveredBy(w, e)' /\ windows'[w].state # "none"
  BY <1>1, <1>4, <1>5, WindowMoves DEF VerdictRight
<1>6. ASSUME NEW w \in Window, CoveredBy(w, e)', windows'[w].state = "planned",
             windows'[w].since < frames'[events'[e].row].id
      PROVE  s
  <2>1. windows[w].state = "planned" /\ windows'[w].since = windows[w].since
    BY <1>1, <1>2, <1>3, <1>6, WindowMoves
  <2> QED
    BY <1>2, <1>4, <1>6, <2>1 DEF VerdictRight
<1> QED
  BY <1>5, <1>6 DEF VerdictRight

\* How the worker comes to hold an event whose alert is due.
LEMMA ToVerdict ==
  ASSUME TypeOK, [Next]_vars, pc' \in {"suppression", "escalate"}
  PROVE  /\ job'.row = job.row /\ job'.now = job.now
         /\ \/ /\ pc = "create" /\ pc' = "suppression" /\ job'.ev = Len(events) + 1
               /\ events' = Append(events, NewEvent(TRUE))
            \/ /\ CheckSuppression /\ job'.ev = job.ev /\ pc' = "escalate" /\ UNCHANGED events
            \/ pc \in {"suppression", "escalate"} /\ UNCHANGED <<pc, job, events>>
<1>0. job \in JobType
  BY DEF TypeOK
<1>1. CASE CreateEvent
  BY <1>0, <1>1 DEF CreateEvent, Continue, Return, JobType
<1>2. CASE CheckSuppression
  BY <1>0, <1>2 DEF CheckSuppression, tables, JobType
<1>3. CASE Aside
  BY <1>3, AsideKeeps
<1> QED
  BY <1>1, <1>2, <1>3, NextParts
     DEF Take, Exit, Resolve, ReadHistory, Insert, Publish, Escalate, Restart, Return, Continue

\* The answer of the query is the right verdict for the event in hand.
LEMMA VerdictReached ==
  ASSUME IngestInv, RowInv, AlertInv, VerdictInv, CheckSuppression, ~job'.blind,
         NEW e, e = job.ev, NEW s, s = job'.suppressed
  PROVE  VerdictRight(e, s)'
<1>1. /\ pc = "suppression" /\ UNCHANGED <<frames, events, windows>> /\ job \in JobType
      /\ \/ job' = [job EXCEPT !.suppressed = Suppressed]
         \/ job' = [job EXCEPT !.suppressed = FALSE, !.blind = TRUE]
  BY DEF CheckSuppression, tables, IngestInv, TypeOK
<1>2. s = Suppressed
  BY <1>1 DEF JobType
<1>3. events[e].row = job.row /\ events[e].detected = job.now /\ frames[job.row].chan = Frame.chan
  BY <1>1 DEF VerdictInv, RowInv, After
<1>4. Suppressed <=> \E w \in Window : CoveredBy(w, e) /\ windows[w].state = "planned"
  BY <1>3 DEF Suppressed, ActiveAt, CoveredBy
<1>5. \A w \in Window : CoveredBy(w, e)' <=> CoveredBy(w, e)
  BY <1>1 DEF CoveredBy
<1>6. s <=> \E w \in Window : CoveredBy(w, e) /\ windows[w].state = "planned"
  BY <1>2, <1>4
<1> QED
  BY <1>1, <1>5, <1>6 DEF VerdictRight

LEMMA AlertsFromEscalate ==
  [Next]_vars =>
    \/ alerts' = alerts
    \/ Escalate /\ alerts' = Append(alerts, NewAlert)
BY NextParts, AsideKeeps DEF Take, Exit, Resolve, ReadHistory, Insert, Publish,
   CreateEvent, CheckSuppression, Escalate, Restart, tables

LEMMA EventsFromCreate ==
  [Next]_vars =>
    \/ events' = events
    \/ CreateEvent /\ \E told \in BOOLEAN : events' = Append(events, NewEvent(told))
BY NextParts, AsideKeeps DEF Take, Exit, Resolve, ReadHistory, Insert, Publish,
   CreateEvent, CheckSuppression, Escalate, Restart, tables

LEMMA VerdictStep ==
  IngestInv /\ RowInv /\ AlertInv /\ VerdictInv /\ [Next]_vars => VerdictInv'
<1> SUFFICES ASSUME IngestInv, RowInv, AlertInv, VerdictInv, [Next]_vars PROVE VerdictInv'
  OBVIOUS
<1>1. /\ Extends(frames, frames') /\ Extends(events, events') /\ Extends(alerts, alerts')
      /\ TypeOK /\ job \in JobType
  BY OnlyAppended DEF IngestInv, TypeOK
<1>2. \A e \in 1..Len(events') : events'[e].row \in 1..Len(frames')
  <2>1. \A r \in 1..Len(frames) : r \in 1..Len(frames')
    BY <1>1 DEF Extends
  <2>2. \A e \in 1..Len(events) : events'[e].row \in 1..Len(frames')
    BY <1>1, <2>1 DEF Extends, VerdictInv
  <2>3. ASSUME NEW told \in BOOLEAN, CreateEvent, events' = Append(events, NewEvent(told))
        PROVE  /\ Len(events') = Len(events) + 1
               /\ events'[Len(events) + 1].row \in 1..Len(frames')
    <3>1. Len(events') = Len(events) + 1 /\ events'[Len(events) + 1] = NewEvent(told)
      BY <1>1, <2>3, Appended DEF TypeOK
    <3>2. job.row \in 1..Len(frames)
      BY <2>3 DEF CreateEvent, RowInv, After
    <3> QED
      BY <2>1, <3>1, <3>2 DEF NewEvent
  <2> QED
    BY <1>1, <2>2, <2>3, EventsFromCreate DEF Extends
<1>3. ASSUME pc' \in {"suppression", "escalate"}
      PROVE  events'[job'.ev].row = job'.row /\ events'[job'.ev].detected = job'.now
  <2>1. CASE pc = "create" /\ job'.ev = Len(events) + 1 /\ events' = Append(events, NewEvent(TRUE))
    <3>1. events'[Len(events) + 1] = NewEvent(TRUE)
      BY <1>1, <2>1, Appended DEF TypeOK
    <3> QED
      BY <1>1, <1>3, <2>1, <3>1, ToVerdict DEF NewEvent
  <2>2. CASE pc \in {"suppression", "escalate"} /\ job'.ev = job.ev /\ events' = events
    BY <1>1, <1>3, <2>2, ToVerdict DEF VerdictInv
  <2> QED
    BY <1>1, <1>3, <2>1, <2>2, ToVerdict DEF CheckSuppression
<1>4. ASSUME pc' = "escalate", ~job'.blind, NEW e, e = job'.ev, NEW s, s = job'.suppressed
      PROVE  VerdictRight(e, s)'
  <2>1. CASE CheckSuppression /\ job'.ev = job.ev
    BY <1>4, <2>1, VerdictReached
  <2>2. CASE UNCHANGED <<pc, job, events>>
    <3>1. e \in 1..Len(events) /\ VerdictRight(e, s)
      BY <1>4, <2>2 DEF VerdictInv, AlertInv
    <3>2. events[e].row \in 1..Len(frames)
      BY <3>1 DEF VerdictInv
    <3> QED
      BY <3>1, <3>2, VerdictKept
  <2> QED
    BY <1>1, <1>4, <2>1, <2>2, ToVerdict
<1>5. ASSUME NEW k \in 1..Len(alerts'), ~alerts'[k].blind,
             NEW e, e = alerts'[k].ev, NEW s, s = alerts'[k].suppressed
      PROVE  VerdictRight(e, s)'
  <2>1. CASE k \in 1..Len(alerts)
    <3>1. alerts'[k] = alerts[k]
      BY <1>1, <2>1 DEF Extends
    <3>2. e \in 1..Len(events) /\ VerdictRight(e, s)
      BY <1>5, <2>1, <3>1 DEF AlertInv, VerdictInv, SuppressionAtDetection, VerdictRight
    <3> QED
      BY <3>2, VerdictKept DEF VerdictInv
  <2>2. CASE k \notin 1..Len(alerts)
    <3>1. Escalate /\ alerts' = Append(alerts, NewAlert)
      BY <2>2, AlertsFromEscalate
    <3>2. k = Len(alerts) + 1 /\ alerts'[k] = NewAlert
      BY <1>1, <2>2, <3>1, Appended DEF TypeOK
    <3>3. pc = "escalate" /\ ~job.blind /\ e = job.ev /\ s = job.suppressed
      BY <1>5, <3>1, <3>2 DEF Escalate, NewAlert
    <3>4. e \in 1..Len(events) /\ VerdictRight(e, s)
      BY <3>3 DEF AlertInv, VerdictInv
    <3> QED
      BY <3>4, VerdictKept DEF VerdictInv
  <2> QED
    BY <2>1, <2>2
<1>6. (pc = "escalate" /\ ~job.blind => VerdictRight(job.ev, job.suppressed))'
  BY <1>4 DEF VerdictRight
<1>7. SuppressionAtDetection'
  BY <1>5 DEF SuppressionAtDetection, VerdictRight
<1> QED
  BY <1>2, <1>3, <1>6, <1>7 DEF VerdictInv

\* An alert is suppressed exactly for the windows over the moment its frame
\* was taken up: one planned before and still standing is honoured, and
\* without a window none is.
THEOREM SuppressedAsDetected == Spec => []SuppressionAtDetection
<1>1. Init => VerdictInv
  BY DEF Init, VerdictInv, SuppressionAtDetection
<1>2. VerdictInv => SuppressionAtDetection
  BY DEF VerdictInv
<1> QED
  BY <1>1, <1>2, VerdictStep, RowsInHand, AlertInvariance, IngestInvariance, PTL DEF Spec
-----------------------------------------------------------------------------
(* What failures may cost. *)

\* An event that was recorded and whose alert is still due, or the cancelled
\* context, accounts for one.
Due ==
  IF ctx = "cancelled" \/ pc = "suppression" \/ (pc = "escalate" /\ ~job.blind) THEN 1 ELSE 0

FailureInv ==
  /\ stop = "none" => ctx = "live"
  /\ pc \in {"create", "suppression"} => ~job.blind
  /\ Cardinality(Unalerted) + Cardinality(Blind) <= faults + restarts + Due

LEMMA Smaller ==
  ASSUME NEW S, IsFiniteSet(S), NEW T, T \subseteq S
  PROVE  /\ IsFiniteSet(T) /\ Cardinality(T) \in Nat /\ Cardinality(S) \in Nat
         /\ Cardinality(T) <= Cardinality(S)
BY FS_Subset, FS_CardinalityType

LEMMA OneMore ==
  ASSUME NEW S, IsFiniteSet(S), NEW x, NEW T, T \subseteq S \cup {x}
  PROVE  /\ IsFiniteSet(T) /\ Cardinality(T) \in Nat /\ Cardinality(S) \in Nat
         /\ Cardinality(T) <= Cardinality(S) + 1
<1>1. Cardinality(S) \in Nat
  BY FS_CardinalityType
<1>2. /\ IsFiniteSet(S \cup {x})
      /\ Cardinality(S \cup {x}) = IF x \in S THEN Cardinality(S) ELSE Cardinality(S) + 1
  BY FS_AddElement
<1>3. T \in SUBSET (S \cup {x})
  OBVIOUS
<1>4. IsFiniteSet(T) /\ Cardinality(T) <= Cardinality(S \cup {x})
  BY <1>2, <1>3, FS_Subset
<1>5. Cardinality(T) \in Nat
  BY <1>4, FS_CardinalityType
<1> QED
  BY <1>1, <1>2, <1>4, <1>5

LEMMA OneLess ==
  ASSUME NEW S, IsFiniteSet(S), NEW x \in S, NEW T, T \subseteq S \ {x}
  PROVE  /\ IsFiniteSet(T) /\ Cardinality(T) \in Nat /\ Cardinality(S) \in Nat
         /\ Cardinality(T) + 1 <= Cardinality(S)
<1>1. /\ IsFiniteSet(S \ {x}) /\ Cardinality(S) \in Nat
      /\ Cardinality(S \ {x}) = Cardinality(S) - 1
  BY FS_RemoveElement, FS_CardinalityType
<1> QED
  BY <1>1, FS_Subset, FS_CardinalityType

LEMMA RowsFinite ==
  ASSUME NEW n \in Nat, NEW S, S \subseteq 1..n
  PROVE  IsFiniteSet(S)
<1>1. IsFiniteSet(1..n) /\ S \in SUBSET (1..n)
  BY FS_Interval
<1> QED
  BY <1>1, FS_Subset

LEMMA FailureFinite ==
  TypeOK => /\ IsFiniteSet(Unalerted) /\ IsFiniteSet(Blind)
            /\ Cardinality(Unalerted) \in Nat /\ Cardinality(Blind) \in Nat
            /\ faults \in Nat /\ restarts \in Nat
            /\ Len(events) \in Nat /\ Len(alerts) \in Nat
<1> SUFFICES ASSUME TypeOK
             PROVE  /\ IsFiniteSet(Unalerted) /\ IsFiniteSet(Blind)
                    /\ Cardinality(Unalerted) \in Nat /\ Cardinality(Blind) \in Nat
                    /\ faults \in Nat /\ restarts \in Nat
                    /\ Len(events) \in Nat /\ Len(alerts) \in Nat
  OBVIOUS
<1>1. Len(events) \in Nat /\ Len(alerts) \in Nat /\ faults \in Nat /\ restarts \in Nat
  BY DEF TypeOK
<1>2. Unalerted \subseteq 1..Len(events) /\ Blind \subseteq 1..Len(alerts)
  BY DEF Unalerted, Blind
<1> QED
  BY <1>1, <1>2, RowsFinite, FS_CardinalityType

\* Recording an event adds to the unalerted ones at most that event, and only
\* if it is critical.
LEMMA RecordedEvent ==
  ASSUME TypeOK, NEW told \in BOOLEAN, events' = Append(events, NewEvent(told)), UNCHANGED alerts
  PROVE  /\ Unalerted' \subseteq Unalerted \cup {Len(events) + 1}
         /\ Severity[Finding] # "critical" => Unalerted' \subseteq Unalerted
<1>1. PICK n : n = Len(events) + 1
  OBVIOUS
<1>2. /\ Len(events) \in Nat /\ Len(events') = n /\ events'[n] = NewEvent(told)
      /\ \A e \in 1..Len(events) : events'[e] = events[e]
  BY <1>1, Appended DEF TypeOK
<1>3. events'[n].rule = Finding
  BY <1>2 DEF NewEvent
<1>4. ASSUME NEW e \in Unalerted'
      PROVE  e \in Unalerted \/ (e = n /\ Severity[Finding] = "critical")
  BY <1>1, <1>2, <1>3, <1>4 DEF Unalerted
<1> QED
  BY <1>1, <1>4

LEMMA FailureKept ==
  ASSUME TypeOK, FailureInv, UNCHANGED <<events, alerts, restarts>>,
         pc' \in {"create", "suppression"} => ~job'.blind,
         stop' = "none" => ctx' = "live",
         \/ faults' = faults /\ Due' >= Due
         \/ faults' = faults + 1
  PROVE  FailureInv'
<1>1. Unalerted' = Unalerted /\ Blind' = Blind
  BY DEF Unalerted, Blind
<1>2. Due \in {0, 1} /\ Due' \in {0, 1}
  BY DEF Due
<1> QED
  BY <1>1, <1>2, FailureFinite DEF FailureInv

LEMMA FailureCreate ==
  ASSUME TypeOK, FailureInv, CreateEvent
  PROVE  FailureInv'
<1>1. /\ pc = "create" /\ UNCHANGED <<alerts, restarts, stop>> /\ ~job.blind /\ job \in JobType
      /\ Blind' = Blind
  BY DEF CreateEvent, FailureInv, TypeOK, Blind
<1>2. /\ IsFiniteSet(Unalerted)
      /\ Cardinality(Unalerted) \in Nat /\ Cardinality(Blind) \in Nat
      /\ faults \in Nat /\ restarts \in Nat
      /\ Cardinality(Unalerted) + Cardinality(Blind) <= faults + restarts + Due
  BY FailureFinite DEF FailureInv
<1>3. Continue(Tail(job.todo)) =>
        pc' \in {"idle", "create"} /\ (pc' = "create" => ~job'.blind)
  BY ContinueKeeps
<1>4. CASE /\ CallSucceeds /\ events' = Append(events, NewEvent(TRUE))
           /\ Severity[Finding] \in Escalated /\ pc' = "suppression"
           /\ job' = [job EXCEPT !.ev = Len(events) + 1]
  <2>1. Due = 0 /\ Due' = 1 /\ faults' = faults /\ ~job'.blind /\ ctx' = "live"
    BY <1>1, <1>4 DEF Due, CallSucceeds, JobType
  <2>2. Cardinality(Unalerted') \in Nat /\ Cardinality(Unalerted') <= Cardinality(Unalerted) + 1
    BY <1>1, <1>2, <1>4, RecordedEvent, OneMore
  <2> QED
    BY <1>1, <1>2, <1>4, <2>1, <2>2 DEF FailureInv
<1>5. CASE /\ CallSucceeds /\ events' = Append(events, NewEvent(TRUE))
           /\ Severity[Finding] \notin Escalated /\ Continue(Tail(job.todo))
  <2>1. Due = 0 /\ Due' = 0 /\ faults' = faults /\ ctx' = "live"
    BY <1>1, <1>3, <1>5 DEF Due, CallSucceeds
  <2>2. Cardinality(Unalerted') \in Nat /\ Cardinality(Unalerted') <= Cardinality(Unalerted)
    BY <1>1, <1>2, <1>5, RecordedEvent, Smaller DEF Escalated
  <2> QED
    BY <1>1, <1>2, <1>3, <1>5, <2>1, <2>2 DEF FailureInv
<1>6. CASE /\ WrittenButFails /\ events' = Append(events, NewEvent(FALSE))
           /\ Continue(Tail(job.todo))
  <2>1. Due = 0 /\ Due' = 1 /\ faults' = faults /\ stop' = stop /\ ctx = "racing"
    BY <1>1, <1>3, <1>6 DEF Due, WrittenButFails
  <2>2. Cardinality(Unalerted') \in Nat /\ Cardinality(Unalerted') <= Cardinality(Unalerted) + 1
    BY <1>1, <1>2, <1>6, RecordedEvent, OneMore
  <2> QED
    BY <1>1, <1>2, <1>3, <1>6, <2>1, <2>2 DEF FailureInv
<1>7. CASE CallFails /\ Continue(Tail(job.todo)) /\ UNCHANGED events
  <2>1. \/ ctx' = "live" /\ Due = 0 /\ Due' = 0 /\ faults' = faults + 1
        \/ ctx # "live" /\ Due \in {0, 1} /\ Due' = 1 /\ faults' = faults
    BY <1>1, <1>3, <1>7 DEF Due, CallFails
  <2>2. stop' = "none" => ctx' = "live"
    BY <1>1, <1>7 DEF FailureInv, CallFails
  <2> QED
    BY <1>1, <1>3, <1>7, <2>1, <2>2, FailureKept
<1> QED
  BY <1>4, <1>5, <1>6, <1>7 DEF CreateEvent

LEMMA FailureEscalate ==
  ASSUME TypeOK, AlertInv, FailureInv, Escalate
  PROVE  FailureInv'
<1>1. /\ pc = "escalate" /\ UNCHANGED <<events, restarts, stop, ctx>> /\ job \in JobType
      /\ pc' \in {"idle", "create"} /\ (pc' = "create" => ~job'.blind)
  BY ContinueKeeps DEF Escalate, TypeOK
<1>2. /\ IsFiniteSet(Unalerted) /\ IsFiniteSet(Blind)
      /\ Cardinality(Unalerted) \in Nat /\ Cardinality(Blind) \in Nat
      /\ faults \in Nat /\ restarts \in Nat /\ Len(alerts) \in Nat
      /\ Cardinality(Unalerted) + Cardinality(Blind) <= faults + restarts + Due
  BY FailureFinite DEF FailureInv
<1>3. /\ Due' = (IF ctx = "cancelled" THEN 1 ELSE 0)
      /\ Due = (IF ctx = "cancelled" \/ ~job.blind THEN 1 ELSE 0)
  BY <1>1 DEF Due
<1>4. CASE faults' = faults + 1 /\ UNCHANGED alerts
  <2>1. Unalerted' = Unalerted /\ Blind' = Blind
    BY <1>1, <1>4 DEF Unalerted, Blind
  <2> QED
    BY <1>1, <1>2, <1>3, <1>4, <2>1 DEF FailureInv
<1>5. CASE alerts' = Append(alerts, NewAlert) /\ UNCHANGED faults
  <2>1. PICK n, e : n = Len(alerts) + 1 /\ e = job.ev
    OBVIOUS
  <2>2. /\ Len(alerts') = n /\ alerts'[n] = NewAlert
        /\ \A k \in 1..Len(alerts) : alerts'[k] = alerts[k]
    BY <1>5, <2>1, Appended DEF TypeOK
  <2>3. alerts'[n].ev = e /\ (~job.blind => ~alerts'[n].blind)
    <3>1. alerts'[n].blind = job.blind /\ alerts'[n].ev = e
      BY <2>1, <2>2 DEF NewAlert
    <3> QED
      BY <3>1, Zenon
  <2>4. e \in Unalerted
    BY <1>1, <2>1 DEF AlertInv, CriticalRow, Unalerted
  <2>5. Unalerted' \subseteq Unalerted \ {e}
    BY <1>1, <1>2, <2>1, <2>2, <2>3 DEF Unalerted
  <2>6. Cardinality(Unalerted') \in Nat /\ Cardinality(Unalerted') + 1 <= Cardinality(Unalerted)
    BY <1>2, <2>4, <2>5, OneLess
  <2>7. Blind' \subseteq Blind \cup {n} /\ (~job.blind => Blind' \subseteq Blind)
    BY <1>2, <2>1, <2>2, <2>3 DEF Blind
  <2>8. Cardinality(Blind') \in Nat /\ Cardinality(Blind') <= Cardinality(Blind) + 1
    BY <1>2, <2>7, OneMore
  <2>9. ~job.blind => Cardinality(Blind') <= Cardinality(Blind)
    BY <1>2, <2>7, Smaller
  <2> QED
    BY <1>1, <1>2, <1>3, <1>5, <2>6, <2>8, <2>9 DEF FailureInv
<1> QED
  BY <1>4, <1>5 DEF Escalate

LEMMA FailureStep == TypeOK /\ AlertInv /\ FailureInv /\ [Next]_vars => FailureInv'
<1> SUFFICES ASSUME TypeOK, AlertInv, FailureInv, [Next]_vars PROVE FailureInv'
  OBVIOUS
<1>0. faults \in Nat /\ job \in JobType /\ Due \in {0, 1} /\ (stop = "none" => ctx = "live")
  BY DEF TypeOK, FailureInv, Due
<1>1. CASE CreateEvent
  BY <1>1, FailureCreate
<1>2. CASE Escalate
  BY <1>2, FailureEscalate
<1>3. CASE CheckSuppression
  <2>1. /\ UNCHANGED <<events, alerts, restarts, stop>> /\ pc' = "escalate" /\ pc = "suppression"
        /\ ~job.blind
    BY <1>3 DEF CheckSuppression, tables, FailureInv
  <2>2. \/ ctx' = "live" /\ faults' = faults /\ job'.blind = job.blind
        \/ ctx' = "live" /\ faults' = faults + 1
        \/ ctx # "live" /\ ctx' = "cancelled" /\ faults' = faults
    BY <1>0, <1>3 DEF CheckSuppression, CallSucceeds, CallFails, JobType
  <2>3. \/ faults' = faults /\ Due' >= Due
        \/ faults' = faults + 1
    BY <1>0, <2>1, <2>2 DEF Due
  <2> QED
    BY <1>0, <2>1, <2>2, <2>3, FailureKept
<1>4. CASE Resolve \/ ReadHistory \/ Insert
  <2>1. /\ UNCHANGED <<events, alerts, restarts, stop>> /\ pc' \notin {"create", "suppression"}
        /\ pc \notin {"suppression", "escalate"}
    BY <1>4 DEF Resolve, ReadHistory, Insert, Return, tables
  <2>2. \/ ctx' = ctx /\ faults' = faults
        \/ ctx' = "live" /\ faults' = faults + 1
        \/ ctx # "live" /\ ctx' = "cancelled" /\ faults' = faults
    BY <1>0, <1>4 DEF Resolve, ReadHistory, Insert, CallSucceeds, CallFails, WrittenButFails
  <2>3. \/ faults' = faults /\ Due' >= Due
        \/ faults' = faults + 1
    BY <1>0, <2>1, <2>2 DEF Due
  <2> QED
    BY <1>0, <2>1, <2>2, <2>3, FailureKept
<1>5. CASE Publish
  <2>1. /\ UNCHANGED <<events, alerts, restarts, stop, ctx, faults>>
        /\ pc = "publish" /\ (pc' = "create" => ~job'.blind) /\ pc' \in {"idle", "create"}
    BY <1>5, ContinueKeeps DEF Publish, tables
  <2> QED
    BY <1>0, <2>1, FailureKept DEF Due
<1>6. CASE Take \/ Exit
  <2>1. /\ UNCHANGED <<events, alerts, restarts, stop, ctx, faults>>
        /\ pc = "idle" /\ pc' \in {"resolve", "exited"}
    BY <1>6 DEF Take, Exit, tables
  <2> QED
    BY <1>0, <2>1, FailureKept DEF Due
<1>7. CASE Aside
  <2>1. UNCHANGED <<events, alerts, restarts, faults, pc, job>>
    BY <1>7 DEF Aside, Submit, Cancel, StopReturns, AddChannel, CloseChannel, PlanWindow,
       CloseWindow, Tick, vars, tables
  <2>2. \/ ctx' = ctx /\ (stop' = stop \/ stop' = "returned")
        \/ ctx = "live" /\ stop' = "waiting"
    BY <1>0, <1>7 DEF Aside, Submit, Cancel, StopReturns, AddChannel, CloseChannel, PlanWindow,
       CloseWindow, Tick, vars, tables
  <2>3. Due' >= Due
    BY <1>0, <2>1, <2>2 DEF Due
  <2> QED
    BY <1>0, <2>1, <2>2, <2>3, FailureKept DEF FailureInv
<1>8. CASE Restart
  <2>1. Unalerted' = Unalerted /\ Blind' = Blind
    BY <1>8 DEF Restart, tables, Unalerted, Blind
  <2>2. restarts' = restarts + 1 /\ faults' = faults /\ Due' = 0 /\ pc' = "idle" /\ ctx' = "live"
    BY <1>8 DEF Restart, Due
  <2> QED
    BY <1>0, <2>1, <2>2, FailureFinite DEF FailureInv
<1> QED
  BY <1>1, <1>2, <1>3, <1>4, <1>5, <1>6, <1>7, <1>8, NextParts

\* Critical events without an alert and alerts without an answer about
\* maintenance are at most one per failed call, per crash, for the event in
\* hand and for the cancelled context, however many findings a frame has.
THEOREM AlertLossBounded == Spec => []AlertFailuresBounded
<1>1. Init => FailureInv
  <2> SUFFICES ASSUME Init PROVE FailureInv
    OBVIOUS
  <2>1. Unalerted = {} /\ Blind = {}
    BY DEF Init, Unalerted, Blind
  <2> QED
    BY <2>1, FS_EmptySet DEF Init, FailureInv, Due
<1>2. TypeOK /\ FailureInv => AlertFailuresBounded
  <2> SUFFICES ASSUME TypeOK, FailureInv PROVE AlertFailuresBounded
    OBVIOUS
  <2>1. Due <= (IF ctx # "live" \/ pc \in {"suppression", "escalate"} THEN 1 ELSE 0)
    BY DEF Due
  <2>2. Due \in {0, 1}
    BY DEF Due
  <2> QED
    BY <2>1, <2>2, FailureFinite DEF FailureInv, AlertFailuresBounded
<1> QED
  BY <1>1, <1>2, FailureStep, AlertInvariance, TypeCorrect, PTL DEF Spec
-----------------------------------------------------------------------------
(* Accepted frames that are nowhere. *)

InQueue == {queue[k] : k \in 1..Len(queue)}

LEMMA StoredGrows == Extends(frames, frames') => Stored \subseteq Stored'
BY DEF Extends, Stored

\* Away from Submit and Take, a frame can only be lost by leaving the worker.
LEMMA MissingKept ==
  ASSUME UNCHANGED <<accepted, queue>>, Extends(frames, frames'), refused \subseteq refused'
  PROVE  /\ Missing' \subseteq Missing \cup InHand
         /\ InHand \subseteq Stored' \cup refused' \cup InHand' => Missing' \subseteq Missing
BY StoredGrows DEF Missing

LEMMA MissingSubmit ==
  ASSUME TypeOK, NEW p \in Payload, Submit(p)
  PROVE  Missing' \subseteq Missing
<1>1. PICK n : n = Len(accepted) + 1
  OBVIOUS
<1>2. /\ Len(accepted) \in Nat /\ Len(accepted') = n /\ UNCHANGED <<frames, refused, pc, job>>
      /\ Len(queue) \in Nat /\ Len(queue') = Len(queue) + 1 /\ queue'[Len(queue) + 1] = n
      /\ \A k \in 1..Len(queue) : queue'[k] = queue[k]
  BY <1>1, Appended DEF Submit, TypeOK, tables
<1>3. \A k \in 1..Len(queue) : k \in 1..Len(queue') /\ queue'[k] = queue[k]
  BY <1>2
<1>4. Len(queue) + 1 \in 1..Len(queue')
  BY <1>2
<1>5. n \in InQueue' /\ InQueue \subseteq InQueue'
  BY <1>2, <1>3, <1>4 DEF InQueue
<1>6. Stored' = Stored /\ InHand' = InHand
  BY <1>2 DEF Stored, InHand
<1>7. 1..Len(accepted') = 1..Len(accepted) \cup {n}
  BY <1>1, <1>2
<1> QED
  BY <1>2, <1>5, <1>6, <1>7 DEF Missing, InQueue

LEMMA MissingTake ==
  ASSUME TypeOK, Take
  PROVE  Missing' \subseteq Missing
<1>1. /\ pc = "idle" /\ pc' = "resolve" /\ UNCHANGED <<frames, refused, accepted>>
      /\ job'.id = Head(queue) /\ queue # <<>> /\ queue' = Tail(queue) /\ queue \in Seq(Nat)
  BY DEF Take, TypeOK, NoJob, tables
<1>2. /\ Len(queue) \in Nat \ {0} /\ Len(queue') = Len(queue) - 1 /\ Head(queue) = queue[1]
      /\ \A k \in 1..Len(queue') : queue'[k] = queue[k + 1]
  BY <1>1
<1>3. ASSUME NEW k \in 1..Len(queue) PROVE queue[k] = job'.id \/ queue[k] \in InQueue'
  <2>1. k = 1 \/ (k - 1 \in 1..Len(queue') /\ (k - 1) + 1 = k)
    BY <1>2
  <2> QED
    BY <1>1, <1>2, <2>1 DEF InQueue
<1>4. InHand = {} /\ InHand' = {job'.id} /\ Stored' = Stored
  BY <1>1 DEF InHand, Stored
<1> QED
  BY <1>1, <1>3, <1>4 DEF Missing, InQueue

\* A call that fails on its own is counted; one that succeeds loses nothing.
LEMMA MissingCall ==
  ASSUME IngestInv, [Next]_vars, Resolve \/ ReadHistory \/ Insert, ctx' = "live"
  PROVE  /\ ctx = "live"
         /\ \/ Missing' \subseteq Missing /\ faults' = faults
            \/ Missing' \subseteq Missing \cup {job.id} /\ faults' = faults + 1
<1>1. /\ UNCHANGED <<accepted, queue>> /\ Extends(frames, frames') /\ refused \subseteq refused'
      /\ InHand = {job.id} /\ TypeOK /\ job \in JobType
  BY OnlyAppended DEF Resolve, ReadHistory, Insert, tables, IngestInv, TypeOK, InHand
<1>2. Missing' \subseteq Missing \cup {job.id}
  BY <1>1, MissingKept
<1>3. CASE CallFails
  BY <1>2, <1>3 DEF CallFails
<1>4. CASE Resolve /\ CallSucceeds
  <2>1. job.id \in refused' \cup InHand'
    BY <1>1, <1>4 DEF Resolve, InHand, CallSucceeds, CallFails, TypeOK
  <2> QED
    BY <1>1, <1>4, <2>1, MissingKept DEF CallSucceeds
<1>5. CASE ReadHistory /\ CallSucceeds /\ pc' = "insert"
  <2>1. job'.id = job.id
    BY <1>1, <1>5 DEF ReadHistory, JobType, Return
  <2> QED
    BY <1>1, <1>5, <2>1, MissingKept DEF CallSucceeds, InHand
<1>6. CASE CallSucceeds /\ frames' = Append(frames, NewRow(TRUE))
  <2>1. Len(frames') = Len(frames) + 1 /\ frames'[Len(frames) + 1] = NewRow(TRUE) /\ Len(frames) \in Nat
    BY <1>1, <1>6, Appended DEF TypeOK
  <2>2. Len(frames) + 1 \in 1..Len(frames') /\ NewRow(TRUE).id = job.id
    BY <2>1 DEF NewRow
  <2>3. job.id \in Stored'
    BY <2>1, <2>2 DEF Stored
  <2> QED
    BY <1>1, <1>6, <2>3, MissingKept DEF CallSucceeds
<1> QED
  BY <1>3, <1>4, <1>5, <1>6 DEF Resolve, ReadHistory, Insert, WrittenButFails

LEMMA MissingElsewhere ==
  ASSUME IngestInv, [Next]_vars, ctx' = "live", restarts' = 0,
         \/ Aside \/ Exit \/ Publish \/ CreateEvent \/ CheckSuppression \/ Escalate
  PROVE  /\ ctx = "live" /\ restarts = 0 /\ Missing' \subseteq Missing
         /\ faults' = faults \/ faults' = faults + 1
<1>0. TypeOK
  BY DEF IngestInv
<1>1. ctx = "live" /\ restarts = 0 /\ (faults' = faults \/ faults' = faults + 1)
  BY DEF Aside, Submit, Cancel, StopReturns, AddChannel, CloseChannel, PlanWindow,
     CloseWindow, Tick, vars, Exit, Publish, CreateEvent, CheckSuppression, Escalate,
     CallFails, CallSucceeds, WrittenButFails
<1>2. CASE \E p \in Payload : Submit(p)
  BY <1>0, <1>1, <1>2, MissingSubmit
<1>3. CASE /\ UNCHANGED <<accepted, queue, frames, refused>>
           /\ \/ UNCHANGED <<pc, job>>
              \/ pc \notin {"resolve", "history", "insert"}
  <2>1. Extends(frames, frames')
    BY OnlyAppended, <1>0
  <2>2. InHand \subseteq InHand'
    BY <1>3 DEF InHand
  <2> QED
    BY <1>1, <1>3, <2>1, <2>2, MissingKept
<1> QED
  BY <1>2, <1>3 DEF Aside, Cancel, StopReturns, AddChannel, CloseChannel, PlanWindow,
     CloseWindow, Tick, vars, tables, Exit, Publish, CreateEvent, CheckSuppression, Escalate

LEMMA LossStep == IngestInv /\ LossNeedsFault /\ [Next]_vars => LossNeedsFault'
<1> SUFFICES ASSUME IngestInv, LossNeedsFault, [Next]_vars, ctx' = "live", restarts' = 0
             PROVE  Cardinality(Missing') <= faults'
  BY DEF LossNeedsFault
<1>0. TypeOK /\ faults \in Nat /\ restarts \in Nat /\ Len(accepted) \in Nat
  BY DEF IngestInv, TypeOK
<1>1. Missing \subseteq 1..Len(accepted)
  BY DEF Missing
<1>2. IsFiniteSet(Missing)
  BY <1>0, <1>1, RowsFinite
<1>3. ASSUME ctx = "live", restarts = 0,
             \/ Missing' \subseteq Missing /\ (faults' = faults \/ faults' = faults + 1)
             \/ Missing' \subseteq Missing \cup {job.id} /\ faults' = faults + 1
      PROVE  Cardinality(Missing') <= faults'
  <2>1. Cardinality(Missing) <= faults
    BY <1>3 DEF LossNeedsFault
  <2>2. CASE Missing' \subseteq Missing /\ (faults' = faults \/ faults' = faults + 1)
    <3>1. /\ Cardinality(Missing') \in Nat /\ Cardinality(Missing) \in Nat
          /\ Cardinality(Missing') <= Cardinality(Missing)
      BY <1>2, <2>2, Smaller
    <3> QED
      BY <1>0, <2>1, <2>2, <3>1
  <2>3. CASE Missing' \subseteq Missing \cup {job.id} /\ faults' = faults + 1
    <3>1. /\ Cardinality(Missing') \in Nat /\ Cardinality(Missing) \in Nat
          /\ Cardinality(Missing') <= Cardinality(Missing) + 1
      BY <1>2, <2>3, OneMore
    <3> QED
      BY <1>0, <2>1, <2>3, <3>1
  <2> QED
    BY <1>3, <2>2, <2>3
<1>4. CASE Take
  BY <1>0, <1>3, <1>4, MissingTake DEF Take
<1>5. CASE Resolve \/ ReadHistory \/ Insert
  <2>1. restarts = 0
    BY <1>5 DEF Resolve, ReadHistory, Insert
  <2> QED
    BY <1>3, <1>5, <2>1, MissingCall
<1>6. CASE Restart
  BY <1>0, <1>6 DEF Restart
<1>7. CASE Aside \/ Exit \/ Publish \/ CreateEvent \/ CheckSuppression \/ Escalate
  BY <1>3, <1>7, MissingElsewhere
<1> QED
  BY <1>4, <1>5, <1>6, <1>7, NextParts

\* As long as nothing was cancelled and nothing crashed, an accepted frame
\* that is neither queued, in hand, stored nor refused cost a database failure
\* of its own: the pipeline itself loses none.
THEOREM LossesCostFaults == Spec => []LossNeedsFault
<1>1. Init => LossNeedsFault
  <2> SUFFICES ASSUME Init PROVE LossNeedsFault
    OBVIOUS
  <2>1. Missing = {}
    BY DEF Init, Missing
  <2> QED
    BY <2>1, FS_EmptySet DEF Init, LossNeedsFault
<1> QED
  BY <1>1, LossStep, IngestInvariance, PTL DEF Spec
=============================================================================
