-------------------------- MODULE CalibrationProofs --------------------------
(***************************************************************************)
(* What holds of CalibrationJobs for any number of jobs, clients, reports, *)
(* clock readings and failures.                                            *)
(***************************************************************************)
EXTENDS CalibrationJobs, TLAPS

Row == [state : State, kind : Kind, at : Nat, window : Nat \ {0},
        started : BOOLEAN, finished : BOOLEAN, result : Result]

Call == [write : State \ {"pending"}, todo : SUBSET Job, result : Result]

\* Every required metric is there and within its limits.
Passed(kind, values) ==
  \A k \in RequiredMetrics(kind) : k \in DOMAIN values /\ values[k] = "within"

\* What a final state says of the metrics beside it.
Justified(state, kind, result) ==
  /\ (state = "succeeded" /\ result.judged) => Passed(kind, result.values)
  /\ state = "failed" => \/ result = NoResult
                         \/ result.judged /\ result.factors # {}

\* A row says how it came to its state.
RowsJustified ==
  \A j \in Job :
    /\ Justified(jobs[j].state, jobs[j].kind, jobs[j].result)
    /\ jobs[j].state \in {"running", "succeeded", "failed"} => jobs[j].started
    /\ jobs[j].state \in {"succeeded", "failed"} => jobs[j].finished
    /\ jobs[j].state = "expired" => Deadline(j) <= clock

\* What a call under way has found out about its jobs, however stale the rest
\* of what it has read: they were scheduled, a result is for a job that was
\* started and goes with its state, and a sweep's jobs have had their window.
CallsJustified ==
  \A c \in Client : \A j \in call[c].todo :
    /\ call[c].write \in {"running", "succeeded", "failed", "expired"}
    /\ jobs[j].state # "none"
    /\ call[c].write \in {"succeeded", "failed"} =>
         /\ jobs[j].state # "pending" /\ jobs[j].started
         /\ Justified(call[c].write, jobs[j].kind, call[c].result)
    /\ call[c].write = "expired" => Deadline(j) <= clock

\* The state a call has read before it writes this one.
Expected(write) == IF write \in {"running", "expired"} THEN "pending" ELSE "running"

\* A job no two calls have held at a time is held by one, and is as it was read.
Alone ==
  \A j \in Job : j \notin overlapped =>
    \A c \in Client : j \in call[c].todo =>
      /\ jobs[j].state = Expected(call[c].write)
      /\ \A d \in Client : j \in call[d].todo => d = c

CalibrationInv == TypeOK /\ RowsJustified /\ CallsJustified /\ Alone
-----------------------------------------------------------------------------
LEMMA NoRowType ==
  /\ NoRow \in Row /\ NoResult \in Result /\ Idle \in Call
  /\ NoRow.state = "none" /\ NoRow.result = NoResult
  /\ NoResult.judged = FALSE /\ Idle.todo = {} /\ Idle.result = NoResult
BY DEF NoRow, NoResult, Idle, Row, Result, Call, State, Kind

LEMMA TypeParts ==
  TypeOK <=> /\ jobs \in [Job -> Row] /\ call \in [Client -> Call]
             /\ \A c \in Client : call[c].todo = {} <=> call[c] = Idle
             /\ overlapped \subseteq Job /\ clock \in Nat /\ faults \in Nat
BY DEF TypeOK, Row, Call

\* What Update makes of a row.
LEMMA WrittenRow ==
  ASSUME CalibrationInv, NEW c \in Client, NEW j \in call[c].todo
  PROVE  LET new == Written(c, jobs[j])
             write == call[c].write
         IN  /\ new \in Row /\ new.state = write
             /\ new.kind = jobs[j].kind /\ new.at = jobs[j].at /\ new.window = jobs[j].window
             /\ jobs[j].started \/ write = "running" => new.started
             /\ write \in {"running", "expired"} => new.result = jobs[j].result
             /\ write \in {"succeeded", "failed"} => new.finished /\ new.result = call[c].result
<1> DEFINE row == jobs[j]
           write == call[c].write
<1>1. /\ row \in Row /\ call[c] \in Call /\ write \in State
      /\ write \in {"running", "succeeded", "failed", "expired"}
  BY TypeParts DEF CalibrationInv, CallsJustified, Call
<1>2. CASE write = "running"
  <2>1. Written(c, row) = [row EXCEPT !.state = "running", !.started = TRUE]
    BY <1>2 DEF Written
  <2> QED
    BY <1>1, <1>2, <2>1 DEF Row
<1>3. CASE write = "expired"
  <2>1. Written(c, row) = [row EXCEPT !.state = "expired"]
    BY <1>3 DEF Written
  <2> QED
    BY <1>1, <1>3, <2>1 DEF Row
<1>4. CASE write \in {"succeeded", "failed"}
  <2>1. Written(c, row) = [row EXCEPT !.state = write, !.finished = TRUE, !.result = call[c].result]
    BY <1>4 DEF Written, FinishedRow
  <2> QED
    BY <1>1, <1>4, <2>1 DEF Row, Call
<1> QED
  BY <1>1, <1>2, <1>3, <1>4

LEMMA CalibrationInit == Init => CalibrationInv
<1> SUFFICES ASSUME Init PROVE CalibrationInv
  OBVIOUS
<1>1. TypeOK
  BY TypeParts, NoRowType DEF Init
<1>2. RowsJustified /\ CallsJustified /\ Alone
  BY NoRowType DEF Init, RowsJustified, CallsJustified, Alone, Justified
<1> QED
  BY <1>1, <1>2 DEF CalibrationInv

LEMMA CalibrationSchedule ==
  ASSUME CalibrationInv, NEW j \in Job, NEW o \in Order, Schedule(j, o)
  PROVE  CalibrationInv'
<1> DEFINE new == [NoRow EXCEPT !.state = "pending", !.kind = o.kind, !.at = o.at, !.window = o.window]
<1>1. /\ jobs[j].state = "none" /\ jobs' = [jobs EXCEPT ![j] = new]
      /\ UNCHANGED <<call, overlapped, clock, faults>>
      /\ o \in [kind : Kind, at : Nat, window : Nat] /\ o.window > 0
  BY CalibrationAssumption DEF Schedule, Scheduled
<1>2. new \in Row /\ new.state = "pending"
  <2>1. NoRow \in Row /\ o.kind \in Kind /\ o.at \in Nat /\ o.window \in Nat \ {0}
    BY <1>1, NoRowType
  <2> QED
    BY <2>1 DEF Row, State
<1>3. TypeOK'
  <2>1. jobs' \in [Job -> Row]
    BY <1>1, <1>2, TypeParts DEF CalibrationInv
  <2> QED
    BY <1>1, <2>1 DEF CalibrationInv, TypeOK, Row
<1>4. /\ jobs'[j] = new /\ \A k \in Job \ {j} : jobs'[k] = jobs[k]
      /\ \A c \in Client : j \notin call[c].todo
  BY <1>1, TypeParts DEF CalibrationInv, CallsJustified
<1>5. RowsJustified'
  BY <1>1, <1>2, <1>4 DEF CalibrationInv, RowsJustified, Justified, Deadline
<1>6. CallsJustified' /\ Alone'
  BY <1>1, <1>4, TypeParts DEF CalibrationInv, CallsJustified, Alone, Deadline, Call
<1> QED
  BY <1>3, <1>5, <1>6 DEF CalibrationInv

\* A call that is past its check, with what the check has found out.
LEMMA CalibrationBegins ==
  ASSUME CalibrationInv, NEW c \in Client, NEW js \in SUBSET Job, js # {},
         NEW write \in {"running", "succeeded", "failed", "expired"}, NEW result \in Result,
         \A j \in js : /\ jobs[j].state = Expected(write)
                       /\ write \in {"succeeded", "failed"} => Justified(write, jobs[j].kind, result)
                       /\ write = "expired" => Deadline(j) <= clock,
         Begins(c, js, write, result)
  PROVE  CalibrationInv'
<1> DEFINE new == [write |-> write, todo |-> js, result |-> result]
<1>1. /\ call[c] = Idle /\ call' = [call EXCEPT ![c] = new]
      /\ overlapped' = overlapped \cup (js \cap UNION {call[d].todo : d \in Client})
      /\ UNCHANGED <<jobs, clock, faults>>
  BY DEF Begins
<1>2. new \in Call /\ new.todo # {} /\ new # Idle
  BY DEF Call, State, Idle
<1>3. call'[c] = new /\ (\A d \in Client \ {c} : call'[d] = call[d]) /\ call' \in [Client -> Call]
  BY <1>1, <1>2, TypeParts DEF CalibrationInv
<1>4. TypeOK'
  <2>1. \A d \in Client : call'[d].todo = {} <=> call'[d] = Idle
    BY <1>2, <1>3 DEF CalibrationInv, TypeOK
  <2>2. overlapped' \subseteq Job /\ UNCHANGED <<jobs, clock, faults>>
    BY <1>1 DEF CalibrationInv, TypeOK
  <2> QED
    BY <1>3, <2>1, <2>2 DEF CalibrationInv, TypeOK, Call
<1>5. RowsJustified'
  BY <1>1 DEF CalibrationInv, RowsJustified, Deadline
<1>6. \A j \in js : /\ j \in Job /\ jobs[j].state # "none"
                    /\ write \in {"succeeded", "failed"} => jobs[j].state = "running" /\ jobs[j].started
  BY DEF CalibrationInv, RowsJustified, Expected
<1>7. CallsJustified'
  BY <1>1, <1>3, <1>6 DEF CalibrationInv, CallsJustified, Deadline
<1>8. Alone'
  <2> SUFFICES ASSUME NEW j \in Job, j \notin overlapped', NEW d \in Client, j \in call'[d].todo
               PROVE  /\ jobs[j].state = Expected(call'[d].write)
                      /\ \A e \in Client : j \in call'[e].todo => e = d
    BY <1>1 DEF Alone
  <2>1. CASE d = c
    BY <1>1, <1>3, <2>1
  <2>2. CASE d # c
    BY <1>1, <1>3, <2>2 DEF CalibrationInv, Alone
  <2> QED
    BY <2>1, <2>2
<1> QED
  BY <1>4, <1>5, <1>7, <1>8 DEF CalibrationInv

LEMMA CalibrationStart ==
  ASSUME CalibrationInv, NEW c \in Client, NEW j \in Job, Start(c, j)
  PROVE  CalibrationInv'
<1>1. jobs[j].state = Expected("running") /\ Begins(c, {j}, "running", NoResult)
  BY DEF Start, Expected
<1>2. /\ {j} \in SUBSET Job /\ {j} # {} /\ NoResult \in Result
      /\ \A k \in {j} : jobs[k].state = Expected("running")
  BY <1>1, NoRowType
<1> QED
  BY <1>1, <1>2, CalibrationBegins

LEMMA CalibrationFail ==
  ASSUME CalibrationInv, NEW c \in Client, NEW j \in Job, Fail(c, j)
  PROVE  CalibrationInv'
<1>1. jobs[j].state = Expected("failed") /\ Begins(c, {j}, "failed", NoResult)
  BY DEF Fail, Expected
<1>2. /\ {j} \in SUBSET Job /\ {j} # {} /\ NoResult \in Result
      /\ \A k \in {j} : jobs[k].state = Expected("failed") /\ Justified("failed", jobs[k].kind, NoResult)
  BY <1>1, NoRowType DEF Justified
<1> QED
  BY <1>1, <1>2, CalibrationBegins

LEMMA CalibrationComplete ==
  ASSUME CalibrationInv, NEW c \in Client, NEW j \in Job, NEW report \in Report,
         Complete(c, j, report)
  PROVE  CalibrationInv'
<1> DEFINE result == [values |-> report, factors |-> {}, judged |-> FALSE]
<1>1. result \in Result /\ result.judged = FALSE
  BY DEF Result
<1> QED
  BY <1>1, CalibrationBegins DEF Complete, Expected, Justified

\* No failing factor means that the metrics have passed.
LEMMA NoFactors ==
  ASSUME NEW kind \in Kind, NEW report \in Report, Factors(kind, report) = {}
  PROVE  Passed(kind, report)
<1>1. PICK ks \in SUBSET Key : report \in [ks -> Verdict]
  BY CalibrationAssumption
<1> QED
  BY <1>1 DEF Factors, MissingRequiredMetrics, Passed, Verdict

LEMMA CalibrationCompleteEvaluated ==
  ASSUME CalibrationInv, NEW c \in Client, NEW j \in Job, NEW report \in Report,
         CompleteEvaluated(c, j, report)
  PROVE  CalibrationInv'
<1> DEFINE factors == Factors(jobs[j].kind, report)
           write == IF factors = {} THEN "succeeded" ELSE "failed"
           result == [values |-> report, factors |-> factors, judged |-> TRUE]
<1>1. jobs[j].kind \in Kind /\ RequiredMetrics(jobs[j].kind) \subseteq Key
  BY TypeParts DEF CalibrationInv, Row, RequiredMetrics, Key
<1>2. result \in Result /\ result.judged /\ result.values = report /\ result.factors = factors
  BY <1>1 DEF Result, Factors, MissingRequiredMetrics
<1>3. /\ {j} \in SUBSET Job /\ {j} # {}
      /\ \A k \in {j} : Justified(write, jobs[k].kind, result)
  BY <1>1, <1>2, NoFactors DEF Justified
<1>4. Begins(c, {j}, write, result)
  BY DEF CompleteEvaluated
<1>5. write \in {"succeeded", "failed"} /\ \A k \in {j} : jobs[k].state = Expected(write)
  BY DEF CompleteEvaluated, Expected
<1> HIDE DEF write, result
<1> QED
  BY <1>2, <1>3, <1>4, <1>5, CalibrationBegins

LEMMA CalibrationExpireOverdue ==
  ASSUME CalibrationInv, NEW c \in Client, ExpireOverdue(c)
  PROVE  CalibrationInv'
<1>1. Overdue \in SUBSET Job /\ Overdue # {} /\ NoResult \in Result
  BY NoRowType DEF ExpireOverdue, Overdue
<1>2. \A j \in Overdue : jobs[j].state = Expected("expired") /\ Deadline(j) <= clock
  BY TypeParts DEF CalibrationInv, Overdue, Deadline, Row, Expected
<1>3. Begins(c, Overdue, "expired", NoResult)
  BY DEF ExpireOverdue
<1> QED
  BY <1>1, <1>2, <1>3, CalibrationBegins

LEMMA CalibrationUpdate ==
  ASSUME CalibrationInv, NEW c \in Client, NEW j \in Job, Update(c, j)
  PROVE  CalibrationInv'
<1> DEFINE write == call[c].write
           new == Written(c, jobs[j])
<1>1. /\ j \in call[c].todo /\ jobs' = [jobs EXCEPT ![j] = new]
      /\ call' = [call EXCEPT ![c] = IF call[c].todo \ {j} = {} THEN Idle
                                     ELSE [call[c] EXCEPT !.todo = call[c].todo \ {j}]]
      /\ UNCHANGED <<overlapped, clock, faults>>
  BY DEF Update, NextOf, Leaves
<1>2. /\ new \in Row /\ new.state = write /\ new.kind = jobs[j].kind
      /\ new.at = jobs[j].at /\ new.window = jobs[j].window
      /\ jobs[j].started \/ write = "running" => new.started
      /\ write \in {"running", "expired"} => new.result = jobs[j].result
      /\ write \in {"succeeded", "failed"} => new.finished /\ new.result = call[c].result
  BY <1>1, WrittenRow
<1>3. /\ call[c] \in Call /\ write \in {"running", "succeeded", "failed", "expired"}
      /\ jobs[j].state # "none"
      /\ write \in {"succeeded", "failed"} =>
           jobs[j].started /\ Justified(write, jobs[j].kind, call[c].result)
      /\ write = "expired" => Deadline(j) <= clock
  BY <1>1, TypeParts DEF CalibrationInv, CallsJustified
<1>4. jobs'[j] = new /\ (\A k \in Job \ {j} : jobs'[k] = jobs[k]) /\ jobs' \in [Job -> Row]
  BY <1>1, <1>2, TypeParts DEF CalibrationInv
<1>5. /\ call' \in [Client -> Call] /\ \A d \in Client \ {c} : call'[d] = call[d]
      /\ call'[c].todo = call[c].todo \ {j}
      /\ call'[c].todo # {} => call'[c].write = write /\ call'[c].result = call[c].result
      /\ call'[c].todo = {} <=> call'[c] = Idle
  <2> DEFINE rest == IF call[c].todo \ {j} = {} THEN Idle
                     ELSE [call[c] EXCEPT !.todo = call[c].todo \ {j}]
  <2>1. /\ rest \in Call /\ rest.todo = call[c].todo \ {j}
        /\ rest.todo # {} => rest.write = write /\ rest.result = call[c].result
        /\ rest.todo = {} <=> rest = Idle
    <3>1. CASE call[c].todo \ {j} = {}
      BY <3>1, NoRowType
    <3>2. CASE call[c].todo \ {j} # {}
      BY <1>3, <3>2, NoRowType DEF Call
    <3> QED
      BY <3>1, <3>2
  <2>2. call' = [call EXCEPT ![c] = rest]
    BY <1>1
  <2> HIDE DEF rest
  <2> QED
    BY <2>1, <2>2, TypeParts DEF CalibrationInv
<1>6. TypeOK'
  <2>1. \A d \in Client : call'[d].todo = {} <=> call'[d] = Idle
    BY <1>5 DEF CalibrationInv, TypeOK
  <2> QED
    BY <1>1, <1>4, <1>5, <2>1 DEF CalibrationInv, TypeOK, Row, Call
<1>7. RowsJustified'
  BY <1>1, <1>2, <1>3, <1>4 DEF CalibrationInv, RowsJustified, Justified, Deadline
<1>8. \A k \in Job : /\ jobs'[k].kind = jobs[k].kind /\ Deadline(k)' = Deadline(k)
                     /\ jobs[k].started => jobs'[k].started
                     /\ jobs[k].state # "none" => jobs'[k].state # "none"
                     /\ jobs[k].state \notin {"none", "pending"} => jobs'[k].state # "pending"
  BY <1>2, <1>3, <1>4 DEF Deadline
<1>9. \A d \in Client : /\ call'[d].todo \subseteq call[d].todo
                        /\ call'[d].todo # {} => /\ call'[d].write = call[d].write
                                                /\ call'[d].result = call[d].result
  BY <1>5
<1>10. CallsJustified'
  <2> SUFFICES ASSUME NEW d \in Client, NEW k \in call'[d].todo
               PROVE  /\ call[d].write \in {"running", "succeeded", "failed", "expired"}
                      /\ jobs'[k].state # "none"
                      /\ call[d].write \in {"succeeded", "failed"} =>
                           /\ jobs'[k].state # "pending" /\ jobs'[k].started
                           /\ Justified(call[d].write, jobs[k].kind, call[d].result)
                      /\ call[d].write = "expired" => Deadline(k) <= clock
    BY <1>1, <1>5, <1>8, <1>9 DEF CallsJustified, Call
  <2>1. k \in call[d].todo /\ k \in Job
    BY <1>5, <1>9 DEF Call
  <2> QED
    BY <1>8, <2>1 DEF CalibrationInv, CallsJustified
<1>11. Alone'
  BY <1>1, <1>4, <1>5, <1>9 DEF CalibrationInv, Alone
<1> QED
  BY <1>6, <1>7, <1>10, <1>11 DEF CalibrationInv

LEMMA CalibrationUpdateFails ==
  ASSUME CalibrationInv, NEW c \in Client, UpdateFails(c)
  PROVE  CalibrationInv'
<1>1. /\ call' = [call EXCEPT ![c] = Idle] /\ UNCHANGED <<jobs, overlapped, clock>>
      /\ faults' \in Nat
  <2>1. call[c].todo \ Job = {}
    BY TypeParts DEF CalibrationInv, Call
  <2>2. call' = [call EXCEPT ![c] = Idle]
    BY <2>1 DEF UpdateFails, Leaves
  <2> QED
    BY <2>2 DEF UpdateFails, CalibrationInv, TypeOK
<1>2. /\ call'[c] = Idle /\ \A d \in Client \ {c} : call'[d] = call[d]
      /\ call' \in [Client -> Call]
  BY <1>1, TypeParts, NoRowType DEF CalibrationInv
<1>3. TypeOK'
  BY <1>1, <1>2, NoRowType DEF CalibrationInv, TypeOK, Call
<1>4. RowsJustified' /\ CallsJustified' /\ Alone'
  BY <1>1, <1>2, NoRowType DEF CalibrationInv, RowsJustified, CallsJustified, Alone, Deadline
<1> QED
  BY <1>3, <1>4 DEF CalibrationInv

LEMMA CalibrationTick ==
  ASSUME CalibrationInv, Tick
  PROVE  CalibrationInv'
<1>1. clock' = clock + 1 /\ clock \in Nat /\ UNCHANGED <<jobs, call, overlapped, faults>>
  BY DEF Tick, CalibrationInv, TypeOK
<1>2. \A j \in Job : Deadline(j) \in Nat /\ Deadline(j)' = Deadline(j)
  BY <1>1, TypeParts DEF CalibrationInv, Deadline, Row
<1>3. TypeOK' /\ Alone'
  BY <1>1 DEF CalibrationInv, TypeOK, Alone
<1>4. RowsJustified' /\ CallsJustified'
  BY <1>1, <1>2, TypeParts DEF CalibrationInv, RowsJustified, CallsJustified, Call
<1> QED
  BY <1>3, <1>4 DEF CalibrationInv

LEMMA CalibrationStep == CalibrationInv /\ [Next]_vars => CalibrationInv'
<1> SUFFICES ASSUME CalibrationInv, [Next]_vars PROVE CalibrationInv'
  OBVIOUS
<1>1. ASSUME UNCHANGED vars PROVE CalibrationInv'
  BY <1>1 DEF vars, CalibrationInv, TypeOK, RowsJustified, CallsJustified, Alone, Deadline
<1> QED
  BY <1>1, CalibrationSchedule, CalibrationStart, CalibrationFail, CalibrationComplete,
     CalibrationCompleteEvaluated, CalibrationExpireOverdue, CalibrationUpdate,
     CalibrationUpdateFails, CalibrationTick DEF Next

\* Every state keeps the invariant: rows and calls keep their types, rows and
\* the calls on them are justified, and a job that was never shared is as its
\* one call has read it.
THEOREM CalibrationInvariance == Spec => []CalibrationInv
BY CalibrationInit, CalibrationStep, PTL DEF Spec

\* A final state is justified by what the row holds, whichever finishing calls
\* and sweeps raced (Complete, CompleteEvaluated, Fail, ExpireOverdue).
THEOREM FinalStateJustifiedHolds == Spec => []FinalStateJustified
<1>1. CalibrationInv => FinalStateJustified
  BY DEF CalibrationInv, RowsJustified, Justified, Passed, FinalStateJustified
<1> QED
  BY <1>1, CalibrationInvariance, PTL
-----------------------------------------------------------------------------
\* The steps that change a row: one schedules it, the other writes what a call
\* has read its way to.
LEMMA RowChanges ==
  ASSUME CalibrationInv, [Next]_vars, NEW j \in Job, jobs'[j].state # jobs[j].state
  PROVE  \/ jobs[j].state = "none" /\ jobs'[j].state = "pending"
         \/ \E c \in Client : j \in call[c].todo /\ jobs'[j].state = call[c].write
<1>1. ASSUME NEW k \in Job, NEW o \in Order, Schedule(k, o)
      PROVE  jobs[j].state = "none" /\ jobs'[j].state = "pending"
  <2> DEFINE new == [NoRow EXCEPT !.state = "pending", !.kind = o.kind, !.at = o.at,
                                  !.window = o.window]
  <2>1. jobs[k].state = "none" /\ jobs' = [jobs EXCEPT ![k] = new] /\ jobs \in [Job -> Row]
    BY <1>1, TypeParts DEF Schedule, Scheduled, CalibrationInv
  <2>2. new.state = "pending"
    BY NoRowType DEF Row
  <2> HIDE DEF new
  <2> QED
    BY <2>1, <2>2
<1>2. ASSUME NEW c \in Client, NEW k \in Job, Update(c, k)
      PROVE  j \in call[c].todo /\ jobs'[j].state = call[c].write
  <2>1. k \in call[c].todo /\ jobs' = [jobs EXCEPT ![k] = Written(c, jobs[k])]
        /\ jobs \in [Job -> Row]
    BY <1>2, TypeParts DEF Update, NextOf, CalibrationInv
  <2>2. Written(c, jobs[k]).state = call[c].write
    BY <2>1, WrittenRow
  <2> QED
    BY <2>1, <2>2
<1>3. ASSUME jobs' = jobs PROVE FALSE
  BY <1>3
<1>4. ASSUME NEW c \in Client, NEW k \in Job,
             \/ Start(c, k) \/ Fail(c, k)
             \/ \E report \in Report : Complete(c, k, report) \/ CompleteEvaluated(c, k, report)
             \/ ExpireOverdue(c) \/ UpdateFails(c)
      PROVE  jobs' = jobs
  BY <1>4 DEF Start, Fail, Complete, CompleteEvaluated, ExpireOverdue, UpdateFails, Begins
<1>5. ASSUME NEW c \in Client, ExpireOverdue(c) \/ UpdateFails(c) PROVE jobs' = jobs
  BY <1>5 DEF ExpireOverdue, UpdateFails, Begins
<1>6. ASSUME Tick \/ UNCHANGED vars PROVE jobs' = jobs
  BY <1>6 DEF Tick, vars
<1> QED
  BY <1>1, <1>2, <1>3, <1>4, <1>5, <1>6 DEF Next

\* A job that no two calls have worked on at a time goes through its states in
\* order.
THEOREM AloneFollowsLifecycleHolds == Spec => AloneFollowsLifecycle
<1> DEFINE Step == \A j \in Job : jobs'[j].state # jobs[j].state =>
                     \/ <<jobs[j].state, jobs'[j].state>> \in JobEdge
                     \/ j \in overlapped
<1>1. CalibrationInv /\ [Next]_vars => Step
  <2> SUFFICES ASSUME CalibrationInv, [Next]_vars, NEW j \in Job,
                      jobs'[j].state # jobs[j].state, j \notin overlapped
               PROVE  <<jobs[j].state, jobs'[j].state>> \in JobEdge
    OBVIOUS
  <2>1. CASE jobs[j].state = "none" /\ jobs'[j].state = "pending"
    BY <2>1 DEF JobEdge
  <2>2. ASSUME NEW c \in Client, j \in call[c].todo, jobs'[j].state = call[c].write
        PROVE  <<jobs[j].state, jobs'[j].state>> \in JobEdge
    <3>1. jobs[j].state = Expected(call[c].write)
          /\ call[c].write \in {"running", "succeeded", "failed", "expired"}
      BY <2>2 DEF CalibrationInv, Alone, CallsJustified
    <3> QED
      BY <2>2, <3>1 DEF Expected, JobEdge
  <2> QED
    BY <2>1, <2>2, RowChanges
<1>2. Spec => [][Step]_vars
  <2> HIDE DEF Step
  <2> QED
    BY <1>1, CalibrationInvariance, PTL DEF Spec
<1> QED
  BY <1>2 DEF AloneFollowsLifecycle

\* Under every race a job leaves pending once, by starting or expiring: the
\* table implements the lifecycle that is left of the documented one.
THEOREM LeavesPendingOnceHolds == Spec => LeavesPendingOnce
<1>1. Init => Races!Init
  <2> SUFFICES ASSUME Init PROVE \A j \in Job : jobs[j].state = "none"
    BY DEF Races!Init
  <2> QED
    BY NoRowType DEF Init
<1>2. CalibrationInv /\ [Next]_vars => [Races!Next]_([j \in Job |-> jobs[j].state])
  <2> SUFFICES ASSUME CalibrationInv, [Next]_vars, NEW j \in Job,
                      jobs'[j].state # jobs[j].state
               PROVE  <<jobs[j].state, jobs'[j].state>> \in RacyEdge
    BY DEF Races!Next
  <2>1. CASE jobs[j].state = "none" /\ jobs'[j].state = "pending"
    BY <2>1 DEF RacyEdge
  <2>2. ASSUME NEW c \in Client, j \in call[c].todo, jobs'[j].state = call[c].write
        PROVE  <<jobs[j].state, jobs'[j].state>> \in RacyEdge
    <3>1. /\ call[c].write \in {"running", "succeeded", "failed", "expired"}
          /\ jobs[j].state \in State /\ jobs[j].state # "none"
          /\ call[c].write \in {"succeeded", "failed"} => jobs[j].state # "pending"
      BY <2>2, TypeParts DEF CalibrationInv, CallsJustified, Row
    <3> QED
      BY <2>2, <3>1 DEF State, RacyEdge, Terminal
  <2> QED
    BY <2>1, <2>2, RowChanges
<1> QED
  BY <1>1, <1>2, CalibrationInvariance, PTL DEF Spec, LeavesPendingOnce, Races!Spec
=============================================================================
