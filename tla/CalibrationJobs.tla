--------------------------- MODULE CalibrationJobs ---------------------------
(***************************************************************************)
(* Calibration jobs (calibration_service.go, calibration_eval.go).  Every  *)
(* operation reads the job, checks its state and then updates the row by   *)
(* its id alone, so that two operations on one job may interleave between  *)
(* check and update.                                                       *)
(***************************************************************************)
EXTENDS Naturals, FiniteSets

CONSTANTS
  Job,          \* rows that may be scheduled
  Client,       \* goroutines that serve requests or sweep for overdue jobs
  Order,        \* [kind, at, window]: what a job may be scheduled with
  Report,       \* metrics a request may carry: keys to "within" or "outside"
  MaxClock,     \* bound: readings of the wall clock
  MaxFaults     \* bound: failing updates

Kind == {"mass-center", "gain-check"}
Key == {"offset", "variance", "gain_ratio", "snr"}
Verdict == {"within", "outside"}   \* how a value stands to its key's limits

ASSUME CalibrationAssumption ==
  /\ Order \subseteq [kind : Kind, at : Nat, window : Nat]
  /\ Report \subseteq UNION {[ks -> Verdict] : ks \in SUBSET Key}
  /\ {MaxClock, MaxFaults} \subseteq Nat

VARIABLES
  jobs,         \* the table: [Job -> row]
  call,         \* what each client's goroutine holds
  overlapped,   \* history: jobs two calls have been working on at a time
  clock, faults

vars == <<jobs, call, overlapped, clock, faults>>

State == {"none", "pending", "running", "succeeded", "failed", "expired"}
Terminal == {"succeeded", "failed", "expired"}      \* CalibTerminal

\* judged is history: the values went through CompleteEvaluated.
NoResult == [values |-> <<>>, factors |-> {}, judged |-> FALSE]
NoRow == [state |-> "none", kind |-> "mass-center", at |-> 0, window |-> 1,
          started |-> FALSE, finished |-> FALSE, result |-> NoResult]

\* The writes a call may be about to make, on the jobs todo.
Idle == [write |-> "none", todo |-> {}, result |-> NoResult]

Deadline(j) == jobs[j].at + jobs[j].window

RequiredMetrics(kind) ==
  IF kind = "mass-center" THEN {"offset", "variance"} ELSE {"gain_ratio", "snr"}

MissingRequiredMetrics(kind, report) == RequiredMetrics(kind) \ DOMAIN report

\* EvaluateCalibMetrics: the failing factors; none is a pass.
Factors(kind, report) ==
  MissingRequiredMetrics(kind, report)
    \cup {k \in RequiredMetrics(kind) \cap DOMAIN report : report[k] = "outside"}

\* The client takes on the jobs js.
Begins(c, js, write, result) ==
  /\ call[c] = Idle
  /\ call' = [call EXCEPT ![c] = [write |-> write, todo |-> js, result |-> result]]
  /\ overlapped' = overlapped \cup (js \cap UNION {call[d].todo : d \in Client})
  /\ UNCHANGED <<jobs, clock, faults>>
-----------------------------------------------------------------------------
Init ==
  /\ jobs = [j \in Job |-> NoRow]
  /\ call = [c \in Client |-> Idle]
  /\ overlapped = {}
  /\ clock = 0 /\ faults = 0

Scheduled(j, o) ==
  /\ jobs[j].state = "none"
  /\ jobs' = [jobs EXCEPT ![j] =
       [NoRow EXCEPT !.state = "pending", !.kind = o.kind, !.at = o.at, !.window = o.window]]
  /\ UNCHANGED <<call, overlapped, clock, faults>>

\* Schedule: a window must be positive; times in the past are allowed.
Schedule(j, o) == o.window > 0 /\ Scheduled(j, o)

StartAnyState(c, j) ==
  /\ jobs[j].state # "none"
  /\ Begins(c, {j}, "running", NoResult)

\* Start, Fail, Complete and CompleteEvaluated up to their checks; a call they
\* refuse changes nothing.
Start(c, j) ==
  /\ jobs[j].state = "pending"
  /\ Begins(c, {j}, "running", NoResult)

Fail(c, j) ==
  /\ jobs[j].state = "running"
  /\ Begins(c, {j}, "failed", NoResult)

\* Whatever is reported is a success.
Complete(c, j, report) ==
  /\ jobs[j].state = "running"
  /\ Begins(c, {j}, "succeeded", [values |-> report, factors |-> {}, judged |-> FALSE])

CompleteUnstarted(c, j, report) ==
  /\ jobs[j].state \in {"pending", "running"}
  /\ MissingRequiredMetrics(jobs[j].kind, report) = {}
  /\ LET factors == Factors(jobs[j].kind, report)
     IN  Begins(c, {j}, IF factors = {} THEN "succeeded" ELSE "failed",
                [values |-> report, factors |-> factors, judged |-> TRUE])

CompleteEvaluated(c, j, report) ==
  /\ jobs[j].state = "running"
  /\ MissingRequiredMetrics(jobs[j].kind, report) = {}
  /\ LET factors == Factors(jobs[j].kind, report)
     IN  Begins(c, {j}, IF factors = {} THEN "succeeded" ELSE "failed",
                [values |-> report, factors |-> factors, judged |-> TRUE])

\* The window is forgotten: a job is overdue once it is due.
OverdueAtOnce == {j \in Job : jobs[j].state = "pending" /\ jobs[j].at <= clock}

\* DueBefore(now), less the jobs whose deadline is still ahead.
Overdue ==
  {j \in Job : /\ jobs[j].state = "pending" /\ jobs[j].at <= clock
               /\ ~(Deadline(j) > clock)}

\* ExpireOverdue reads the list once and then updates its jobs one by one.
ExpireOverdue(c) ==
  /\ Overdue # {}
  /\ Begins(c, Overdue, "expired", NoResult)

\* The job of a call that is updated next; a sweep goes by schedule.
NextOf(c) == {j \in call[c].todo : \A k \in call[c].todo : jobs[j].at <= jobs[k].at}

\* FinishWithResult: the metrics are replaced, by {} if there are none.
FinishedRow(row, state, result) ==
  [row EXCEPT !.state = state, !.finished = TRUE, !.result = result]

\* MarkStarted, FinishWithResult or UpdateState.
Written(c, row) ==
  CASE call[c].write = "running" -> [row EXCEPT !.state = "running", !.started = TRUE]
    [] call[c].write = "expired" -> [row EXCEPT !.state = "expired"]
    [] OTHER -> FinishedRow(row, call[c].write, call[c].result)

\* The job done, or the whole rest of the call given up.
Leaves(c, js) ==
  LET rest == call[c].todo \ js
  IN  call' = [call EXCEPT ![c] = IF rest = {} THEN Idle ELSE [call[c] EXCEPT !.todo = rest]]

Update(c, j) ==
  /\ j \in NextOf(c)
  /\ jobs' = [jobs EXCEPT ![j] = Written(c, @)]
  /\ Leaves(c, {j})
  /\ UNCHANGED <<overlapped, clock, faults>>

\* The update fails, or the process dies before it: a sweep stops there.
UpdateFails(c) ==
  /\ call[c] # Idle
  /\ faults < MaxFaults /\ faults' = faults + 1
  /\ Leaves(c, Job)
  /\ UNCHANGED <<jobs, overlapped, clock>>

Tick ==
  /\ clock < MaxClock /\ clock' = clock + 1
  /\ UNCHANGED <<jobs, call, overlapped, faults>>

Next ==
  \/ \E j \in Job, o \in Order : Schedule(j, o)
  \/ \E c \in Client :
       \/ \E j \in Job : \/ Start(c, j) \/ Fail(c, j)
                         \/ \E report \in Report :
                              Complete(c, j, report) \/ CompleteEvaluated(c, j, report)
                         \/ Update(c, j)
       \/ ExpireOverdue(c)
       \/ UpdateFails(c)
  \/ Tick

Spec == Init /\ [][Next]_vars
-----------------------------------------------------------------------------
Result == [values : {<<>>} \cup Report, factors : SUBSET Key, judged : BOOLEAN]

\* Rows and calls keep their types, and only calls under way hold jobs.
TypeOK ==
  /\ jobs \in [Job -> [state : State, kind : Kind, at : Nat, window : Nat \ {0},
                       started : BOOLEAN, finished : BOOLEAN, result : Result]]
  /\ call \in [Client -> [write : State \ {"pending"}, todo : SUBSET Job,
                          result : Result]]
  /\ \A c \in Client : call[c].todo = {} <=> call[c] = Idle
  /\ overlapped \subseteq Job
  /\ clock \in Nat /\ faults \in Nat

JobEdge ==
  {<<"none", "pending">>, <<"pending", "running">>, <<"pending", "expired">>,
   <<"running", "succeeded">>, <<"running", "failed">>}

\* A job that no two calls have worked on at a time goes through the states
\* of model/calibration.go in their order, sweeps included: each operation is
\* right when it is alone.
AloneFollowsLifecycle ==
  [][\A j \in Job : jobs'[j].state # jobs[j].state =>
       \/ <<jobs[j].state, jobs'[j].state>> \in JobEdge
       \/ j \in overlapped]_vars

RacyEdge ==
  {<<"none", "pending">>, <<"pending", "running">>, <<"pending", "expired">>}
    \cup ({"running"} \cup Terminal) \X ({"running"} \cup Terminal)

Races == INSTANCE Lifecycle
           WITH Thing <- Job, Origin <- "none", Edge <- RacyEdge,
                state <- [j \in Job |-> jobs[j].state]

\* What is left of the lifecycle under every race: a job leaves pending once,
\* by starting or expiring, and never for a result.
LeavesPendingOnce == Races!Spec

\* A final state is justified by what the row holds, whichever finishing calls
\* and sweeps raced: a succeeded job whose metrics were judged has every required
\* one within its limits, a failed one the factors that failed it or, after
\* Fail, nothing, and never what Complete was given, and an expired one has
\* reached its deadline.  The deadline itself is enough, as ExpireOverdue compares
\* (deadline.After(now)); for Overdue of model/calibration.go, which no part of the
\* program calls, a job is still live at that instant.  Rows and calls keep their
\* types.
FinalStateJustified ==
  /\ TypeOK
  /\ \A j \in Job :
       /\ (jobs[j].state = "succeeded" /\ jobs[j].result.judged) =>
            \A k \in RequiredMetrics(jobs[j].kind) :
              k \in DOMAIN jobs[j].result.values /\ jobs[j].result.values[k] = "within"
       /\ jobs[j].state = "failed" =>
            \/ jobs[j].result = NoResult
            \/ jobs[j].result.judged /\ jobs[j].result.factors # {}
       /\ jobs[j].state \in {"succeeded", "failed"} => jobs[j].started /\ jobs[j].finished
       /\ jobs[j].state = "expired" => Deadline(j) <= clock
-----------------------------------------------------------------------------
\* calibration_service.go:47: "Start transitions pending -> running only": a
\* job that has left pending is not set running (again).
StartsFromPending ==
  [][\A j \in Job : jobs'[j].state = "running" => jobs[j].state \in {"pending", "running"}]_vars
=============================================================================
