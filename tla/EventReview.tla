----------------------------- MODULE EventReview -----------------------------
(***************************************************************************)
(* The table qc_events after the pipeline has filled it: operators         *)
(* acknowledge and resolve events (qc_handler.go), and ArchiveQCEvents     *)
(* (retention.go) moves resolved events to qc_events_archive in one        *)
(* transaction.                                                            *)
(*                                                                         *)
(* Requests run concurrently, one database call at a time: the pool has    *)
(* one connection, and an open transaction holds it.                       *)
(***************************************************************************)
EXTENDS Naturals, Sequences, FiniteSets, Functions, FiniteSetsExt

CONSTANTS
  Reviewer,     \* goroutines that serve ack and resolve requests
  MaxEvents,    \* bound: events recorded in a behaviour
  MaxClock,     \* bound: readings of the wall clock
  MaxFaults     \* bound: failing database calls, disconnects and crashes

ASSUME ReviewAssumption == {MaxEvents, MaxClock, MaxFaults} \subseteq Nat

VARIABLES
  qcEvents,     \* the table: a row for each id that is in it
  archived,     \* qc_events_archive, likewise
  nextId,       \* the AUTOINCREMENT sequence: ids are not reused
  request,      \* what each reviewer's goroutine holds
  txn,          \* the archiver's transaction
  told,         \* history: for each event, the states answered with 200
  clock, faults

vars == <<qcEvents, archived, nextId, request, txn, told, clock, faults>>

Event == 1..MaxEvents
Status == {"open", "acked", "resolved"}
Row == [status : Status, detected : Nat, resolved : BOOLEAN]

Idle == [at |-> "idle", id |-> 0, seen |-> "open", next |-> "open"]
NoTxn == [phase |-> "none", before |-> 0, moved |-> {}, deleted |-> {}]

\* The only connection is not in the archiver's hands.
ConnFree == txn.phase = "none"

\* What the two handlers let through: the states ack and resolve start from.
Allowed(cur, next) ==
  \/ next = "acked" /\ cur = "open"
  \/ next = "resolved" /\ cur \in {"open", "acked"}

Fault == faults < MaxFaults /\ faults' = faults + 1
-----------------------------------------------------------------------------
Init ==
  /\ qcEvents = <<>> /\ archived = <<>> /\ nextId = 1
  /\ request = [r \in Reviewer |-> Idle]
  /\ txn = NoTxn
  /\ told = [e \in Event |-> <<>>]
  /\ clock = 0 /\ faults = 0

\* QCEventStore.Create, called by the ingest worker.
Create ==
  /\ ConnFree /\ nextId <= MaxEvents
  /\ qcEvents' = [e \in DOMAIN qcEvents \cup {nextId} |->
                    IF e = nextId
                    THEN [status |-> "open", detected |-> clock, resolved |-> FALSE]
                    ELSE qcEvents[e]]
  /\ nextId' = nextId + 1
  /\ UNCHANGED <<archived, request, txn, told, clock, faults>>

\* transitionQCEvent up to the check; requests for a missing event or from a
\* state that is not allowed are answered at once and change nothing.
Read(r, e, next) ==
  /\ ConnFree /\ request[r].at = "idle"
  /\ e \in DOMAIN qcEvents /\ Allowed(qcEvents[e].status, next)
  /\ request' = [request EXCEPT ![r] =
       [at |-> "checked", id |-> e, seen |-> qcEvents[e].status, next |-> next]]
  /\ UNCHANGED <<qcEvents, archived, nextId, txn, told, clock, faults>>

\* The update ignores the status the handler has seen.
MatchesById(r) == request[r].id \in DOMAIN qcEvents

\* UPDATE ... WHERE id = ? AND status = ? hits a row.
Matches(r) ==
  request[r].id \in DOMAIN qcEvents /\ qcEvents[request[r].id].status = request[r].seen

\* resolved_at is set by the move to resolved and by no other.
MovedRow(row, next) ==
  [row EXCEPT !.status = next, !.resolved = @ \/ next = "resolved"]

Written(r) == [qcEvents EXCEPT ![request[r].id] = MovedRow(@, request[r].next)]

\* An answer of 200 whether or not the update hit a row.
UpdateUnchecked(r) ==
  /\ ConnFree /\ request[r].at = "checked"
  /\ qcEvents' = IF Matches(r) THEN Written(r) ELSE qcEvents
  /\ told' = [told EXCEPT ![request[r].id] = Append(@, request[r].next)]
  /\ request' = [request EXCEPT ![r] = Idle]
  /\ UNCHANGED <<archived, nextId, txn, clock, faults>>

\* QCEventStore.UpdateStatus: 200 if a row was hit, else 409.
Update(r) ==
  /\ ConnFree /\ request[r].at = "checked"
  /\ \/ /\ Matches(r)
        /\ qcEvents' = Written(r)
        /\ told' = [told EXCEPT ![request[r].id] = Append(@, request[r].next)]
     \/ ~Matches(r) /\ UNCHANGED <<qcEvents, told>>
  /\ request' = [request EXCEPT ![r] = Idle]
  /\ UNCHANGED <<archived, nextId, txn, clock, faults>>

\* The update answers 500: the database failed, or the client went away and
\* cancelled the request's context, possibly after the row was written.
UpdateFails(r) ==
  /\ ConnFree /\ request[r].at = "checked" /\ Fault
  /\ qcEvents' \in {qcEvents} \cup (IF Matches(r) THEN {Written(r)} ELSE {})
  /\ request' = [request EXCEPT ![r] = Idle]
  /\ UNCHANGED <<archived, nextId, txn, told, clock>>
-----------------------------------------------------------------------------
\* EnsureArchiveTable and BeginTx; the cutoff is the caller's.
Begin(before) ==
  /\ ConnFree
  /\ txn' = [NoTxn EXCEPT !.phase = "begun", !.before = before]
  /\ UNCHANGED <<qcEvents, archived, nextId, request, told, clock, faults>>

\* Old events are moved whatever their status.
ExpiredAnyStatus == {e \in DOMAIN qcEvents : qcEvents[e].detected < txn.before}

\* The WHERE clause the copy and the delete share.
Expired ==
  {e \in DOMAIN qcEvents : qcEvents[e].status = "resolved" /\ qcEvents[e].detected < txn.before}

\* Rows in the archive once the events es have been copied.
WithCopies(es) ==
  [e \in DOMAIN archived \cup es |-> IF e \in es THEN qcEvents[e] ELSE archived[e]]

\* The copy is committed on its own.
CopyAutocommit ==
  /\ txn.phase = "begun" /\ Expired # {} /\ Expired \cap DOMAIN archived = {}
  /\ archived' = WithCopies(Expired)
  /\ txn' = [txn EXCEPT !.phase = "copied", !.moved = Expired]
  /\ UNCHANGED <<qcEvents, nextId, request, told, clock, faults>>

\* INSERT ... SELECT: nothing to move ends the transaction, an id that the
\* archive holds already breaks its primary key.
Copy ==
  /\ txn.phase = "begun"
  /\ txn' = IF Expired = {} \/ Expired \cap DOMAIN archived # {} THEN NoTxn
            ELSE [txn EXCEPT !.phase = "copied", !.moved = Expired]
  /\ UNCHANGED <<qcEvents, archived, nextId, request, told, clock, faults>>

\* DELETE; a count other than the copy's rolls the transaction back.
Delete ==
  /\ txn.phase = "copied"
  /\ txn' = IF Cardinality(Expired) # Cardinality(txn.moved) THEN NoTxn
            ELSE [txn EXCEPT !.phase = "deleted", !.deleted = Expired]
  /\ UNCHANGED <<qcEvents, archived, nextId, request, told, clock, faults>>

Commit ==
  /\ txn.phase = "deleted"
  /\ archived' = WithCopies(txn.moved)
  /\ qcEvents' = Restrict(qcEvents, DOMAIN qcEvents \ txn.deleted)
  /\ txn' = NoTxn
  /\ UNCHANGED <<nextId, request, told, clock, faults>>

\* A call of the transaction fails: the deferred rollback.
Rollback ==
  /\ ~ConnFree /\ Fault
  /\ txn' = NoTxn
  /\ UNCHANGED <<qcEvents, archived, nextId, request, told, clock>>

\* The process dies; the database forgets the open transaction.
Crash ==
  /\ Fault
  /\ txn' = NoTxn /\ request' = [r \in Reviewer |-> Idle]
  /\ UNCHANGED <<qcEvents, archived, nextId, told, clock>>

Tick ==
  /\ clock < MaxClock /\ clock' = clock + 1
  /\ UNCHANGED <<qcEvents, archived, nextId, request, txn, told, faults>>

Next ==
  \/ Create
  \/ \E r \in Reviewer :
       \/ \E e \in Event, next \in {"acked", "resolved"} : Read(r, e, next)
       \/ Update(r) \/ UpdateFails(r)
  \/ \E before \in 0..MaxClock : Begin(before)
  \/ Copy \/ Delete \/ Commit \/ Rollback
  \/ Crash
  \/ Tick

Spec == Init /\ [][Next]_vars
-----------------------------------------------------------------------------
\* The tables hold rows under distinct ids below nextId, and a request has
\* passed its handler's check.
TypeOK ==
  /\ nextId \in 1..(MaxEvents + 1)
  /\ DOMAIN qcEvents \subseteq 1..(nextId - 1) /\ qcEvents \in [DOMAIN qcEvents -> Row]
  /\ DOMAIN archived \subseteq 1..(nextId - 1) /\ archived \in [DOMAIN archived -> Row]
  /\ request \in [Reviewer -> [at : {"idle", "checked"}, id : 0..MaxEvents,
                               seen : Status, next : Status]]
  /\ txn \in [phase : {"none", "begun", "copied", "deleted"}, before : Nat,
              moved : SUBSET Event, deleted : SUBSET Event]
  /\ told \in [Event -> Seq(Status)]
  /\ clock \in Nat /\ faults \in Nat

StateOf(e) ==
  IF e \in DOMAIN archived THEN "archived"
  ELSE IF e \in DOMAIN qcEvents THEN qcEvents[e].status
  ELSE "none"

WorkflowEdge ==
  {<<"none", "open">>, <<"open", "acked">>, <<"open", "resolved">>,
   <<"acked", "resolved">>, <<"resolved", "archived">>}

Workflow == INSTANCE Lifecycle
              WITH Thing <- Event, Origin <- "none", Edge <- WorkflowEdge,
                   state <- [e \in Event |-> StateOf(e)]

\* Whatever reviewers do at the same time, an event only moves forward: from
\* open to acked to resolved, the middle one optional, and from resolved to
\* the archive; none is reopened, un-resolved, archived early or deleted.
ImplementsWorkflow == Workflow!Spec

\* An event is in exactly one of the two tables from the day it is recorded:
\* a failure or a crash between copy and delete neither loses nor doubles it.
NothingLost ==
  /\ DOMAIN qcEvents \cup DOMAIN archived = 1..(nextId - 1)
  /\ DOMAIN qcEvents \cap DOMAIN archived = {}

Rank == [s \in Status |-> CASE s = "open" -> 0 [] s = "acked" -> 1 [] s = "resolved" -> 2]

Current(e) == IF e \in DOMAIN archived THEN archived[e].status ELSE qcEvents[e].status

\* Two reviewers are never both told that they acked, or both that they
\* resolved, an event, nor in the wrong order; and what the last one was told
\* is the state of the event unless an answer was lost.
AnswersMatchMoves ==
  \A e \in 1..(nextId - 1) :
    /\ \A k \in 2..Len(told[e]) : Rank[told[e][k - 1]] < Rank[told[e][k]]
    /\ LET last == IF told[e] = <<>> THEN "open" ELSE told[e][Len(told[e])]
       IN  /\ Rank[last] <= Rank[Current(e)]
           /\ faults = 0 => last = Current(e)

\* resolved_at is there in both tables exactly for the resolved events.
ResolvedStamp ==
  /\ \A e \in DOMAIN qcEvents : qcEvents[e].resolved <=> qcEvents[e].status = "resolved"
  /\ \A e \in DOMAIN archived : archived[e].resolved /\ archived[e].status = "resolved"
=============================================================================
