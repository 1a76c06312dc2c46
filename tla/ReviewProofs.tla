---------------------------- MODULE ReviewProofs ----------------------------
(***************************************************************************)
(* What holds of EventReview for any number of reviewers, events, clock    *)
(* readings and failures.                                                  *)
(***************************************************************************)
EXTENDS EventReview, TLAPS

\* A request past the check asks for a move its handler allows.
Checked ==
  \A r \in Reviewer :
    request[r].at = "checked" => Allowed(request[r].seen, request[r].next)

\* While the transaction holds the connection, what it copied is still what
\* its WHERE clause selects.
TxnSees ==
  /\ txn.phase \in {"copied", "deleted"} => txn.moved = Expired
  /\ txn.phase = "deleted" => txn.deleted = Expired

ReviewInv == TypeOK /\ NothingLost /\ Checked /\ TxnSees /\ ResolvedStamp

LEMMA MovedRowType ==
  ASSUME NEW row \in Row, NEW next \in Status
  PROVE  /\ MovedRow(row, next) \in Row
         /\ MovedRow(row, next).status = next
         /\ MovedRow(row, next).resolved = (row.resolved \/ next = "resolved")
<1>1. MovedRow(row, next).status = next
  BY DEF MovedRow, Row
<1>2. MovedRow(row, next).resolved = (row.resolved \/ next = "resolved")
  BY Zenon DEF MovedRow, Row
<1>3. MovedRow(row, next) \in Row
  BY Zenon DEF MovedRow, Row
<1> QED
  BY <1>1, <1>2, <1>3

LEMMA ReviewInit == Init => ReviewInv
<1> SUFFICES ASSUME Init PROVE ReviewInv
  OBVIOUS
<1> USE DEF Init
<1>1. DOMAIN qcEvents = {} /\ DOMAIN archived = {}
  OBVIOUS
<1>2. qcEvents \in [DOMAIN qcEvents -> Row] /\ archived \in [DOMAIN archived -> Row]
  OBVIOUS
<1>3. TypeOK
  BY <1>1, <1>2, ReviewAssumption DEF TypeOK, Idle, NoTxn, Status, Event
<1>4. NothingLost /\ Checked /\ TxnSees /\ ResolvedStamp
  BY <1>1 DEF NothingLost, Checked, TxnSees, ResolvedStamp, Idle, NoTxn
<1> QED
  BY <1>3, <1>4 DEF ReviewInv

\* Steps that leave the tables alone.
LEMMA TablesUnchanged ==
  ASSUME ReviewInv, UNCHANGED <<qcEvents, archived, nextId>>
  PROVE  NothingLost' /\ ResolvedStamp' /\ (txn'.before = txn.before => Expired' = Expired)
BY DEF ReviewInv, NothingLost, ResolvedStamp, Expired

\* The parts of TypeOK about the tables and about the rest.
TablesOK ==
  /\ nextId \in 1..(MaxEvents + 1)
  /\ DOMAIN qcEvents \subseteq 1..(nextId - 1) /\ qcEvents \in [DOMAIN qcEvents -> Row]
  /\ DOMAIN archived \subseteq 1..(nextId - 1) /\ archived \in [DOMAIN archived -> Row]

RestOK ==
  /\ request \in [Reviewer -> [at : {"idle", "checked"}, id : 0..MaxEvents,
                               seen : Status, next : Status]]
  /\ txn \in [phase : {"none", "begun", "copied", "deleted"}, before : Nat,
              moved : SUBSET Event, deleted : SUBSET Event]
  /\ told \in [Event -> Seq(Status)]
  /\ clock \in Nat /\ faults \in Nat

LEMMA TypeParts == TypeOK <=> TablesOK /\ RestOK
BY DEF TypeOK, TablesOK, RestOK

LEMMA IdleType ==
  /\ Idle \in [at : {"idle", "checked"}, id : 0..MaxEvents, seen : Status, next : Status]
  /\ NoTxn \in [phase : {"none", "begun", "copied", "deleted"}, before : Nat,
                moved : SUBSET Event, deleted : SUBSET Event]
  /\ Idle.at = "idle" /\ NoTxn.phase = "none"
BY ReviewAssumption DEF Idle, NoTxn, Status

LEMMA ReviewCreate == ReviewInv /\ Create => ReviewInv'
<1> SUFFICES ASSUME ReviewInv, Create PROVE ReviewInv'
  OBVIOUS
<1> DEFINE new == [status |-> "open", detected |-> clock, resolved |-> FALSE]
<1>1. nextId \in 1..MaxEvents /\ nextId' = nextId + 1 /\ nextId \notin DOMAIN qcEvents
  BY ReviewAssumption DEF ReviewInv, TypeOK, Create
<1>2. new \in Row /\ new.status = "open" /\ new.resolved = FALSE
  BY DEF ReviewInv, TypeOK, Row, Status
<1>3. /\ DOMAIN qcEvents' = DOMAIN qcEvents \cup {nextId}
      /\ \A e \in DOMAIN qcEvents : qcEvents'[e] = qcEvents[e]
      /\ qcEvents'[nextId] = new
      /\ qcEvents' \in [DOMAIN qcEvents' -> Row]
  BY <1>1, <1>2 DEF ReviewInv, TypeOK, Create
<1>4. TypeOK'
  <2>1. nextId' \in 1..(MaxEvents + 1) /\ 1..(nextId' - 1) = 1..(nextId - 1) \cup {nextId}
    BY <1>1, ReviewAssumption
  <2>2. TablesOK'
    BY <1>3, <2>1, TypeParts DEF ReviewInv, TablesOK, Create
  <2>3. RestOK'
    BY TypeParts DEF ReviewInv, RestOK, Create
  <2> QED
    BY <2>2, <2>3 DEF TypeOK, TablesOK, RestOK
<1>5. NothingLost'
  BY <1>1, <1>3, ReviewAssumption DEF ReviewInv, TypeOK, NothingLost, Create
<1>6. Checked' /\ TxnSees'
  BY DEF ReviewInv, Checked, TxnSees, Create, ConnFree
<1>7. ResolvedStamp'
  BY <1>1, <1>2, <1>3 DEF ReviewInv, ResolvedStamp, Create
<1> QED
  BY <1>4, <1>5, <1>6, <1>7 DEF ReviewInv

LEMMA ReviewRead ==
  ASSUME ReviewInv, NEW r \in Reviewer, NEW e \in Event,
         NEW next \in {"acked", "resolved"}, Read(r, e, next)
  PROVE  ReviewInv'
<1>1. qcEvents[e] \in Row /\ qcEvents[e].status \in Status /\ e \in 0..MaxEvents
  BY ReviewAssumption DEF ReviewInv, TypeOK, Read, Row, Event
<1>2. TypeOK'
  BY <1>1 DEF ReviewInv, TypeOK, Read, Status
<1>3. Checked'
  BY <1>1 DEF ReviewInv, TypeOK, Checked, Read
<1>4. TxnSees'
  BY DEF ReviewInv, TxnSees, Read, ConnFree
<1> QED
  BY <1>2, <1>3, <1>4, TablesUnchanged DEF ReviewInv, Read

\* A write by a reviewer, whether or not it is answered.
LEMMA ReviewWrite ==
  ASSUME ReviewInv, NEW r \in Reviewer, request[r].at = "checked", ConnFree,
         Matches(r), qcEvents' = Written(r), UNCHANGED <<archived, nextId, txn>>,
         request' = [request EXCEPT ![r] = Idle],
         told' \in [Event -> Seq(Status)], clock' \in Nat, faults' \in Nat
  PROVE  ReviewInv'
<1> DEFINE e == request[r].id
           next == request[r].next
<1>1. /\ e \in DOMAIN qcEvents /\ next \in Status /\ qcEvents[e] \in Row
      /\ qcEvents[e].status = request[r].seen /\ Allowed(request[r].seen, next)
  BY DEF ReviewInv, TypeOK, Checked, Matches
<1>2. /\ DOMAIN qcEvents' = DOMAIN qcEvents
      /\ qcEvents'[e] = MovedRow(qcEvents[e], next)
      /\ \A d \in DOMAIN qcEvents : d # e => qcEvents'[d] = qcEvents[d]
  BY <1>1 DEF ReviewInv, TypeOK, Written
<1>3. /\ MovedRow(qcEvents[e], next) \in Row
      /\ MovedRow(qcEvents[e], next).status = next
      /\ MovedRow(qcEvents[e], next).resolved = (qcEvents[e].resolved \/ next = "resolved")
  BY <1>1, MovedRowType
<1>4. qcEvents' \in [DOMAIN qcEvents' -> Row]
  BY <1>1, <1>3 DEF ReviewInv, TypeOK, Written
<1>5. TypeOK'
  <2>1. TablesOK'
    BY <1>2, <1>4, TypeParts DEF ReviewInv, TablesOK
  <2>2. RestOK'
    BY IdleType, TypeParts DEF ReviewInv, RestOK
  <2> QED
    BY <2>1, <2>2 DEF TypeOK, TablesOK, RestOK
<1>6. NothingLost'
  BY <1>2 DEF ReviewInv, NothingLost
<1>7. Checked'
  BY DEF ReviewInv, TypeOK, Checked, Idle
<1>8. TxnSees'
  BY DEF ReviewInv, TxnSees, ConnFree
<1>9. ResolvedStamp'
  <2>1. qcEvents'[e].resolved <=> qcEvents'[e].status = "resolved"
    BY <1>1, <1>2, <1>3 DEF ReviewInv, ResolvedStamp, Allowed
  <2> QED
    BY <1>2, <2>1 DEF ReviewInv, ResolvedStamp
<1> QED
  BY <1>5, <1>6, <1>7, <1>8, <1>9 DEF ReviewInv

LEMMA ReviewUpdate ==
  ASSUME ReviewInv, NEW r \in Reviewer, Update(r) \/ UpdateFails(r)
  PROVE  ReviewInv'
<1>1. /\ request[r].id \in 0..MaxEvents /\ request[r].next \in Status
      /\ told \in [Event -> Seq(Status)] /\ clock \in Nat /\ faults \in Nat
  BY DEF ReviewInv, TypeOK
<1>2. told' \in [Event -> Seq(Status)]
  <2>1. ASSUME NEW e \in Event PROVE Append(told[e], request[r].next) \in Seq(Status)
    BY <1>1
  <2>2. CASE told' = [told EXCEPT ![request[r].id] = Append(@, request[r].next)]
    BY <1>1, <2>1, <2>2
  <2> QED
    BY <1>1, <2>2 DEF Update, UpdateFails
<1>3. clock' \in Nat /\ faults' \in Nat
  BY <1>1 DEF Update, UpdateFails, Fault
<1>4. CASE Matches(r) /\ qcEvents' = Written(r)
  BY <1>2, <1>3, <1>4, ReviewWrite DEF Update, UpdateFails
<1>5. CASE qcEvents' = qcEvents
  <2>1. UNCHANGED <<qcEvents, archived, nextId, txn>> /\ request' = [request EXCEPT ![r] = Idle]
    BY <1>5 DEF Update, UpdateFails
  <2>2. TypeOK'
    <3>1. TablesOK'
      BY <2>1, TypeParts DEF ReviewInv, TablesOK
    <3>2. RestOK'
      BY <1>2, <1>3, <2>1, IdleType, TypeParts DEF ReviewInv, RestOK
    <3> QED
      BY <3>1, <3>2 DEF TypeOK, TablesOK, RestOK
  <2>3. Checked'
    BY <2>1, IdleType, TypeParts DEF ReviewInv, RestOK, Checked
  <2>4. TxnSees'
    BY <2>1, <1>5 DEF Update, UpdateFails, ReviewInv, TxnSees, ConnFree
  <2> QED
    BY <2>1, <2>2, <2>3, <2>4, TablesUnchanged DEF ReviewInv
<1> QED
  BY <1>4, <1>5 DEF Update, UpdateFails

LEMMA ReviewBegin ==
  ASSUME ReviewInv, NEW before \in 0..MaxClock, Begin(before)
  PROVE  ReviewInv'
<1>1. txn' = [NoTxn EXCEPT !.phase = "begun", !.before = before] /\ before \in Nat
  BY ReviewAssumption DEF Begin
<1>2. txn' \in [phase : {"none", "begun", "copied", "deleted"}, before : Nat,
                moved : SUBSET Event, deleted : SUBSET Event]
  BY <1>1 DEF NoTxn
<1>3. TypeOK'
  BY <1>2 DEF Begin, ReviewInv, TypeOK
<1>4. Checked' /\ TxnSees'
  BY <1>1 DEF Begin, NoTxn, ReviewInv, Checked, TxnSees
<1> QED
  BY <1>3, <1>4, TablesUnchanged DEF ReviewInv, Begin

LEMMA ReviewCopyDelete == ReviewInv /\ (Copy \/ Delete) => ReviewInv'
<1> SUFFICES ASSUME ReviewInv, Copy \/ Delete PROVE ReviewInv'
  OBVIOUS
<1>1. Expired \subseteq Event /\ txn.phase \in {"none", "begun", "copied", "deleted"}
  BY ReviewAssumption DEF ReviewInv, TypeOK, Expired, Event
<1>2. CASE txn' = NoTxn
  BY <1>2, TablesUnchanged
  DEF Copy, Delete, NoTxn, ReviewInv, TypeOK, Checked, TxnSees
<1>3. CASE txn.phase = "begun" /\ txn' = [txn EXCEPT !.phase = "copied", !.moved = Expired]
  <2>1. txn'.before = txn.before /\ txn'.phase = "copied" /\ txn'.moved = Expired
    BY <1>3 DEF ReviewInv, TypeOK
  <2>2. TypeOK' /\ Checked'
    BY <1>1, <1>3 DEF Copy, Delete, ReviewInv, TypeOK, Checked
  <2> QED
    BY <2>1, <2>2, TablesUnchanged DEF Copy, Delete, ReviewInv, TxnSees
<1>4. CASE txn.phase = "copied" /\ txn' = [txn EXCEPT !.phase = "deleted", !.deleted = Expired]
  <2>1. /\ txn'.before = txn.before /\ txn'.phase = "deleted"
        /\ txn'.moved = Expired /\ txn'.deleted = Expired
    BY <1>4 DEF ReviewInv, TypeOK, TxnSees
  <2>2. TypeOK' /\ Checked'
    BY <1>1, <1>4 DEF Copy, Delete, ReviewInv, TypeOK, Checked
  <2> QED
    BY <2>1, <2>2, TablesUnchanged DEF Copy, Delete, ReviewInv, TxnSees
<1> QED
  BY <1>2, <1>3, <1>4 DEF Copy, Delete

\* What Commit makes of the tables.
LEMMA Committed ==
  ASSUME ReviewInv, Commit
  PROVE  /\ Expired \subseteq DOMAIN qcEvents
         /\ DOMAIN archived' = DOMAIN archived \cup Expired
         /\ \A e \in Expired : archived'[e] = qcEvents[e]
         /\ \A e \in DOMAIN archived \ Expired : archived'[e] = archived[e]
         /\ DOMAIN qcEvents' = DOMAIN qcEvents \ Expired
         /\ \A e \in DOMAIN qcEvents' : qcEvents'[e] = qcEvents[e]
         /\ qcEvents' \in [DOMAIN qcEvents' -> Row]
         /\ archived' \in [DOMAIN archived' -> Row]
<1>1. txn.moved = Expired /\ txn.deleted = Expired
  BY DEF ReviewInv, TxnSees, Commit
<1>2. Expired \subseteq DOMAIN qcEvents
  BY DEF Expired
<1>3. /\ DOMAIN qcEvents' = DOMAIN qcEvents \ Expired
      /\ \A e \in DOMAIN qcEvents' : qcEvents'[e] = qcEvents[e]
  BY <1>1 DEF Commit, Restrict
<1>4. /\ DOMAIN archived' = DOMAIN archived \cup Expired
      /\ \A e \in Expired : archived'[e] = qcEvents[e]
      /\ \A e \in DOMAIN archived \ Expired : archived'[e] = archived[e]
  BY <1>1 DEF Commit, WithCopies
<1>5. qcEvents' \in [DOMAIN qcEvents' -> Row]
  BY <1>1, <1>3 DEF ReviewInv, TypeOK, Commit, Restrict
<1>6. archived' \in [DOMAIN archived' -> Row]
  BY <1>1, <1>2, <1>4 DEF ReviewInv, TypeOK, Commit, WithCopies
<1> QED
  BY <1>2, <1>3, <1>4, <1>5, <1>6

LEMMA ReviewCommit == ReviewInv /\ Commit => ReviewInv'
<1> SUFFICES ASSUME ReviewInv, Commit PROVE ReviewInv'
  OBVIOUS
<1>1. TypeOK'
  BY Committed DEF ReviewInv, TypeOK, Commit, NoTxn
<1>2. NothingLost'
  BY Committed DEF ReviewInv, NothingLost, Commit
<1>3. Checked' /\ TxnSees'
  BY DEF ReviewInv, Checked, TxnSees, Commit, NoTxn
<1>4. ResolvedStamp'
  BY Committed DEF ReviewInv, ResolvedStamp, Expired
<1> QED
  BY <1>1, <1>2, <1>3, <1>4 DEF ReviewInv

LEMMA ReviewRest == ReviewInv /\ (Rollback \/ Crash \/ Tick \/ UNCHANGED vars) => ReviewInv'
<1> SUFFICES ASSUME ReviewInv, Rollback \/ Crash \/ Tick \/ UNCHANGED vars PROVE ReviewInv'
  OBVIOUS
<1>1. UNCHANGED <<qcEvents, archived, nextId>>
  BY DEF Rollback, Crash, Tick, vars
<1>2. CASE Rollback \/ Crash
  <2>1. /\ txn' = NoTxn /\ faults' \in Nat /\ UNCHANGED <<told, clock>>
        /\ request' = request \/ request' = [r \in Reviewer |-> Idle]
    BY <1>2 DEF Rollback, Crash, Fault, ReviewInv, TypeOK
  <2>2. TypeOK'
    <3>1. TablesOK'
      BY <1>1, TypeParts DEF ReviewInv, TablesOK
    <3>2. RestOK'
      BY <2>1, IdleType, TypeParts DEF ReviewInv, RestOK
    <3> QED
      BY <3>1, <3>2 DEF TypeOK, TablesOK, RestOK
  <2>3. Checked' /\ TxnSees'
    BY <2>1, IdleType DEF ReviewInv, Checked, TxnSees
  <2> QED
    BY <1>1, <2>2, <2>3, TablesUnchanged DEF ReviewInv
<1>3. CASE Tick \/ UNCHANGED vars
  BY <1>1, <1>3, TablesUnchanged
  DEF Tick, vars, ReviewInv, TypeOK, Checked, TxnSees
<1> QED
  BY <1>2, <1>3

LEMMA ReviewStep == ReviewInv /\ [Next]_vars => ReviewInv'
BY ReviewCreate, ReviewRead, ReviewUpdate, ReviewBegin, ReviewCopyDelete,
   ReviewCommit, ReviewRest DEF Next

\* The inductive invariant: what the tables and the handlers' checked requests
\* have in common, and that an open transaction's view does not change.
THEOREM ReviewInvariance == Spec => []ReviewInv
BY ReviewInit, ReviewStep, PTL DEF Spec

\* However many reviewers and archiver runs interleave and fail, an event is
\* in exactly one of qc_events and its archive from the day it is recorded.
THEOREM EventsNeverLost == Spec => []NothingLost
<1>1. ReviewInv => NothingLost
  BY DEF ReviewInv
<1> QED
  BY <1>1, ReviewInvariance, PTL

\* The time of resolution is recorded by the move to resolved, by nothing else,
\* and goes with the event into the archive.
THEOREM ResolvedHaveStamps == Spec => []ResolvedStamp
<1>1. ReviewInv => ResolvedStamp
  BY DEF ReviewInv
<1> QED
  BY <1>1, ReviewInvariance, PTL

-----------------------------------------------------------------------------
(* The workflow. *)

\* A step whose effect on the two tables is known moves the states likewise.
LEMMA StatesUnchanged ==
  ASSUME UNCHANGED <<qcEvents, archived>>
  PROVE  [e \in Event |-> StateOf(e)]' = [e \in Event |-> StateOf(e)]
BY DEF StateOf

LEMMA WorkflowStep ==
  ASSUME \A e \in Event :
           StateOf(e)' # StateOf(e) => <<StateOf(e), StateOf(e)'>> \in WorkflowEdge
  PROVE  Workflow!Next
BY DEF Workflow!Next

LEMMA WorkflowCreate == ReviewInv /\ Create => Workflow!Next
<1> SUFFICES ASSUME ReviewInv, Create PROVE Workflow!Next
  OBVIOUS
<1>1. /\ nextId \notin DOMAIN qcEvents \cup DOMAIN archived
      /\ archived' = archived
      /\ DOMAIN qcEvents' = DOMAIN qcEvents \cup {nextId}
      /\ \A e \in DOMAIN qcEvents : qcEvents'[e] = qcEvents[e]
      /\ qcEvents'[nextId].status = "open"
  BY DEF ReviewInv, TypeOK, Create
<1>2. ASSUME NEW e \in Event, StateOf(e)' # StateOf(e)
      PROVE  e = nextId /\ StateOf(e) = "none" /\ StateOf(e)' = "open"
  BY <1>1, <1>2 DEF StateOf
<1> QED
  BY <1>2, WorkflowStep DEF WorkflowEdge

LEMMA WorkflowUpdate ==
  ASSUME ReviewInv, NEW r \in Reviewer, Update(r) \/ UpdateFails(r)
  PROVE  Workflow!Next
<1>1. archived' = archived /\ request[r].at = "checked"
  BY DEF Update, UpdateFails
<1>2. CASE qcEvents' = qcEvents
  BY <1>1, <1>2, WorkflowStep DEF StateOf
<1>3. CASE Matches(r) /\ qcEvents' = Written(r)
  <2> DEFINE d == request[r].id
             next == request[r].next
  <2>1. /\ d \in DOMAIN qcEvents /\ next \in Status /\ qcEvents[d] \in Row
        /\ Allowed(qcEvents[d].status, next)
    BY <1>1, <1>3 DEF ReviewInv, TypeOK, Checked, Matches
  <2>2. /\ DOMAIN qcEvents' = DOMAIN qcEvents
        /\ qcEvents'[d] = MovedRow(qcEvents[d], next)
        /\ \A e \in DOMAIN qcEvents : e # d => qcEvents'[e] = qcEvents[e]
    BY <1>3, <2>1 DEF ReviewInv, TypeOK, Written
  <2>3. qcEvents'[d].status = next
    BY <2>1, <2>2, MovedRowType
  <2>4. ASSUME NEW e \in Event, StateOf(e)' # StateOf(e)
        PROVE  e = d /\ StateOf(e) = qcEvents[d].status /\ StateOf(e)' = next
    BY <1>1, <2>2, <2>3, <2>4 DEF StateOf
  <2> QED
    BY <2>1, <2>4, WorkflowStep DEF WorkflowEdge, Allowed
<1> QED
  BY <1>2, <1>3 DEF Update, UpdateFails

LEMMA WorkflowCommit == ReviewInv /\ Commit => Workflow!Next
<1> SUFFICES ASSUME ReviewInv, Commit PROVE Workflow!Next
  OBVIOUS
<1>1. ASSUME NEW e \in Event, StateOf(e)' # StateOf(e)
      PROVE  StateOf(e) = "resolved" /\ StateOf(e)' = "archived"
  BY <1>1, Committed DEF StateOf, Expired, ReviewInv, NothingLost
<1> QED
  BY <1>1, WorkflowStep DEF WorkflowEdge

LEMMA WorkflowRefined == ReviewInv /\ [Next]_vars => [Workflow!Next]_([e \in Event |-> StateOf(e)])
<1> SUFFICES ASSUME ReviewInv, [Next]_vars
             PROVE  Workflow!Next \/ UNCHANGED [e \in Event |-> StateOf(e)]
  OBVIOUS
<1>1. CASE Create
  BY <1>1, WorkflowCreate
<1>2. ASSUME NEW r \in Reviewer, Update(r) \/ UpdateFails(r)
      PROVE  Workflow!Next
  BY <1>2, WorkflowUpdate
<1>3. CASE Commit
  BY <1>3, WorkflowCommit
<1>4. ASSUME NEW r \in Reviewer, NEW e \in Event, NEW next \in {"acked", "resolved"},
             Read(r, e, next)
      PROVE  UNCHANGED <<qcEvents, archived>>
  BY <1>4 DEF Read
<1>5. ASSUME NEW before \in 0..MaxClock, Begin(before)
      PROVE  UNCHANGED <<qcEvents, archived>>
  BY <1>5 DEF Begin
<1>6. CASE Copy \/ Delete \/ Rollback \/ Crash \/ Tick \/ UNCHANGED vars
  <2>1. UNCHANGED <<qcEvents, archived>>
    BY <1>6 DEF Copy, Delete, Rollback, Crash, Tick, vars
  <2> QED
    BY <2>1, StatesUnchanged
<1> QED
  BY <1>1, <1>2, <1>3, <1>4, <1>5, <1>6, StatesUnchanged DEF Next

\* However many reviewers act at once on what they have read, an event only
\* moves forward, and only a resolved one reaches the archive.
THEOREM EventsOnlyMoveForward == Spec => ImplementsWorkflow
<1>1. Init => Workflow!Init
  BY DEF Init, Workflow!Init, StateOf
<1> QED
  BY <1>1, WorkflowRefined, ReviewInvariance, PTL DEF Spec, ImplementsWorkflow, Workflow!Spec
-----------------------------------------------------------------------------
(* What reviewers are told. *)

\* AnswersMatchMoves of one event.
AnswersOf(e) ==
  /\ \A k \in 2..Len(told[e]) : Rank[told[e][k - 1]] < Rank[told[e][k]]
  /\ LET last == IF told[e] = <<>> THEN "open" ELSE told[e][Len(told[e])]
     IN  /\ Rank[last] <= Rank[Current(e)]
         /\ faults = 0 => last = Current(e)

\* Nobody was told anything of an event that is not there yet.
AnswersInv == \A e \in Event : IF e < nextId THEN AnswersOf(e) ELSE told[e] = <<>>

LEMMA Ranks ==
  /\ Rank["open"] = 0 /\ Rank["acked"] = 1 /\ Rank["resolved"] = 2
  /\ \A s \in Status : Rank[s] \in 0..2
  /\ \A s \in Status, t \in Status : Allowed(s, t) => Rank[s] < Rank[t]
<1>1. Rank["open"] = 0 /\ Rank["acked"] = 1 /\ Rank["resolved"] = 2
  BY DEF Rank, Status
<1> QED
  BY <1>1 DEF Status, Allowed

LEMMA CurrentType ==
  ASSUME ReviewInv, NEW e \in Event, e < nextId
  PROVE  /\ Current(e) \in Status
         /\ (e \in DOMAIN qcEvents) # (e \in DOMAIN archived)
<1>1. nextId \in Nat /\ e \in 1..(nextId - 1)
  BY ReviewAssumption DEF ReviewInv, TypeOK, Event
<1>2. (e \in DOMAIN qcEvents) # (e \in DOMAIN archived)
  BY <1>1 DEF ReviewInv, NothingLost
<1>3. e \in DOMAIN archived => archived[e].status \in Status
  BY DEF ReviewInv, TypeOK, Row
<1>4. e \in DOMAIN qcEvents => qcEvents[e].status \in Status
  BY DEF ReviewInv, TypeOK, Row
<1> QED
  BY <1>2, <1>3, <1>4 DEF Current

LEMMA ToldType ==
  ASSUME ReviewInv, NEW e \in Event
  PROVE  /\ told[e] \in Seq(Status) /\ Len(told[e]) \in Nat
         /\ told[e] # <<>> => told[e][Len(told[e])] \in Status
BY DEF ReviewInv, TypeOK

\* An event that is not answered about stays answered right as long as its
\* state does not fall behind.
LEMMA AnswersKept ==
  ASSUME ReviewInv, NEW e \in Event, e < nextId, AnswersOf(e), told'[e] = told[e],
         \/ Current(e)' = Current(e) /\ (faults' = 0 => faults = 0)
         \/ Current(e)' \in Status /\ Rank[Current(e)] <= Rank[Current(e)'] /\ faults' # 0
  PROVE  AnswersOf(e)'
<1> DEFINE last == IF told[e] = <<>> THEN "open" ELSE told[e][Len(told[e])]
<1>1. last \in Status /\ Current(e) \in Status
  BY ToldType, CurrentType DEF Status
<1>2. last' = last
  OBVIOUS
<1>3. Rank[last] <= Rank[Current(e)]
  BY DEF AnswersOf
<1>4. Rank[last'] <= Rank[Current(e)'] /\ (faults' = 0 => last' = Current(e)')
  BY <1>1, <1>2, <1>3, Ranks DEF AnswersOf
<1> QED
  BY <1>4 DEF AnswersOf

LEMMA AnswersWrite ==
  ASSUME ReviewInv, AnswersInv, NEW r \in Reviewer, Update(r) \/ UpdateFails(r)
  PROVE  AnswersInv'
<1>1. PICK d, next : d = request[r].id /\ next = request[r].next
  OBVIOUS
<1>2. /\ archived' = archived /\ nextId' = nextId /\ request[r].at = "checked"
      /\ faults \in Nat /\ nextId \in Nat /\ next \in Status
      /\ told \in [Event -> Seq(Status)]
  BY <1>1, ReviewAssumption DEF Update, UpdateFails, ReviewInv, TypeOK
<1>3. ASSUME NEW e \in Event, e < nextId, told'[e] = told[e], Current(e)' = Current(e),
             faults' = 0 => faults = 0
      PROVE  AnswersOf(e)'
  BY <1>3, AnswersKept DEF AnswersInv
<1>4. CASE qcEvents' = qcEvents /\ told' = told
  <2>1. \A e \in Event : Current(e)' = Current(e)
    BY <1>2, <1>4 DEF Current
  <2>2. faults' = 0 => faults = 0
    BY <1>2 DEF Update, UpdateFails, Fault
  <2> QED
    BY <1>2, <1>3, <1>4, <2>1, <2>2 DEF AnswersInv
<1>5. CASE Matches(r) /\ qcEvents' = Written(r)
  <2>1. /\ d \in DOMAIN qcEvents /\ qcEvents[d] \in Row
        /\ Allowed(qcEvents[d].status, next) /\ qcEvents[d].status \in Status
    BY <1>1, <1>2, <1>5 DEF ReviewInv, TypeOK, Checked, Matches, Row
  <2>2. /\ d \in Event /\ d < nextId /\ d \notin DOMAIN archived
    BY <1>2, <2>1, ReviewAssumption DEF ReviewInv, TypeOK, NothingLost, Event
  <2>3. /\ DOMAIN qcEvents' = DOMAIN qcEvents
        /\ qcEvents'[d] = MovedRow(qcEvents[d], next)
        /\ \A e \in DOMAIN qcEvents : e # d => qcEvents'[e] = qcEvents[e]
    BY <1>1, <1>5, <2>1 DEF ReviewInv, TypeOK, Written
  <2>4. Current(d) = qcEvents[d].status /\ Current(d)' = next
    BY <1>2, <2>1, <2>2, <2>3, MovedRowType DEF Current
  <2>5. \A e \in Event : e < nextId /\ e # d => Current(e)' = Current(e)
    BY <1>2, <2>3, CurrentType DEF Current
  <2>6. Rank[Current(d)] < Rank[next] /\ Rank[Current(d)] \in 0..2 /\ Rank[next] \in 0..2
    BY <1>2, <2>1, <2>4, Ranks
  <2>7. CASE told' = [told EXCEPT ![d] = Append(@, next)] /\ UNCHANGED faults
    <3>1. PICK s, t : s = told[d] /\ t = told'[d]
      OBVIOUS
    <3>2. s \in Seq(Status) /\ t = Append(s, next)
      BY <1>2, <2>2, <2>7, <3>1
    <3>3. /\ Len(s) \in Nat /\ Len(t) = Len(s) + 1 /\ t[Len(t)] = next /\ t # <<>>
          /\ \A k \in 1..Len(s) : t[k] = s[k] /\ s[k] \in Status
      BY <1>2, <3>2
    <3>4. s # <<>> => Rank[s[Len(s)]] < Rank[next]
      <4>1. Rank[IF s = <<>> THEN "open" ELSE s[Len(s)]] <= Rank[Current(d)]
        BY <2>2, <3>1 DEF AnswersInv, AnswersOf
      <4>2. s # <<>> => Rank[s[Len(s)]] \in 0..2
        BY <3>2, <3>3, Ranks
      <4> QED
        BY <2>6, <4>1, <4>2
    <3>5. \A k \in 2..Len(s) : Rank[s[k - 1]] < Rank[s[k]]
      BY <2>2, <3>1 DEF AnswersInv, AnswersOf
    <3>6. ASSUME NEW k \in 2..Len(t) PROVE Rank[t[k - 1]] < Rank[t[k]]
      <4>1. CASE k \in 2..Len(s)
        <5>1. k \in 1..Len(s) /\ k - 1 \in 1..Len(s)
          BY <3>3, <4>1
        <5> QED
          BY <3>3, <3>5, <4>1, <5>1
      <4>2. CASE k = Len(t)
        <5>1. k - 1 = Len(s) /\ Len(s) \in 1..Len(s) /\ s # <<>>
          BY <3>2, <3>3, <4>2
        <5> QED
          BY <3>3, <3>4, <4>2, <5>1
      <4> QED
        BY <3>3, <4>1, <4>2
    <3>7. AnswersOf(d)'
      BY <2>4, <2>6, <3>1, <3>3, <3>6 DEF AnswersOf
    <3>8. \A e \in Event : e # d => told'[e] = told[e]
      BY <1>2, <2>7
    <3> QED
      BY <1>2, <1>3, <2>2, <2>5, <2>7, <3>7, <3>8 DEF AnswersInv
  <2>8. CASE told' = told /\ faults' = faults + 1
    <3>1. AnswersOf(d)'
      BY <1>2, <2>2, <2>4, <2>6, <2>8, AnswersKept DEF AnswersInv
    <3> QED
      BY <1>2, <1>3, <2>2, <2>5, <2>8, <3>1 DEF AnswersInv
  <2> QED
    BY <1>1, <1>2, <1>5, <2>7, <2>8 DEF Update, UpdateFails, Fault
<1> QED
  BY <1>4, <1>5 DEF Update, UpdateFails

LEMMA AnswersStep == ReviewInv /\ AnswersInv /\ [Next]_vars => AnswersInv'
<1> SUFFICES ASSUME ReviewInv, AnswersInv, [Next]_vars PROVE AnswersInv'
  OBVIOUS
<1>0. nextId \in Nat /\ faults \in Nat
  BY ReviewAssumption DEF ReviewInv, TypeOK
<1>1. ASSUME told' = told, nextId' = nextId, faults' = 0 => faults = 0,
             \A e \in Event : e < nextId => Current(e)' = Current(e)
      PROVE  AnswersInv'
  BY <1>1, AnswersKept DEF AnswersInv
<1>2. CASE Create
  <2>1. PICK n : n = nextId
    OBVIOUS
  <2>2. /\ n \in Event /\ nextId' = n + 1 /\ n \notin DOMAIN qcEvents \cup DOMAIN archived
        /\ archived' = archived /\ told' = told /\ faults' = faults
        /\ \A e \in DOMAIN qcEvents : e \in DOMAIN qcEvents' /\ qcEvents'[e] = qcEvents[e]
        /\ n \in DOMAIN qcEvents' /\ qcEvents'[n].status = "open"
    BY <1>0, <1>2, <2>1, ReviewAssumption DEF ReviewInv, TypeOK, Create, Event
  <2>3. \A e \in Event : e < n => Current(e)' = Current(e)
    BY <2>1, <2>2, CurrentType DEF Current
  <2>4. \A e \in Event : e < n => AnswersOf(e)'
    BY <2>1, <2>2, <2>3, AnswersKept DEF AnswersInv
  <2>5. AnswersOf(n)'
    <3>1. told'[n] = <<>> /\ Current(n)' = "open"
      BY <1>0, <2>1, <2>2 DEF AnswersInv, Current
    <3> QED
      BY <3>1, Ranks DEF AnswersOf
  <2>6. \A e \in Event : e >= n + 1 => told'[e] = <<>>
    BY <1>0, <2>1, <2>2 DEF AnswersInv, Event
  <2> QED
    BY <1>0, <2>1, <2>2, <2>4, <2>5, <2>6 DEF AnswersInv, Event
<1>3. ASSUME NEW r \in Reviewer, Update(r) \/ UpdateFails(r) PROVE AnswersInv'
  BY <1>3, AnswersWrite
<1>4. CASE Commit
  <2>1. \A e \in Event : e < nextId => Current(e)' = Current(e)
    BY Committed, CurrentType, <1>4 DEF Current, ReviewInv, NothingLost
  <2> QED
    BY <1>1, <1>4, <2>1 DEF Commit
<1>5. ASSUME UNCHANGED <<qcEvents, archived, told, nextId>>, faults' = 0 => faults = 0
      PROVE  AnswersInv'
  BY <1>1, <1>5 DEF Current
<1>6. ASSUME NEW r \in Reviewer, NEW e \in Event, NEW next \in {"acked", "resolved"},
             Read(r, e, next)
      PROVE  AnswersInv'
  BY <1>5, <1>6 DEF Read
<1>7. ASSUME NEW before \in 0..MaxClock, Begin(before) PROVE AnswersInv'
  BY <1>5, <1>7 DEF Begin
<1>8. CASE Copy \/ Delete \/ Rollback \/ Crash \/ Tick \/ UNCHANGED vars
  BY <1>0, <1>5, <1>8 DEF Copy, Delete, Rollback, Crash, Tick, Fault, vars
<1> QED
  BY <1>2, <1>3, <1>4, <1>6, <1>7, <1>8 DEF Next

\* No two reviewers are both told that they made the same move, nor in the
\* wrong order, however their reads and writes interleave; and without a
\* failure what the last one was told is the state of the event.
THEOREM AnswersAreMoves == Spec => []AnswersMatchMoves
<1>1. Init => AnswersInv
  BY DEF Init, AnswersInv, Event
<1>2. ReviewInv /\ AnswersInv => AnswersMatchMoves
  <2>1. ReviewInv => 1..(nextId - 1) \subseteq Event /\ nextId \in Nat
    BY ReviewAssumption DEF ReviewInv, TypeOK, Event
  <2> QED
    BY <2>1 DEF AnswersInv, AnswersOf, AnswersMatchMoves
<1> QED
  BY <1>1, <1>2, AnswersStep, ReviewInvariance, PTL DEF Spec
=============================================================================
