------------------------- MODULE MaintenanceWindows -------------------------
(***************************************************************************)
(* Maintenance windows (maintenance_service.go, maintenance_conflict.go):  *)
(* planning with and without the overlap check, extending and closing.     *)
(* The checked operations query first and write afterwards, by id alone.   *)
(***************************************************************************)
EXTENDS Naturals

CONSTANTS
  Station,
  Client,        \* goroutines that serve planning requests
  MaxWindows,    \* bound: rows of the table
  MaxTime,       \* bound: instants windows begin and end at
  MaxFaults      \* bound: failing writes

ASSUME WindowsAssumption == {MaxWindows, MaxTime, MaxFaults} \subseteq Nat

VARIABLES
  windows,      \* the table, by id; rows are never deleted
  call,         \* what each client's goroutine holds
  faults

vars == <<windows, call, faults>>

Id == 1..MaxWindows
Time == 0..MaxTime

\* loose is history: the row was written without a check, or after a check
\* that another write to the station's windows had overtaken.
Row == [state : {"planned", "closed"}, station : Station,
        start : Time, end : Time, loose : BOOLEAN]

NoRow == [state |-> "none"]
NoCall == [op |-> "none"]

\* overtaken is history: another call wrote the station's windows since this
\* one began.
PlanCall == [op : {"plan"}, station : Station, start : Time, end : Time, overtaken : BOOLEAN]
ExtendCall == [op : {"extend", "extend checked"}, id : Id, station : Station,
               seen : Time, end : Time, overtaken : BOOLEAN]

Present(i) == windows[i].state # "none"
Open(i) == windows[i].state = "planned"      \* nothing sets "open"

\* The next row of the table, if the bound leaves one.
Fresh == {i \in Id : ~Present(i) /\ \A k \in 1..(i - 1) : Present(k)}

\* Two windows whose starts lie in one another.
OverlapsByStart(i, start, end) == start <= windows[i].start /\ windows[i].start < end

\* maintenanceOverlapQuery: half-open intervals that intersect.
Overlaps(i, start, end) == windows[i].start < end /\ windows[i].end > start

Conflict(s, start, end, except) ==
  \E i \in Id \ except : Open(i) /\ windows[i].station = s /\ Overlaps(i, start, end)

\* c returns; the other calls on s that are under way have been overtaken.
Wrote(c, s) ==
  call' = [d \in Client |->
             IF d = c THEN NoCall
             ELSE IF call[d] # NoCall /\ call[d].station = s
                  THEN [call[d] EXCEPT !.overtaken = TRUE]
                  ELSE call[d]]
-----------------------------------------------------------------------------
Init ==
  /\ windows = [i \in Id |-> NoRow]
  /\ call = [c \in Client |-> NoCall]
  /\ faults = 0

\* PlanWindow: no check but the interval's.
Plan(c, s, start, end) ==
  /\ call[c] = NoCall /\ start < end
  /\ \E i \in Fresh :
       windows' = [windows EXCEPT ![i] =
         [state |-> "planned", station |-> s, start |-> start, end |-> end, loose |-> TRUE]]
  /\ Wrote(c, s)
  /\ UNCHANGED faults

\* PlanWindowChecked up to its verdict; a refused call changes nothing.
CheckPlan(c, s, start, end) ==
  /\ call[c] = NoCall /\ start < end
  /\ ~Conflict(s, start, end, {})
  /\ call' = [call EXCEPT ![c] =
       [op |-> "plan", station |-> s, start |-> start, end |-> end, overtaken |-> FALSE]]
  /\ UNCHANGED <<windows, faults>>

InsertPlanned(c) ==
  /\ call[c].op = "plan"
  /\ \E i \in Fresh :
       windows' = [windows EXCEPT ![i] =
         [state |-> "planned", station |-> call[c].station, start |-> call[c].start,
          end |-> call[c].end, loose |-> call[c].overtaken]]
  /\ Wrote(c, call[c].station)
  /\ UNCHANGED faults

\* Extend up to the comparison with the end it has read.
ReadToExtend(c, i, end) ==
  /\ call[c] = NoCall /\ Open(i) /\ end > windows[i].end
  /\ call' = [call EXCEPT ![c] =
       [op |-> "extend", id |-> i, station |-> windows[i].station,
        seen |-> windows[i].end, end |-> end, overtaken |-> FALSE]]
  /\ UNCHANGED <<windows, faults>>

\* The tail that the extension adds is free of other windows.
CheckTail(c) ==
  /\ call[c].op = "extend"
  /\ call' = [call EXCEPT ![c] =
       IF Conflict(@.station, @.seen, @.end, {@.id}) THEN NoCall
       ELSE [@ EXCEPT !.op = "extend checked"]]
  /\ UNCHANGED <<windows, faults>>

\* The whole row is written back as it was read.
ExtendedRow(row, end, loose) ==
  [row EXCEPT !.state = "planned", !.end = end, !.loose = @ \/ loose]

\* UPDATE ... SET end_ts = ? WHERE id = ?
Extended(row, end, loose) == [row EXCEPT !.end = end, !.loose = @ \/ loose]

Extend(c) ==
  /\ call[c].op = "extend checked"
  /\ windows' = [windows EXCEPT ![call[c].id] = Extended(@, call[c].end, call[c].overtaken)]
  /\ Wrote(c, call[c].station)
  /\ UNCHANGED faults

\* Close reads the row for its answer only and closes it in any case.
Close(c, i) ==
  /\ call[c] = NoCall /\ Present(i)
  /\ windows' = [windows EXCEPT ![i].state = "closed"]
  /\ Wrote(c, windows[i].station)
  /\ UNCHANGED faults

\* A query or write fails, or the process dies: the call has no effect.
Fails(c) ==
  /\ call[c] # NoCall
  /\ faults < MaxFaults /\ faults' = faults + 1
  /\ call' = [call EXCEPT ![c] = NoCall]
  /\ UNCHANGED windows

Next ==
  \E c \in Client :
    \/ \E s \in Station, start, end \in Time : Plan(c, s, start, end) \/ CheckPlan(c, s, start, end)
    \/ InsertPlanned(c)
    \/ \E i \in Id : Close(c, i) \/ \E end \in Time : ReadToExtend(c, i, end)
    \/ CheckTail(c) \/ Extend(c)
    \/ Fails(c)

Spec == Init /\ [][Next]_vars
-----------------------------------------------------------------------------
\* Rows and calls keep their types, and a window ends after it starts.
TypeOK ==
  /\ windows \in [Id -> {NoRow} \cup Row]
  /\ \A i \in Id : Present(i) => windows[i].start < windows[i].end
  /\ call \in [Client -> {NoCall} \cup PlanCall \cup ExtendCall]
  /\ faults \in Nat

\* Windows of a station that are not closed are disjoint, unless one of them
\* was planned without the check or written after a check that another write
\* had overtaken.  Extend's check of the added tail alone suffices for that.
\* Rows and calls keep their types.
DisjointUnlessOvertaken ==
  /\ TypeOK
  /\ \A i, k \in Id :
       (/\ i # k /\ Open(i) /\ Open(k) /\ windows[i].station = windows[k].station
        /\ Overlaps(i, windows[k].start, windows[k].end))
         => windows[i].loose \/ windows[k].loose

States == INSTANCE Lifecycle
            WITH Thing <- Id, Origin <- "none",
                 Edge <- {<<"none", "planned">>, <<"planned", "closed">>},
                 state <- [i \in Id |-> windows[i].state]

\* A closed window stays closed, also if an Extend that read it before comes
\* late, so that alerts of the station are not silenced again; and only an Extend
\* that was overtaken can move the end of a window back: it "never shrinks it"
\* (maintenance_conflict.go:60) when it is alone.
WindowsMoveForward ==
  /\ States!Spec
  /\ [][\A i \in Id :
         Present(i) /\ windows'[i].end < windows[i].end => windows'[i].loose]_vars
=============================================================================
