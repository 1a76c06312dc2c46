---------------------------- MODULE WindowsProofs ----------------------------
(***************************************************************************)
(* What holds of MaintenanceWindows for any number of stations, clients,   *)
(* rows, instants and failures.                                            *)
(***************************************************************************)
EXTENDS MaintenanceWindows, TLAPS

\* DisjointUnlessOvertaken without the types.
Disjoint ==
  \A i, k \in Id :
    (/\ i # k /\ Open(i) /\ Open(k) /\ windows[i].station = windows[k].station
     /\ Overlaps(i, windows[k].start, windows[k].end))
      => windows[i].loose \/ windows[k].loose

\* What a planning call has found out still holds unless it was overtaken.
PlansHold ==
  \A c \in Client : call[c].op = "plan" =>
    /\ call[c].start < call[c].end
    /\ call[c].overtaken \/ ~Conflict(call[c].station, call[c].start, call[c].end, {})

\* So does what an extending call has read; that its row is there, with its
\* station and its start, holds in any case.
ExtensionsHold ==
  \A c \in Client : call[c].op \in {"extend", "extend checked"} =>
    /\ Present(call[c].id) /\ windows[call[c].id].station = call[c].station
    /\ windows[call[c].id].start < call[c].end
    /\ \/ call[c].overtaken
       \/ /\ Open(call[c].id) /\ windows[call[c].id].end = call[c].seen
          /\ call[c].seen < call[c].end
          /\ call[c].op = "extend checked" =>
               ~Conflict(call[c].station, call[c].seen, call[c].end, {call[c].id})

WindowsInv == TypeOK /\ Disjoint /\ PlansHold /\ ExtensionsHold
-----------------------------------------------------------------------------
LEMMA RowParts ==
  ASSUME TypeOK, NEW i \in Id
  PROVE  /\ windows[i] \in {NoRow} \cup Row /\ NoRow.state = "none"
         /\ Present(i) <=> windows[i] \in Row
         /\ Present(i) => /\ windows[i].start \in Time /\ windows[i].end \in Time
                          /\ windows[i].start < windows[i].end
         /\ Open(i) => Present(i)
BY DEF TypeOK, NoRow, Row, Present, Open

LEMMA CallParts ==
  ASSUME TypeOK, NEW c \in Client
  PROVE  /\ call[c] \in {NoCall} \cup PlanCall \cup ExtendCall /\ NoCall.op = "none"
         /\ call[c].op = "plan" <=> call[c] \in PlanCall
         /\ call[c].op \in {"extend", "extend checked"} <=> call[c] \in ExtendCall
         /\ call[c] # NoCall <=> call[c] \in PlanCall \cup ExtendCall
<1>1. call[c] \in {NoCall} \cup PlanCall \cup ExtendCall
  BY DEF TypeOK
<1>2. NoCall.op = "none" /\ \A r \in PlanCall : r.op = "plan"
  BY DEF NoCall, PlanCall
<1>3. \A r \in ExtendCall : r.op \in {"extend", "extend checked"}
  BY DEF ExtendCall
<1> QED
  BY <1>1, <1>2, <1>3

LEMMA TimeNat == Time \subseteq Nat
BY WindowsAssumption DEF Time

LEMMA WindowsInit == Init => WindowsInv
<1> SUFFICES ASSUME Init PROVE WindowsInv
  OBVIOUS
<1>1. TypeOK
  BY DEF Init, TypeOK, NoRow, Present
<1>2. Disjoint /\ PlansHold /\ ExtensionsHold
  BY DEF Init, Disjoint, PlansHold, ExtensionsHold, NoRow, NoCall, Open
<1> QED
  BY <1>1, <1>2 DEF WindowsInv

\* A write of one row of a station: it keeps the invariant when the row's start
\* and station stay and the row is disjoint from the others or loose.
LEMMA WindowsWrite ==
  ASSUME WindowsInv, NEW c \in Client, NEW s \in Station, NEW i \in Id, NEW row \in Row,
         windows' = [windows EXCEPT ![i] = row], Wrote(c, s), faults' = faults,
         row.station = s, row.start < row.end,
         Present(i) => windows[i].station = s /\ windows[i].start = row.start,
         (row.state = "planned" /\ ~row.loose) =>
           \A k \in Id \ {i} :
             (Open(k) /\ windows[k].station = s /\ ~windows[k].loose) =>
               ~Overlaps(k, row.start, row.end)
  PROVE  WindowsInv'
<1>1. /\ windows'[i] = row /\ windows' \in [Id -> {NoRow} \cup Row] /\ Present(i)'
      /\ \A k \in Id \ {i} : windows'[k] = windows[k]
  BY DEF WindowsInv, TypeOK, Present, Row
<1>2. /\ call'[c] = NoCall /\ call' \in [Client -> {NoCall} \cup PlanCall \cup ExtendCall]
      /\ \A d \in Client \ {c} :
           \/ call'[d] = call[d] /\ (call[d] = NoCall \/ call[d].station # s)
           \/ /\ call[d] # NoCall /\ call[d].station = s
              /\ call'[d] = [call[d] EXCEPT !.overtaken = TRUE]
  <2>1. \A d \in Client : call[d] # NoCall =>
          [call[d] EXCEPT !.overtaken = TRUE] \in PlanCall \cup ExtendCall
    BY CallParts DEF WindowsInv, PlanCall, ExtendCall
  <2> QED
    BY <2>1, CallParts DEF WindowsInv, Wrote
<1>3. TypeOK'
  <2>1. \A k \in Id : Present(k)' => windows'[k].start < windows'[k].end
    BY <1>1 DEF WindowsInv, TypeOK, Present
  <2> QED
    BY <1>1, <1>2, <2>1 DEF WindowsInv, TypeOK, PlanCall, ExtendCall, NoRow, Row
<1>4. Disjoint'
  <2>1. \A k \in Id \ {i} : Open(k)' <=> Open(k)
    BY <1>1 DEF Open
  <2>2. \A k, l \in Id \ {i} : Overlaps(k, windows[l].start, windows[l].end)'
                               <=> Overlaps(k, windows[l].start, windows[l].end)
    BY <1>1 DEF Overlaps
  <2>3. ASSUME NEW k \in Id \ {i}, Open(i)', Open(k)', windows'[k].station = s,
               Overlaps(i, windows[k].start, windows[k].end)'
               \/ Overlaps(k, windows[i].start, windows[i].end)'
        PROVE  row.loose \/ windows[k].loose
    <3>1. row.state = "planned" /\ Open(k) /\ windows[k].station = s
      BY <1>1, <2>1, <2>3 DEF Open
    <3>2. Overlaps(k, row.start, row.end)
      <4>1. Present(k) /\ {windows[k].start, windows[k].end, row.start, row.end} \subseteq Nat
        BY <3>1, RowParts, TimeNat DEF WindowsInv, Row
      <4> QED
        BY <1>1, <2>3, <4>1 DEF Overlaps
    <3> QED
      BY <3>1, <3>2
  <2> QED
    BY <1>1, <2>1, <2>2, <2>3 DEF WindowsInv, Disjoint
<1>5. PlansHold'
  <2> SUFFICES ASSUME NEW d \in Client, call'[d].op = "plan"
               PROVE  /\ call'[d].start < call'[d].end
                      /\ \/ call'[d].overtaken
                         \/ ~Conflict(call[d].station, call[d].start, call[d].end, {})'
    BY DEF PlansHold
  <2>1. d # c
    BY <1>2 DEF NoCall
  <2>2. CASE call'[d] = call[d] /\ (call[d] = NoCall \/ call[d].station # s)
    <3>1. call[d].station # s
      BY <2>2 DEF NoCall
    <3>2. Conflict(call[d].station, call[d].start, call[d].end, {})'
            <=> Conflict(call[d].station, call[d].start, call[d].end, {})
      BY <1>1, <2>2, <3>1 DEF Conflict, Open, Overlaps, Present, WindowsInv
    <3> QED
      BY <2>2, <3>2 DEF WindowsInv, PlansHold
  <2>3. CASE call[d] # NoCall /\ call[d].station = s
             /\ call'[d] = [call[d] EXCEPT !.overtaken = TRUE]
    BY <2>3, CallParts DEF WindowsInv, PlansHold, PlanCall, ExtendCall
  <2> QED
    BY <1>2, <2>1, <2>2, <2>3
<1>6. ExtensionsHold'
  <2> SUFFICES ASSUME NEW d \in Client, call'[d].op \in {"extend", "extend checked"}
               PROVE  ( /\ Present(call[d].id) /\ windows[call[d].id].station = call[d].station
                        /\ windows[call[d].id].start < call[d].end
                        /\ \/ call[d].overtaken
                           \/ /\ Open(call[d].id) /\ windows[call[d].id].end = call[d].seen
                              /\ call[d].seen < call[d].end
                              /\ call[d].op = "extend checked" =>
                                   ~Conflict(call[d].station, call[d].seen, call[d].end,
                                             {call[d].id}) )'
    BY DEF ExtensionsHold
  <2>1. d # c
    <3>1. NoCall.op = "none"
      BY DEF NoCall
    <3> QED
      BY <1>2, <3>1
  <2>2. CASE call'[d] = call[d] /\ (call[d] = NoCall \/ call[d].station # s)
    <3>1. call[d].station # s /\ call[d].id \in Id
      BY <2>2, CallParts DEF NoCall, WindowsInv, ExtendCall
    <3>2. call[d].id # i
      BY <2>2, <3>1 DEF WindowsInv, ExtensionsHold
    <3>3. Conflict(call[d].station, call[d].seen, call[d].end, {call[d].id})'
            <=> Conflict(call[d].station, call[d].seen, call[d].end, {call[d].id})
      BY <1>1, <2>2, <3>1 DEF Conflict, Open, Overlaps, Present, WindowsInv
    <3> QED
      BY <1>1, <2>2, <3>1, <3>2, <3>3 DEF WindowsInv, ExtensionsHold, Present, Open
  <2>3. CASE call[d] # NoCall /\ call[d].station = s
             /\ call'[d] = [call[d] EXCEPT !.overtaken = TRUE]
    <3>1. call[d] \in ExtendCall /\ call[d].op \in {"extend", "extend checked"}
      BY <2>3, CallParts DEF WindowsInv, PlanCall, ExtendCall
    <3>2. /\ call'[d].id = call[d].id /\ call[d].id \in Id /\ call'[d].overtaken
          /\ call'[d].station = s /\ call'[d].end = call[d].end
      BY <2>3, <3>1 DEF ExtendCall
    <3>3. /\ Present(call[d].id) /\ windows[call[d].id].station = s
          /\ windows[call[d].id].start < call[d].end
      BY <2>3, <3>1 DEF WindowsInv, ExtensionsHold
    <3> QED
      BY <1>1, <3>2, <3>3 DEF Present
  <2> QED
    BY <1>2, <2>1, <2>2, <2>3
<1> QED
  BY <1>3, <1>4, <1>5, <1>6 DEF WindowsInv

\* The next row is one that is not there yet.
LEMMA WindowsInsert ==
  ASSUME WindowsInv, NEW c \in Client, NEW s \in Station, NEW i \in Fresh, NEW row \in Row,
         windows' = [windows EXCEPT ![i] = row], Wrote(c, s), UNCHANGED faults,
         row.station = s, row.start < row.end,
         row.loose \/ ~Conflict(s, row.start, row.end, {})
  PROVE  WindowsInv'
<1>1. i \in Id /\ ~Present(i)
  BY DEF Fresh
<1>2. (row.state = "planned" /\ ~row.loose) =>
        \A k \in Id \ {i} :
          (Open(k) /\ windows[k].station = s /\ ~windows[k].loose) => ~Overlaps(k, row.start, row.end)
  BY DEF Conflict
<1> QED
  BY <1>1, <1>2, WindowsWrite

LEMMA WindowsPlan ==
  ASSUME WindowsInv, NEW c \in Client, NEW s \in Station, NEW start \in Time, NEW end \in Time,
         Plan(c, s, start, end)
  PROVE  WindowsInv'
<1> DEFINE row == [state |-> "planned", station |-> s, start |-> start, end |-> end, loose |-> TRUE]
<1>1. PICK i \in Fresh : windows' = [windows EXCEPT ![i] = row]
  BY DEF Plan
<1>2. /\ row \in Row /\ row.station = s /\ row.start < row.end /\ row.loose
      /\ Wrote(c, s) /\ UNCHANGED faults
  BY DEF Plan, Row
<1> HIDE DEF row
<1> QED
  BY <1>1, <1>2, WindowsInsert

LEMMA WindowsInsertPlanned ==
  ASSUME WindowsInv, NEW c \in Client, InsertPlanned(c)
  PROVE  WindowsInv'
<1> DEFINE s == call[c].station
           row == [state |-> "planned", station |-> s, start |-> call[c].start,
                   end |-> call[c].end, loose |-> call[c].overtaken]
<1>1. PICK i \in Fresh : windows' = [windows EXCEPT ![i] = row]
  BY DEF InsertPlanned
<1>2. /\ call[c] \in PlanCall /\ call[c].start < call[c].end
      /\ call[c].overtaken \/ ~Conflict(s, call[c].start, call[c].end, {})
      /\ Wrote(c, s) /\ UNCHANGED faults
  BY CallParts DEF InsertPlanned, WindowsInv, PlansHold
<1>3. row \in Row /\ s \in Station
  BY <1>2 DEF Row, PlanCall
<1>4. /\ row.station = s /\ row.start = call[c].start /\ row.end = call[c].end
      /\ row.loose = call[c].overtaken
  OBVIOUS
<1> HIDE DEF row, s
<1> QED
  BY <1>1, <1>2, <1>3, <1>4, WindowsInsert

\* An extension is disjoint from another window when the old row was and the
\* tail it adds is.
LEMMA TailSuffices ==
  ASSUME NEW start \in Nat, NEW seen \in Nat, NEW end \in Nat,
         NEW from \in Nat, NEW to \in Nat, from < to,
         ~(from < seen /\ to > start), ~(from < end /\ to > seen)
  PROVE  ~(from < end /\ to > start)
OBVIOUS

LEMMA WindowsExtend ==
  ASSUME WindowsInv, NEW c \in Client, Extend(c)
  PROVE  WindowsInv'
<1> DEFINE i == call[c].id
           s == call[c].station
           row == Extended(windows[i], call[c].end, call[c].overtaken)
<1>1. /\ call[c].op = "extend checked" /\ call[c] \in ExtendCall
      /\ windows' = [windows EXCEPT ![i] = row] /\ Wrote(c, s) /\ UNCHANGED faults
  BY CallParts DEF Extend, WindowsInv
<1>2. /\ i \in Id /\ s \in Station /\ call[c].seen \in Time /\ call[c].end \in Time
      /\ call[c].overtaken \in BOOLEAN
  BY <1>1 DEF ExtendCall
<1>3. /\ Present(i) /\ windows[i].station = s /\ windows[i].start < call[c].end
      /\ \/ call[c].overtaken
         \/ /\ Open(i) /\ windows[i].end = call[c].seen
            /\ ~Conflict(s, call[c].seen, call[c].end, {i})
  BY <1>1 DEF WindowsInv, ExtensionsHold
<1>4. windows[i] \in Row
  BY <1>2, <1>3, RowParts DEF WindowsInv
<1>5. /\ row \in Row /\ row.station = s /\ row.start = windows[i].start /\ row.end = call[c].end
      /\ row.state = windows[i].state /\ row.loose = (windows[i].loose \/ call[c].overtaken)
  BY <1>2, <1>3, <1>4 DEF Extended, Row
<1>6. ASSUME ~row.loose, NEW k \in Id \ {i}, Open(k), windows[k].station = s, ~windows[k].loose
      PROVE  ~Overlaps(k, row.start, row.end)
  <2>1. /\ ~windows[i].loose /\ ~call[c].overtaken /\ Open(i) /\ windows[i].end = call[c].seen
        /\ ~Overlaps(k, call[c].seen, call[c].end)
    BY <1>3, <1>5, <1>6 DEF Conflict
  <2>2. ~Overlaps(k, windows[i].start, windows[i].end)
    BY <1>2, <1>3, <1>6, <2>1 DEF WindowsInv, Disjoint
  <2>3. /\ windows[k].start < windows[k].end
        /\ {windows[k].start, windows[k].end, windows[i].start, call[c].seen, call[c].end} \subseteq Nat
    BY <1>2, <1>3, <1>6, RowParts, TimeNat DEF WindowsInv
  <2> HIDE DEF row, i
  <2> QED
    BY <1>5, <2>1, <2>2, <2>3, TailSuffices DEF Overlaps
<1> HIDE DEF row, i, s
<1> QED
  BY <1>1, <1>2, <1>3, <1>5, <1>6, WindowsWrite

LEMMA WindowsClose ==
  ASSUME WindowsInv, NEW c \in Client, NEW i \in Id, Close(c, i)
  PROVE  WindowsInv'
<1> DEFINE row == [windows[i] EXCEPT !.state = "closed"]
           s == windows[i].station
<1>1. /\ Present(i) /\ windows[i] \in Row /\ windows[i].start < windows[i].end
      /\ windows' = [windows EXCEPT ![i] = row] /\ Wrote(c, s) /\ UNCHANGED faults
  BY RowParts DEF Close, WindowsInv
<1>2. /\ row \in Row /\ s \in Station /\ row.station = s /\ row.state = "closed"
      /\ row.start = windows[i].start /\ row.end = windows[i].end
  BY <1>1 DEF Row
<1> HIDE DEF row
<1> QED
  BY <1>1, <1>2, WindowsWrite

\* A step of one call that writes nothing: what holds of the others stays.
LEMMA WindowsCall ==
  ASSUME WindowsInv, NEW c \in Client, NEW r \in {NoCall} \cup PlanCall \cup ExtendCall,
         call' = [call EXCEPT ![c] = r], windows' = windows, faults' \in Nat,
         r.op = "plan" =>
           r.start < r.end /\ (r.overtaken \/ ~Conflict(r.station, r.start, r.end, {})),
         r.op \in {"extend", "extend checked"} =>
           /\ Present(r.id) /\ windows[r.id].station = r.station /\ windows[r.id].start < r.end
           /\ \/ r.overtaken
              \/ /\ Open(r.id) /\ windows[r.id].end = r.seen /\ r.seen < r.end
                 /\ r.op = "extend checked" => ~Conflict(r.station, r.seen, r.end, {r.id})
  PROVE  WindowsInv'
<1>1. call'[c] = r /\ \A d \in Client \ {c} : call'[d] = call[d]
  BY DEF WindowsInv, TypeOK
<1>2. TypeOK' /\ Disjoint'
  BY DEF WindowsInv, TypeOK, Disjoint, Present, Open, Overlaps
<1>3. \A d \in Client : \/ d = c /\ call'[d] = r
                        \/ call'[d] = call[d]
  BY <1>1
<1>4. PlansHold'
  <2> SUFFICES ASSUME NEW d \in Client, (call[d].op = "plan")'
               PROVE  ( /\ call[d].start < call[d].end
                        /\ \/ call[d].overtaken
                           \/ ~Conflict(call[d].station, call[d].start, call[d].end, {}) )'
    BY DEF PlansHold
  <2>1. CASE call'[d] = r
    BY <2>1 DEF Conflict, Open, Overlaps
  <2>2. CASE call'[d] = call[d]
    BY <2>2 DEF WindowsInv, PlansHold, Conflict, Open, Overlaps
  <2> QED
    BY <1>3, <2>1, <2>2
<1>5. ExtensionsHold'
  <2> SUFFICES ASSUME NEW d \in Client, (call[d].op \in {"extend", "extend checked"})'
               PROVE  ( /\ Present(call[d].id) /\ windows[call[d].id].station = call[d].station
                        /\ windows[call[d].id].start < call[d].end
                        /\ \/ call[d].overtaken
                           \/ /\ Open(call[d].id) /\ windows[call[d].id].end = call[d].seen
                              /\ call[d].seen < call[d].end
                              /\ call[d].op = "extend checked" =>
                                   ~Conflict(call[d].station, call[d].seen, call[d].end,
                                             {call[d].id}) )'
    BY DEF ExtensionsHold
  <2>1. CASE call'[d] = r
    BY <2>1 DEF Conflict, Open, Overlaps, Present
  <2>2. CASE call'[d] = call[d]
    <3>1. /\ Conflict(call[d].station, call[d].seen, call[d].end, {call[d].id})'
               <=> Conflict(call[d].station, call[d].seen, call[d].end, {call[d].id})
          /\ Open(call[d].id)' <=> Open(call[d].id)
          /\ Present(call[d].id)' <=> Present(call[d].id)
      BY <2>2 DEF Conflict, Open, Overlaps, Present
    <3> QED
      BY <2>2, <3>1 DEF WindowsInv, ExtensionsHold
  <2> QED
    BY <1>3, <2>1, <2>2
<1> QED
  BY <1>2, <1>4, <1>5 DEF WindowsInv

LEMMA WindowsCheckPlan ==
  ASSUME WindowsInv, NEW c \in Client, NEW s \in Station, NEW start \in Time, NEW end \in Time,
         CheckPlan(c, s, start, end)
  PROVE  WindowsInv'
<1> DEFINE r == [op |-> "plan", station |-> s, start |-> start, end |-> end, overtaken |-> FALSE]
<1>1. r \in PlanCall /\ r.op = "plan" /\ r.start < r.end /\ ~Conflict(r.station, r.start, r.end, {})
  BY DEF CheckPlan, PlanCall
<1>2. call' = [call EXCEPT ![c] = r] /\ windows' = windows /\ faults' \in Nat
  BY DEF CheckPlan, WindowsInv, TypeOK
<1> HIDE DEF r
<1> QED
  BY <1>1, <1>2, WindowsCall

LEMMA WindowsReadToExtend ==
  ASSUME WindowsInv, NEW c \in Client, NEW i \in Id, NEW end \in Time, ReadToExtend(c, i, end)
  PROVE  WindowsInv'
<1> DEFINE r == [op |-> "extend", id |-> i, station |-> windows[i].station,
                 seen |-> windows[i].end, end |-> end, overtaken |-> FALSE]
<1>1. /\ Open(i) /\ Present(i) /\ windows[i] \in Row /\ windows[i].start < windows[i].end
      /\ windows[i].end < end /\ {windows[i].start, windows[i].end, end} \subseteq Nat
  BY RowParts, TimeNat DEF ReadToExtend, WindowsInv
<1>2. /\ r \in ExtendCall /\ r.op = "extend" /\ r.id = i /\ r.station = windows[i].station
      /\ r.seen = windows[i].end /\ r.end = end /\ r.overtaken = FALSE
  BY <1>1 DEF ExtendCall, Row
<1>3. call' = [call EXCEPT ![c] = r] /\ windows' = windows /\ faults' \in Nat
  BY DEF ReadToExtend, WindowsInv, TypeOK
<1>4. windows[i].start < end
  BY <1>1
<1> HIDE DEF r
<1> QED
  BY <1>1, <1>2, <1>3, <1>4, WindowsCall

LEMMA WindowsCheckTail ==
  ASSUME WindowsInv, NEW c \in Client, CheckTail(c)
  PROVE  WindowsInv'
<1> DEFINE busy == Conflict(call[c].station, call[c].seen, call[c].end, {call[c].id})
           checked == [call[c] EXCEPT !.op = "extend checked"]
<1>1. /\ call[c].op = "extend" /\ call[c] \in ExtendCall /\ windows' = windows /\ faults' \in Nat
      /\ call' = [call EXCEPT ![c] = IF busy THEN NoCall ELSE checked]
  BY CallParts DEF CheckTail, WindowsInv, TypeOK
<1>2. CASE busy
  BY <1>1, <1>2, WindowsCall DEF NoCall
<1>3. CASE ~busy
  <2>1. /\ checked \in ExtendCall /\ checked.op = "extend checked" /\ checked.id = call[c].id
        /\ checked.station = call[c].station /\ checked.seen = call[c].seen
        /\ checked.end = call[c].end /\ checked.overtaken = call[c].overtaken
    BY <1>1 DEF ExtendCall
  <2>2. call' = [call EXCEPT ![c] = checked]
    BY <1>1, <1>3
  <2>3. /\ Present(call[c].id) /\ windows[call[c].id].station = call[c].station
        /\ windows[call[c].id].start < call[c].end
        /\ \/ call[c].overtaken
           \/ /\ Open(call[c].id) /\ windows[call[c].id].end = call[c].seen
              /\ call[c].seen < call[c].end
    BY <1>1 DEF WindowsInv, ExtensionsHold
  <2>4. ~Conflict(checked.station, checked.seen, checked.end, {checked.id})
    BY <1>3, <2>1
  <2> HIDE DEF checked, busy
  <2> QED
    BY <1>1, <2>1, <2>2, <2>3, <2>4, WindowsCall
<1> QED
  BY <1>2, <1>3

LEMMA WindowsFails ==
  ASSUME WindowsInv, NEW c \in Client, Fails(c)
  PROVE  WindowsInv'
<1>1. call' = [call EXCEPT ![c] = NoCall] /\ windows' = windows /\ faults' \in Nat
  BY DEF Fails, WindowsInv, TypeOK
<1> QED
  BY <1>1, WindowsCall DEF NoCall

LEMMA WindowsStep == WindowsInv /\ [Next]_vars => WindowsInv'
<1> SUFFICES ASSUME WindowsInv, [Next]_vars PROVE WindowsInv'
  OBVIOUS
<1>1. ASSUME UNCHANGED vars PROVE WindowsInv'
  BY <1>1 DEF vars, WindowsInv, TypeOK, Disjoint, PlansHold, ExtensionsHold, Conflict,
              Present, Open, Overlaps
<1> QED
  BY <1>1, WindowsPlan, WindowsCheckPlan, WindowsInsertPlanned, WindowsReadToExtend,
     WindowsCheckTail, WindowsExtend, WindowsClose, WindowsFails DEF Next

\* Every state keeps the invariant: what a planning or extending call has found
\* out of the table holds until it writes, or it was overtaken.
THEOREM WindowsInvariance == Spec => []WindowsInv
BY WindowsInit, WindowsStep, PTL DEF Spec

\* Open windows of a station are disjoint unless one was written without a check
\* that still held (PlanWindow, PlanWindowChecked, Extend, Close).
THEOREM WindowsDisjoint == Spec => []DisjointUnlessOvertaken
<1>1. WindowsInv => DisjointUnlessOvertaken
  BY DEF WindowsInv, Disjoint, DisjointUnlessOvertaken
<1> QED
  BY <1>1, WindowsInvariance, PTL
-----------------------------------------------------------------------------
\* What a step does to one row: nothing, or it is planned, closed or extended.
LEMMA RowMoves ==
  ASSUME WindowsInv, [Next]_vars, NEW i \in Id
  PROVE  \/ windows'[i] = windows[i]
         \/ ~Present(i) /\ windows'[i].state = "planned"
         \/ Present(i) /\ windows'[i].state = "closed" /\ windows'[i].end = windows[i].end
         \/ /\ Present(i) /\ windows'[i].state = windows[i].state
            /\ windows'[i].loose \/ windows[i].end < windows'[i].end
<1> DEFINE Goal == \/ windows'[i] = windows[i]
                   \/ ~Present(i) /\ windows'[i].state = "planned"
                   \/ /\ Present(i) /\ windows'[i].state = "closed"
                      /\ windows'[i].end = windows[i].end
                   \/ /\ Present(i) /\ windows'[i].state = windows[i].state
                      /\ windows'[i].loose \/ windows[i].end < windows'[i].end
<1>1. windows \in [Id -> {NoRow} \cup Row]
  BY DEF WindowsInv, TypeOK
<1>2. ASSUME NEW c \in Client, NEW s \in Station, NEW start \in Time, NEW end \in Time,
             Plan(c, s, start, end)
      PROVE  Goal
  BY <1>1, <1>2 DEF Plan, Fresh
<1>3. ASSUME NEW c \in Client, InsertPlanned(c) PROVE Goal
  BY <1>1, <1>3 DEF InsertPlanned, Fresh
<1>4. ASSUME NEW c \in Client, NEW k \in Id, Close(c, k) PROVE Goal
  <2>1. /\ Present(k) /\ windows[k] \in Row
        /\ windows' = [windows EXCEPT ![k] = [windows[k] EXCEPT !.state = "closed"]]
    BY <1>4, RowParts DEF Close, WindowsInv
  <2>2. CASE k = i
    BY <1>1, <2>1, <2>2 DEF Row
  <2> QED
    BY <1>1, <2>1, <2>2
<1>5. ASSUME NEW c \in Client, Extend(c) PROVE Goal
  <2> DEFINE k == call[c].id
             row == Extended(windows[k], call[c].end, call[c].overtaken)
  <2>1. call[c] \in ExtendCall /\ k \in Id /\ windows' = [windows EXCEPT ![k] = row]
    BY <1>5, CallParts DEF Extend, WindowsInv, ExtendCall
  <2>2. /\ Present(k) /\ windows[k] \in Row
        /\ call[c].overtaken \/ (windows[k].end = call[c].seen /\ call[c].seen < call[c].end)
    BY <1>5, <2>1, RowParts DEF Extend, WindowsInv, ExtensionsHold
  <2>3. /\ row.state = windows[k].state /\ row.end = call[c].end
        /\ row.loose = (windows[k].loose \/ call[c].overtaken)
    BY <2>2 DEF Extended, Row
  <2>4. CASE k = i
    <3> HIDE DEF row
    <3> QED
      BY <1>1, <2>1, <2>2, <2>3, <2>4
  <2>5. CASE k # i
    BY <1>1, <2>1, <2>5
  <2> QED
    BY <2>4, <2>5
<1>6. ASSUME windows' = windows PROVE Goal
  BY <1>6
<1>7. ASSUME NEW c \in Client,
             \/ \E s \in Station, start, end \in Time : CheckPlan(c, s, start, end)
             \/ \E k \in Id, end \in Time : ReadToExtend(c, k, end)
             \/ CheckTail(c) \/ Fails(c)
      PROVE  windows' = windows
  BY <1>7 DEF CheckPlan, ReadToExtend, CheckTail, Fails
<1>8. UNCHANGED vars => windows' = windows
  BY DEF vars
<1> HIDE DEF Goal
<1>9. Goal
  BY <1>2, <1>3, <1>4, <1>5, <1>6, <1>7, <1>8 DEF Next
<1> QED
  BY <1>9 DEF Goal

\* A closed window stays closed, and only an Extend that was overtaken moves the
\* end of a window back.
THEOREM WindowsOnlyForward == Spec => WindowsMoveForward
<1> DEFINE Step == \A i \in Id : Present(i) /\ windows'[i].end < windows[i].end
                                  => windows'[i].loose
<1>1. Init => States!Init
  BY DEF Init, States!Init, NoRow
<1>2. WindowsInv /\ [Next]_vars => [States!Next]_([i \in Id |-> windows[i].state])
  <2> SUFFICES ASSUME WindowsInv, [Next]_vars, NEW i \in Id,
                      windows'[i].state # windows[i].state
               PROVE  <<windows[i].state, windows'[i].state>>
                        \in {<<"none", "planned">>, <<"planned", "closed">>}
    BY DEF States!Next
  <2>1. Present(i) => windows[i].state \in {"planned", "closed"}
    BY RowParts DEF WindowsInv, Row
  <2> QED
    BY <2>1, RowMoves DEF Present
<1>3. WindowsInv /\ [Next]_vars => Step
  <2> SUFFICES ASSUME WindowsInv, [Next]_vars, NEW i \in Id, Present(i),
                      windows'[i].end < windows[i].end
               PROVE  windows'[i].loose
    OBVIOUS
  <2>1. windows[i].end \in Nat
    BY RowParts, TimeNat DEF WindowsInv
  <2>2. TypeOK' /\ (Present(i)' => windows'[i].end \in Nat)
    <3>1. TypeOK'
      BY WindowsStep DEF WindowsInv
    <3>2. windows'[i] \in {NoRow} \cup Row
      BY <3>1 DEF TypeOK
    <3>3. NoRow.state = "none" /\ \A row \in Row : row.end \in Nat
      BY TimeNat DEF NoRow, Row
    <3> QED
      BY <3>1, <3>2, <3>3 DEF Present
  <2> QED
    BY <2>1, <2>2, RowMoves DEF Present
<1>4. Spec => States!Spec
  BY <1>1, <1>2, WindowsInvariance, PTL DEF Spec, States!Spec
<1>5. Spec => [][Step]_vars
  <2> HIDE DEF Step
  <2> QED
    BY <1>3, WindowsInvariance, PTL DEF Spec
<1> QED
  BY <1>4, <1>5 DEF WindowsMoveForward
=============================================================================
