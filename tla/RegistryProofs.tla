---------------------------- MODULE RegistryProofs ----------------------------
(***************************************************************************)
(* What holds of StationRegistry for any number of stations, channels,     *)
(* clients, events and failures.                                           *)
(***************************************************************************)
EXTENDS StationRegistry, FiniteSetTheorems, TLAPS

RegisterCall == [op : {"register"}, code : Code]
AddCall == [op : {"add"}, station : StationId, code : ChannelCode]
CloseCall == [op : {"close"}, channel : ChannelId]
MoveCall == [op : {"move"}, station : StationId, to : Status, decided : Decision]
Call == {NoCall} \cup RegisterCall \cup AddCall \cup CloseCall \cup MoveCall

\* GrantedOnce without the types, in its parts.
CodesGranted == \A code \in Code : Reckoned([code |-> code], CodeTaken(code))

ChannelsGranted ==
  \A s \in StationId, code \in ChannelCode :
    Reckoned([station |-> s, code |-> code], ChannelTaken(s, code))

ClosesGranted == \A k \in ChannelId : Reckoned([channel |-> k], channels[k].status = "closed")

LossesPaid == IsFiniteSet(lost) /\ Cardinality(lost) <= faults

\* The events of s that are open now were recorded after what decided has seen.
Handled(s, decided) ==
  /\ decided.recorded <= recorded
  /\ decided.by = "Decommission" => \A e \in openEvents[s] : e > decided.recorded

Edges == StatusEdge \cup {<<"", "decommissioned">>}

RowsHandled == \A s \in StationId : Present(s) => Handled(s, stations[s].decided)

\* The station of a call stays in the table, what a retirement has counted stays
\* counted, and the status a call started from is there until it is overtaken.
CallsKnow ==
  \A c \in Client :
    /\ call[c].op \in {"add", "move"} => Present(call[c].station)
    /\ call[c].op = "move" =>
         /\ Handled(call[c].station, call[c].decided)
         /\ \/ call[c].decided.overtaken
            \/ stations[call[c].station].status = call[c].to
            \/ <<stations[call[c].station].status, call[c].to>> \in Edges

RegistryInv ==
  /\ TypeOK /\ CodesGranted /\ ChannelsGranted /\ ClosesGranted
  /\ LossesPaid /\ RowsHandled /\ CallsKnow
-----------------------------------------------------------------------------
LEMMA TypeParts ==
  TypeOK <=> /\ stations \in [StationId -> {NoRow} \cup StationRow]
             /\ channels \in [ChannelId -> {NoRow} \cup ChannelRow]
             /\ \A k \in ChannelId : channels[k] # NoRow => Present(channels[k].station)
             /\ openEvents \in [StationId -> SUBSET (1..recorded)] /\ recorded \in 0..MaxEvents
             /\ call \in [Client -> Call]
             /\ granted \in [Asked -> Nat] /\ lost \subseteq Asked /\ faults \in Nat
BY DEF TypeOK, Call, RegisterCall, AddCall, CloseCall, MoveCall

LEMMA CallParts ==
  ASSUME NEW r \in Call
  PROVE  /\ NoCall.op = "none"
         /\ r.op = "register" <=> r \in RegisterCall
         /\ r.op = "add" <=> r \in AddCall
         /\ r.op = "close" <=> r \in CloseCall
         /\ r.op = "move" <=> r \in MoveCall
         /\ r = NoCall <=> r.op = "none"
BY DEF Call, NoCall, RegisterCall, AddCall, CloseCall, MoveCall

LEMMA RowParts ==
  /\ NoRow.status = "none"
  /\ \A row \in StationRow : row.status # "none" /\ row # NoRow
  /\ \A row \in ChannelRow : row.status # "none" /\ row # NoRow
<1>1. NoRow.status = "none"
  BY DEF NoRow
<1>2. \A row \in StationRow : row.status \in StoredStatus
  BY DEF StationRow
<1>3. "none" \notin StoredStatus
  BY DEF StoredStatus, Status, Live
<1>4. \A row \in ChannelRow : row.status # "none"
  BY DEF ChannelRow
<1> QED
  BY <1>1, <1>2, <1>3, <1>4

\* Different requests are different keys.
LEMMA Keys ==
  ASSUME NEW a, NEW b, NEW s, NEW t, NEW k, NEW l
  PROVE  /\ [code |-> a] = [code |-> b] <=> a = b
         /\ [station |-> s, code |-> a] = [station |-> t, code |-> b] <=> s = t /\ a = b
         /\ [channel |-> k] = [channel |-> l] <=> k = l
         /\ [code |-> a] # [station |-> s, code |-> b]
         /\ [code |-> a] # [channel |-> k]
         /\ [station |-> s, code |-> a] # [channel |-> k]
<1>1. /\ DOMAIN [code |-> a] = {"code"} /\ DOMAIN [channel |-> k] = {"channel"}
      /\ DOMAIN [station |-> s, code |-> b] = {"station", "code"}
      /\ DOMAIN [station |-> s, code |-> a] = {"station", "code"}
  OBVIOUS
<1>2. /\ [code |-> a].code = a /\ [code |-> b].code = b
      /\ [channel |-> k].channel = k /\ [channel |-> l].channel = l
      /\ [station |-> s, code |-> a].station = s /\ [station |-> s, code |-> a].code = a
      /\ [station |-> t, code |-> b].station = t /\ [station |-> t, code |-> b].code = b
  OBVIOUS
<1>3. {"code"} # {"station", "code"} /\ {"code"} # {"channel"} /\ {"station", "code"} # {"channel"}
  OBVIOUS
<1>4. [code |-> a] = [code |-> b] <=> a = b
  BY <1>2
<1>5. [station |-> s, code |-> a] = [station |-> t, code |-> b] <=> s = t /\ a = b
  BY <1>2
<1>6. [channel |-> k] = [channel |-> l] <=> k = l
  BY <1>2
<1>7. [code |-> a] # [station |-> s, code |-> b]
  BY <1>1, <1>3
<1>8. [code |-> a] # [channel |-> k]
  BY <1>1, <1>3
<1>9. [station |-> s, code |-> a] # [channel |-> k]
  BY <1>1, <1>3
<1> QED
  BY <1>4, <1>5, <1>6, <1>7, <1>8, <1>9

LEMMA AskedKeys ==
  /\ \A code \in Code : [code |-> code] \in Asked
  /\ \A s \in StationId, code \in ChannelCode : [station |-> s, code |-> code] \in Asked
  /\ \A k \in ChannelId : [channel |-> k] \in Asked
BY DEF Asked

LEMMA RegistryInit == Init => RegistryInv
<1> SUFFICES ASSUME Init PROVE RegistryInv
  OBVIOUS
<1>1. /\ \A s \in StationId : stations[s] = NoRow /\ ~Present(s) /\ openEvents[s] = {}
      /\ \A k \in ChannelId : channels[k] = NoRow /\ channels[k].status = "none"
      /\ \A c \in Client : call[c] = NoCall /\ call[c].op = "none"
      /\ recorded = 0 /\ faults = 0 /\ lost = {}
      /\ \A a \in Asked : granted[a] = 0
  BY DEF Init, Present, NoRow, NoCall
<1>2. TypeOK
  BY <1>1, TypeParts, RegistryAssumption DEF Init, Call
<1>3. ~\E code \in Code : CodeTaken(code)
  BY <1>1 DEF CodeTaken
<1>4. ~\E s \in StationId, code \in ChannelCode : ChannelTaken(s, code)
  BY <1>1 DEF ChannelTaken
<1>5. CodesGranted /\ ChannelsGranted /\ ClosesGranted
  BY <1>1, <1>3, <1>4, AskedKeys DEF CodesGranted, ChannelsGranted, ClosesGranted, Reckoned
<1>6. LossesPaid
  BY <1>1, FS_EmptySet DEF LossesPaid
<1>7. RowsHandled /\ CallsKnow
  BY <1>1 DEF RowsHandled, CallsKnow
<1> QED
  BY <1>2, <1>5, <1>6, <1>7 DEF RegistryInv

\* A step in which what becomes of a is not touched.
Same(a) == granted'[a] = granted[a] /\ (a \in lost' <=> a \in lost)

\* What is written for the first time is granted, or its answer lost, once.
LEMMA WrittenOnce ==
  ASSUME RegistryInv, NEW what \in Asked, Written(what), Reckoned(what, FALSE)
  PROVE  /\ granted' \in [Asked -> Nat] /\ lost' \subseteq Asked /\ faults' \in Nat
         /\ granted'[what] = IF what \notin lost' THEN 1 ELSE 0
         /\ \A a \in Asked \ {what} : Same(a)
         /\ LossesPaid'
<1>1. /\ granted \in [Asked -> Nat] /\ lost \subseteq Asked /\ faults \in Nat
      /\ IsFiniteSet(lost) /\ Cardinality(lost) <= faults
  BY TypeParts DEF RegistryInv, LossesPaid
<1>2. granted[what] = 0 /\ what \notin lost
  BY DEF Reckoned
<1>3. CASE Grant(what)
  <2>1. granted' = [granted EXCEPT ![what] = granted[what] + 1] /\ UNCHANGED <<lost, faults>>
    BY <1>3 DEF Grant
  <2> QED
    BY <1>1, <1>2, <2>1 DEF Same, LossesPaid
<1>4. CASE LoseAnswer(what)
  <2>1. /\ UNCHANGED granted /\ lost' = lost \cup {what} /\ faults' = faults + 1
    BY <1>4 DEF LoseAnswer
  <2>2. IsFiniteSet(lost') /\ Cardinality(lost') = Cardinality(lost) + 1
    BY <1>1, <1>2, <2>1, FS_AddElement
  <2>3. Cardinality(lost) \in Nat
    BY <1>1, FS_CardinalityType
  <2> QED
    BY <1>1, <1>2, <2>1, <2>2, <2>3 DEF Same, LossesPaid
<1> QED
  BY <1>3, <1>4 DEF Written

\* A step that leaves the tables, and what is granted, alone: the calls that are
\* new must know what the others do.
LEMMA RegistryCall ==
  ASSUME RegistryInv, NEW c \in Client, NEW r \in Call, call' = [call EXCEPT ![c] = r],
         UNCHANGED <<stations, channels, openEvents, recorded, granted, lost>>,
         faults' \in Nat, faults <= faults',
         r.op \in {"add", "move"} => Present(r.station),
         r.op = "move" => /\ Handled(r.station, r.decided)
                          /\ \/ r.decided.overtaken
                             \/ stations[r.station].status = r.to
                             \/ <<stations[r.station].status, r.to>> \in Edges
  PROVE  RegistryInv'
<1>1. TypeOK'
  BY TypeParts DEF RegistryInv, TypeOK, Call, Present, RegisterCall, AddCall, CloseCall, MoveCall
<1>2. CodesGranted' /\ ChannelsGranted' /\ ClosesGranted' /\ RowsHandled'
  BY DEF RegistryInv, CodesGranted, ChannelsGranted, ClosesGranted, RowsHandled,
         Reckoned, CodeTaken, ChannelTaken, Present, Handled
<1>3. \A d \in Client : call'[d] = IF d = c THEN r ELSE call[d]
  BY TypeParts DEF RegistryInv
<1>4. CallsKnow'
  BY <1>3 DEF RegistryInv, CallsKnow, Handled, Present
<1>5. LossesPaid'
  BY FS_CardinalityType DEF RegistryInv, TypeOK, LossesPaid
<1> QED
  BY <1>1, <1>2, <1>4, <1>5 DEF RegistryInv

LEMMA RegistryRegister ==
  ASSUME RegistryInv, NEW c \in Client, NEW code \in Code, Register(c, code)
  PROVE  RegistryInv'
<1> DEFINE r == [op |-> "register", code |-> code]
<1>1. r \in Call /\ r.op = "register"
  BY DEF Call, RegisterCall
<1>2. /\ call' = [call EXCEPT ![c] = r] /\ faults' \in Nat /\ faults <= faults'
      /\ UNCHANGED <<stations, channels, openEvents, recorded, granted, lost>>
  BY DEF Register, RegistryInv, TypeOK
<1> HIDE DEF r
<1> QED
  BY <1>1, <1>2, RegistryCall

LEMMA RegistryAddChannel ==
  ASSUME RegistryInv, NEW c \in Client, NEW s \in StationId, NEW code \in ChannelCode,
         AddChannel(c, s, code)
  PROVE  RegistryInv'
<1> DEFINE r == [op |-> "add", station |-> s, code |-> code]
<1>1. r \in Call /\ r.op = "add" /\ r.station = s
  BY DEF Call, AddCall
<1>2. /\ call' = [call EXCEPT ![c] = r] /\ faults' \in Nat /\ Present(s)
      /\ faults <= faults'
      /\ UNCHANGED <<stations, channels, openEvents, recorded, granted, lost>>
  BY DEF AddChannel, RegistryInv, TypeOK
<1> HIDE DEF r
<1> QED
  BY <1>1, <1>2, RegistryCall

LEMMA RegistryReadToClose ==
  ASSUME RegistryInv, NEW c \in Client, NEW k \in ChannelId, ReadToClose(c, k)
  PROVE  RegistryInv'
<1> DEFINE r == [op |-> "close", channel |-> k]
<1>1. r \in Call /\ r.op = "close"
  BY DEF Call, CloseCall
<1>2. /\ call' = [call EXCEPT ![c] = r] /\ faults' \in Nat /\ faults <= faults'
      /\ UNCHANGED <<stations, channels, openEvents, recorded, granted, lost>>
  BY DEF ReadToClose, RegistryInv, TypeOK
<1> HIDE DEF r
<1> QED
  BY <1>1, <1>2, RegistryCall

LEMMA RegistryFails ==
  ASSUME RegistryInv, NEW c \in Client, Fails(c)
  PROVE  RegistryInv'
<1>1. /\ call' = [call EXCEPT ![c] = NoCall] /\ faults' \in Nat /\ faults <= faults'
      /\ UNCHANGED <<stations, channels, openEvents, recorded, granted, lost>>
  BY DEF Fails, Returned, RegistryInv, TypeOK
<1>2. NoCall \in Call /\ NoCall.op = "none"
  BY DEF NoCall, Call
<1> QED
  BY <1>1, <1>2, RegistryCall

\* SetStatus and Decommission past their checks.
LEMMA RegistryMoving ==
  ASSUME RegistryInv, NEW c \in Client, NEW s \in StationId, NEW to \in Status,
         NEW by \in {"SetStatus", "Decommission"}, Moving(c, s, to, by), Present(s),
         by = "Decommission" => openEvents[s] = {},
         stations[s].status = to \/ <<stations[s].status, to>> \in Edges
  PROVE  RegistryInv'
<1> DEFINE decided == [by |-> by, recorded |-> recorded, overtaken |-> FALSE]
           r == [op |-> "move", station |-> s, to |-> to, decided |-> decided]
<1>1. /\ decided \in Decision /\ decided.by = by /\ decided.recorded = recorded
      /\ recorded \in Nat
  BY RegistryAssumption DEF Decision, RegistryInv, TypeOK
<1>2. r \in Call /\ r.op = "move" /\ r.station = s /\ r.to = to /\ r.decided = decided
  BY <1>1 DEF Call, MoveCall
<1>3. Handled(s, decided)
  BY <1>1 DEF Handled
<1>4. /\ call' = [call EXCEPT ![c] = r] /\ faults' \in Nat /\ faults <= faults'
      /\ UNCHANGED <<stations, channels, openEvents, recorded, granted, lost>>
  BY DEF Moving, RegistryInv, TypeOK
<1> HIDE DEF r, decided
<1> QED
  BY <1>2, <1>3, <1>4, RegistryCall

LEMMA RegistrySetStatus ==
  ASSUME RegistryInv, NEW c \in Client, NEW s \in StationId, NEW to \in Status,
         SetStatus(c, s, to)
  PROVE  RegistryInv'
<1>1. Moving(c, s, to, "SetStatus") /\ <<stations[s].status, to>> \in Edges
  BY DEF SetStatus, Edges
<1>2. Present(s)
  BY DEF SetStatus, Present, Status, Live
<1> QED
  BY <1>1, <1>2, RegistryMoving

LEMMA RegistryDecommission ==
  ASSUME RegistryInv, NEW c \in Client, NEW s \in StationId, Decommission(c, s)
  PROVE  RegistryInv'
<1>1. /\ Moving(c, s, "decommissioned", "Decommission") /\ Present(s) /\ openEvents[s] = {}
      /\ "decommissioned" \in Status
  BY DEF Decommission, Status
<1>2. stations[s].status \in StoredStatus
  BY <1>1, TypeParts DEF RegistryInv, Present, NoRow, StationRow
<1>3. \/ stations[s].status = "decommissioned"
      \/ <<stations[s].status, "decommissioned">> \in Edges
  BY <1>2 DEF StoredStatus, Status, Edges, StatusEdge
<1> QED
  BY <1>1, <1>3, RegistryMoving

\* A call that returns takes nothing away from what the others know.
LEMMA CallsReturn ==
  ASSUME RegistryInv, NEW c \in Client, call' = call \/ call' = Returned(c),
         \A s \in StationId : Present(s) => stations'[s] = stations[s],
         UNCHANGED <<openEvents, recorded>>
  PROVE  CallsKnow' /\ call' \in [Client -> Call]
<1>1. NoCall \in Call /\ NoCall.op = "none" /\ call \in [Client -> Call]
  BY TypeParts DEF NoCall, Call, RegistryInv
<1>2. \A d \in Client : call'[d] = call[d] \/ call'[d] = NoCall
  BY <1>1 DEF Returned
<1>3. \A d \in Client : call[d].op \in {"add", "move"} => call[d].station \in StationId
  BY <1>1, CallParts DEF AddCall, MoveCall
<1>4. call' \in [Client -> Call]
  BY <1>1 DEF Returned
<1>5. CallsKnow'
  BY <1>1, <1>2, <1>3 DEF RegistryInv, CallsKnow, Present, Handled
<1> QED
  BY <1>4, <1>5

LEMMA RegistryInsertStation ==
  ASSUME RegistryInv, NEW c \in Client, NEW code \in Code, NEW status \in StoredStatus,
         InsertStation(code, status), call' = call \/ call' = Returned(c)
  PROVE  RegistryInv'
<1>1. UNCHANGED <<channels, openEvents, recorded>>
  BY DEF InsertStation
<1>2. CASE CodeTaken(code) /\ UNCHANGED <<stations, granted, lost, faults>>
  <2>1. CallsKnow' /\ call' \in [Client -> Call]
    BY <1>1, <1>2, CallsReturn
  <2>2. TypeOK'
    BY <1>1, <1>2, <2>1, TypeParts DEF RegistryInv, TypeOK, Call, Present,
       RegisterCall, AddCall, CloseCall, MoveCall
  <2>3. CodesGranted' /\ ChannelsGranted' /\ ClosesGranted' /\ LossesPaid' /\ RowsHandled'
    BY <1>1, <1>2 DEF LossesPaid, RegistryInv, CodesGranted, ChannelsGranted, ClosesGranted, RowsHandled,
       Reckoned, CodeTaken, ChannelTaken, Present, Handled
  <2> QED
    BY <2>1, <2>2, <2>3 DEF RegistryInv
<1>3. CASE ~CodeTaken(code) /\ Written([code |-> code])
           /\ \E s \in Fresh(stations) :
                stations' = [stations EXCEPT ![s] = NewStation(code, status)]
  <2> DEFINE row == NewStation(code, status)
  <2>1. PICK s \in Fresh(stations) : stations' = [stations EXCEPT ![s] = row]
    BY <1>3
  <2>2. s \in StationId /\ stations[s] = NoRow /\ ~Present(s)
    BY <2>1, TypeParts, RowParts DEF Fresh, RegistryInv, Present
  <2>3. /\ row \in StationRow /\ row.code = code /\ row.status # "none"
        /\ row.decided.by = "create" /\ row.decided.recorded = recorded
    BY TypeParts, RowParts DEF NewStation, StationRow, RegistryInv
  <2> HIDE DEF row
  <2>4. /\ stations'[s] = row /\ Present(s)' /\ stations' \in [StationId -> {NoRow} \cup StationRow]
        /\ \A t \in StationId \ {s} : stations'[t] = stations[t]
    BY <2>1, <2>2, <2>3, TypeParts DEF RegistryInv, Present
  <2>5. Reckoned([code |-> code], FALSE)
    <3>1. CodeTaken(code) = FALSE
      BY <1>3 DEF CodeTaken
    <3> QED
      BY <3>1 DEF RegistryInv, CodesGranted
  <2>6. /\ granted' \in [Asked -> Nat] /\ lost' \subseteq Asked /\ faults' \in Nat
        /\ granted'[[code |-> code]] = IF [code |-> code] \notin lost' THEN 1 ELSE 0
        /\ \A a \in Asked \ {[code |-> code]} : Same(a)
        /\ LossesPaid'
    BY <1>3, <2>5, AskedKeys, WrittenOnce
  <2>7. CallsKnow' /\ call' \in [Client -> Call]
    <3>1. \A t \in StationId : Present(t) => stations'[t] = stations[t]
      BY <2>2, <2>4
    <3> QED
      BY <1>1, <3>1, CallsReturn
  <2>8. TypeOK'
    <3>1. \A k \in ChannelId : channels'[k] # NoRow => Present(channels[k].station)'
      BY <1>1, <2>2, <2>4, TypeParts DEF RegistryInv, ChannelRow, Present
    <3> QED
      BY <1>1, <2>4, <2>6, <2>7, <3>1 DEF RegistryInv, TypeOK, Call,
         RegisterCall, AddCall, CloseCall, MoveCall
  <2>9. CodesGranted'
    <3>1. CodeTaken(code)'
      BY <2>2, <2>3, <2>4 DEF CodeTaken
    <3>2. \A other \in Code \ {code} : CodeTaken(other)' <=> CodeTaken(other)
      BY <2>2, <2>3, <2>4 DEF CodeTaken, Present
    <3>3. \A other \in Code \ {code} : Same([code |-> other])
      BY <2>6, AskedKeys, Keys
    <3> SUFFICES ASSUME NEW other \in Code
                 PROVE  Reckoned([code |-> other], CodeTaken(other))'
      BY DEF CodesGranted
    <3>4. CASE other = code
      BY <2>6, <3>1, <3>4 DEF Reckoned
    <3>5. CASE other # code
      BY <3>2, <3>3, <3>5 DEF RegistryInv, CodesGranted, Reckoned, Same
    <3> QED
      BY <3>4, <3>5
  <2>10. ChannelsGranted'
    <3>1. \A t \in StationId, other \in ChannelCode :
            /\ Same([station |-> t, code |-> other])
            /\ ChannelTaken(t, other)' <=> ChannelTaken(t, other)
      BY <1>1, <2>6, AskedKeys, Keys DEF ChannelTaken
    <3> QED
      BY <3>1 DEF RegistryInv, ChannelsGranted, Reckoned, Same
  <2>11. ClosesGranted'
    <3>1. \A k \in ChannelId : Same([channel |-> k])
      BY <2>6, AskedKeys, Keys
    <3> QED
      BY <1>1, <3>1 DEF RegistryInv, ClosesGranted, Reckoned, Same
  <2>12. RowsHandled'
    BY <1>1, <2>2, <2>3, <2>4, RegistryAssumption
    DEF RegistryInv, TypeOK, RowsHandled, Handled, Present
  <2> QED
    BY <2>6, <2>7, <2>8, <2>9, <2>10, <2>11, <2>12 DEF RegistryInv
<1> QED
  BY <1>2, <1>3 DEF InsertStation

LEMMA RegistryInsertChannel ==
  ASSUME RegistryInv, NEW c \in Client, NEW s \in StationId, NEW code \in ChannelCode,
         Present(s), InsertChannel(s, code), call' = call \/ call' = Returned(c)
  PROVE  RegistryInv'
<1>1. UNCHANGED <<stations, openEvents, recorded>>
  BY DEF InsertChannel
<1>2. CallsKnow' /\ call' \in [Client -> Call]
  BY <1>1, CallsReturn
<1>3. CASE ChannelTaken(s, code) /\ UNCHANGED <<channels, granted, lost, faults>>
  <2>1. TypeOK'
    BY <1>1, <1>2, <1>3, TypeParts DEF RegistryInv, TypeOK, Call, Present,
       RegisterCall, AddCall, CloseCall, MoveCall
  <2>2. CodesGranted' /\ ChannelsGranted' /\ ClosesGranted' /\ LossesPaid' /\ RowsHandled'
    BY <1>1, <1>3 DEF LossesPaid, RegistryInv, CodesGranted, ChannelsGranted, ClosesGranted, RowsHandled,
       Reckoned, CodeTaken, ChannelTaken, Present, Handled
  <2> QED
    BY <1>2, <2>1, <2>2 DEF RegistryInv
<1>4. CASE ~ChannelTaken(s, code) /\ Written([station |-> s, code |-> code])
           /\ \E k \in Fresh(channels) :
                channels' = [channels EXCEPT ![k] =
                  [station |-> s, code |-> code, status |-> "open"]]
  <2> DEFINE key == [station |-> s, code |-> code]
             row == [station |-> s, code |-> code, status |-> "open"]
  <2>1. PICK k \in Fresh(channels) : channels' = [channels EXCEPT ![k] = row]
    BY <1>4
  <2>2. k \in ChannelId /\ channels[k] = NoRow /\ channels[k].status # "closed"
    BY <2>1, TypeParts, RowParts DEF Fresh, RegistryInv
  <2>3. /\ row \in ChannelRow /\ row # NoRow /\ row.station = s /\ row.code = code
        /\ row.status # "closed"
    BY RowParts DEF ChannelRow
  <2>4. key \in Asked /\ Written(key) /\ Reckoned(key, FALSE)
    <3>1. ChannelTaken(s, code) = FALSE
      BY <1>4 DEF ChannelTaken
    <3> QED
      BY <1>4, <3>1, AskedKeys DEF RegistryInv, ChannelsGranted
  <2> HIDE DEF row
  <2>5. /\ channels'[k] = row /\ channels' \in [ChannelId -> {NoRow} \cup ChannelRow]
        /\ \A l \in ChannelId \ {k} : channels'[l] = channels[l]
    BY <2>1, <2>2, <2>3, TypeParts DEF RegistryInv
  <2>6. /\ granted' \in [Asked -> Nat] /\ lost' \subseteq Asked /\ faults' \in Nat
        /\ granted'[key] = IF key \notin lost' THEN 1 ELSE 0
        /\ \A a \in Asked \ {key} : Same(a)
        /\ LossesPaid'
    BY <2>4, WrittenOnce
  <2>7. TypeOK'
    <3>1. \A l \in ChannelId : channels'[l] # NoRow => Present(channels[l].station)'
      BY <1>1, <2>2, <2>3, <2>5, TypeParts DEF RegistryInv, Present
    <3> QED
      BY <1>1, <1>2, <2>5, <2>6, <3>1 DEF RegistryInv, TypeOK, Call,
         RegisterCall, AddCall, CloseCall, MoveCall
  <2>8. CodesGranted'
    <3>1. \A other \in Code : Same([code |-> other])
      BY <2>6, AskedKeys, Keys
    <3>2. \A other \in Code : CodeTaken(other)' <=> CodeTaken(other)
      BY <1>1 DEF CodeTaken, Present
    <3> QED
      BY <3>1, <3>2 DEF RegistryInv, CodesGranted, Reckoned, Same
  <2>9. ChannelsGranted'
    <3>1. ChannelTaken(s, code)'
      BY <2>2, <2>3, <2>5 DEF ChannelTaken
    <3>2. ASSUME NEW t \in StationId, NEW other \in ChannelCode, ~(t = s /\ other = code)
          PROVE  /\ ChannelTaken(t, other)' <=> ChannelTaken(t, other)
                 /\ Same([station |-> t, code |-> other])
      <4>1. ChannelTaken(t, other)' <=> ChannelTaken(t, other)
        BY <2>2, <2>3, <2>5, <3>2 DEF ChannelTaken
      <4>2. [station |-> t, code |-> other] # key /\ [station |-> t, code |-> other] \in Asked
        BY <3>2, Keys, AskedKeys
      <4> QED
        BY <2>6, <4>1, <4>2
    <3> SUFFICES ASSUME NEW t \in StationId, NEW other \in ChannelCode
                 PROVE  Reckoned([station |-> t, code |-> other], ChannelTaken(t, other))'
      BY DEF ChannelsGranted
    <3>3. CASE t = s /\ other = code
      BY <2>6, <3>1, <3>3 DEF Reckoned
    <3>4. CASE ~(t = s /\ other = code)
      BY <3>2, <3>4 DEF RegistryInv, ChannelsGranted, Reckoned, Same
    <3> QED
      BY <3>3, <3>4
  <2>10. ClosesGranted'
    <3>1. \A l \in ChannelId : channels'[l].status = "closed" <=> channels[l].status = "closed"
      BY <2>2, <2>3, <2>5
    <3>2. \A l \in ChannelId : Same([channel |-> l])
      BY <2>6, AskedKeys, Keys
    <3> QED
      BY <3>1, <3>2 DEF RegistryInv, ClosesGranted, Reckoned, Same
  <2>11. RowsHandled'
    BY <1>1 DEF RegistryInv, RowsHandled, Handled, Present
  <2> QED
    BY <1>2, <2>6, <2>7, <2>8, <2>9, <2>10, <2>11 DEF RegistryInv
<1> QED
  BY <1>3, <1>4 DEF InsertChannel

\* The row that UpdateStatus writes, and what the other calls then are.
LEMMA StatusWritten ==
  ASSUME RegistryInv, NEW c \in Client, UpdateStatus(c)
  PROVE  LET s == call[c].station
         IN  /\ call[c] \in MoveCall /\ s \in StationId /\ Present(s)
             /\ stations[s] \in StationRow /\ stations'[s] \in StationRow
             /\ stations'[s].code = stations[s].code /\ stations'[s].status = call[c].to
             /\ stations'[s].decided = call[c].decided
             /\ stations' \in [StationId -> {NoRow} \cup StationRow]
             /\ \A t \in StationId \ {s} : stations'[t] = stations[t]
             /\ call' \in [Client -> Call]
             /\ \A d \in Client :
                  \/ call'[d] = NoCall
                  \/ call'[d] = call[d] /\ ~(call[d].op = "move" /\ call[d].station = s)
                  \/ /\ call[d] \in MoveCall /\ call[d].station = s /\ call'[d] \in MoveCall
                     /\ call'[d].station = s /\ call'[d].decided.overtaken
                     /\ call'[d].decided.by = call[d].decided.by
                     /\ call'[d].decided.recorded = call[d].decided.recorded
<1> DEFINE s == call[c].station
           row == [stations[s] EXCEPT !.status = call[c].to, !.decided = call[c].decided]
           late(d) == [call[d] EXCEPT !.decided = [call[d].decided EXCEPT !.overtaken = TRUE]]
<1>1. /\ call[c] \in MoveCall /\ s \in StationId /\ call[c].to \in Status
      /\ call[c].decided \in Decision
  BY TypeParts, CallParts DEF UpdateStatus, RegistryInv, MoveCall
<1>2. Present(s) /\ stations[s] \in StationRow
  BY <1>1, TypeParts, RowParts DEF UpdateStatus, RegistryInv, CallsKnow, Present
<1>3. stations' = [stations EXCEPT ![s] = row]
  BY <1>1, <1>2, TypeParts DEF UpdateStatus, RegistryInv
<1>4. /\ row \in StationRow /\ row.code = stations[s].code
      /\ row.status = call[c].to /\ row.decided = call[c].decided
  BY <1>1, <1>2 DEF StationRow, Decision, StoredStatus
<1>5. ASSUME NEW d \in Client, call[d].op = "move"
      PROVE  /\ call[d] \in MoveCall /\ late(d) \in MoveCall /\ late(d).station = call[d].station
             /\ late(d).decided.overtaken /\ late(d).decided.by = call[d].decided.by
             /\ late(d).decided.recorded = call[d].decided.recorded
  <2>1. call[d] \in MoveCall
    BY <1>5, TypeParts, CallParts DEF RegistryInv
  <2>2. [call[d].decided EXCEPT !.overtaken = TRUE] \in Decision
    BY <2>1 DEF MoveCall, Decision
  <2>3. late(d) \in MoveCall
    BY <2>1, <2>2 DEF MoveCall
  <2> QED
    BY <2>1, <2>3 DEF MoveCall, Decision
<1>6. call' = [d \in Client |->
                IF d = c THEN NoCall
                ELSE IF call[d].op = "move" /\ call[d].station = s THEN late(d) ELSE call[d]]
  BY DEF UpdateStatus
<1>7. NoCall \in Call /\ MoveCall \subseteq Call /\ call \in [Client -> Call]
  BY TypeParts DEF Call, RegistryInv
<1> HIDE DEF row, late
<1>8. call' \in [Client -> Call]
  BY <1>5, <1>6, <1>7
<1>9. stations'[s] = row /\ stations' \in [StationId -> {NoRow} \cup StationRow]
      /\ \A t \in StationId \ {s} : stations'[t] = stations[t]
  BY <1>1, <1>3, <1>4, TypeParts DEF RegistryInv
<1>10. \A d \in Client :
         \/ call'[d] = NoCall
         \/ call'[d] = call[d] /\ ~(call[d].op = "move" /\ call[d].station = s)
         \/ call[d].op = "move" /\ call[d].station = s /\ call'[d] = late(d)
  BY <1>6
<1> QED
  BY <1>1, <1>2, <1>4, <1>5, <1>8, <1>9, <1>10

LEMMA RegistryUpdateStatus ==
  ASSUME RegistryInv, NEW c \in Client, UpdateStatus(c)
  PROVE  RegistryInv'
<1> DEFINE s == call[c].station
<1>1. /\ s \in StationId /\ Present(s) /\ stations[s] \in StationRow
      /\ stations'[s] \in StationRow
      /\ stations'[s].code = stations[s].code /\ stations'[s].decided = call[c].decided
      /\ stations' \in [StationId -> {NoRow} \cup StationRow]
      /\ \A t \in StationId \ {s} : stations'[t] = stations[t]
      /\ call[c] \in MoveCall /\ call' \in [Client -> Call]
  BY StatusWritten
<1>2. \A d \in Client :
        \/ call'[d] = NoCall
        \/ call'[d] = call[d] /\ ~(call[d].op = "move" /\ call[d].station = s)
        \/ /\ call[d] \in MoveCall /\ call[d].station = s /\ call'[d] \in MoveCall
           /\ call'[d].station = s /\ call'[d].decided.overtaken
           /\ call'[d].decided.by = call[d].decided.by
           /\ call'[d].decided.recorded = call[d].decided.recorded
  BY StatusWritten
<1>3. UNCHANGED <<channels, openEvents, recorded, granted, lost, faults>>
  BY DEF UpdateStatus
<1>4. \A t \in StationId : Present(t)' <=> Present(t)
  <2>1. stations'[s].status # "none"
    BY <1>1, RowParts
  <2>2. ASSUME NEW t \in StationId \ {s} PROVE Present(t)' <=> Present(t)
    BY <1>1, <2>2 DEF Present
  <2> QED
    BY <1>1, <2>1, <2>2 DEF Present
<1>5. \A t \in StationId : \A decided : Handled(t, decided)' <=> Handled(t, decided)
  BY <1>3 DEF Handled
<1>6. TypeOK'
  <2>1. \A k \in ChannelId : channels'[k] # NoRow => Present(channels[k].station)'
    BY <1>3, <1>4, TypeParts DEF RegistryInv, ChannelRow
  <2> QED
    BY <1>1, <1>3, <2>1 DEF RegistryInv, TypeOK, Call, RegisterCall, AddCall, CloseCall, MoveCall
<1>7. CodesGranted' /\ LossesPaid'
  <2>1. \A code \in Code : CodeTaken(code)' <=> CodeTaken(code)
    BY <1>1, <1>4 DEF CodeTaken
  <2> QED
    BY <1>3, <2>1 DEF RegistryInv, CodesGranted, Reckoned, LossesPaid
<1>8. ChannelsGranted' /\ ClosesGranted'
  BY <1>3 DEF RegistryInv, ChannelsGranted, ClosesGranted, ChannelTaken, Reckoned
<1>9. RowsHandled'
  <2>1. Handled(s, call[c].decided)
    BY <1>1 DEF RegistryInv, CallsKnow, MoveCall
  <2>2. ASSUME NEW t \in StationId, Present(t)' PROVE Handled(t, stations[t].decided)'
    <3>1. CASE t = s
      BY <1>1, <1>3, <2>1, <3>1 DEF Handled
    <3>2. CASE t # s
      BY <1>1, <1>3, <1>4, <2>2, <3>2 DEF RegistryInv, RowsHandled, Handled
    <3> QED
      BY <3>1, <3>2
  <2> QED
    BY <2>2 DEF RowsHandled
<1>10. CallsKnow'
  <2> SUFFICES ASSUME NEW d \in Client
               PROVE  ( /\ call[d].op \in {"add", "move"} => Present(call[d].station)
                        /\ call[d].op = "move" =>
                             /\ Handled(call[d].station, call[d].decided)
                             /\ \/ call[d].decided.overtaken
                                \/ stations[call[d].station].status = call[d].to
                                \/ <<stations[call[d].station].status, call[d].to>> \in Edges )'
    BY DEF CallsKnow
  <2>1. call[d].op \in {"add", "move"} => call[d].station \in StationId
    BY TypeParts, CallParts DEF RegistryInv, AddCall, MoveCall
  <2>2. CASE call'[d] = NoCall
    BY <2>2, CallParts DEF NoCall
  <2>3. CASE call'[d] = call[d] /\ ~(call[d].op = "move" /\ call[d].station = s)
    <3>1. call[d].op \in {"add", "move"} => stations'[call[d].station].status # "none"
      <4>1. ASSUME NEW t \in StationId, Present(t) PROVE stations'[t].status # "none"
        BY <1>4, <4>1 DEF Present
      <4> QED
        BY <2>1, <4>1 DEF RegistryInv, CallsKnow
    <3>2. ASSUME call[d].op = "move"
          PROVE  /\ Handled(call[d].station, call[d].decided)
                 /\ stations'[call[d].station] = stations[call[d].station]
      BY <1>1, <2>1, <2>3, <3>2 DEF RegistryInv, CallsKnow
    <3> QED
      BY <1>3, <2>3, <3>1, <3>2 DEF RegistryInv, CallsKnow, Handled, Present
  <2>4. CASE /\ call[d] \in MoveCall /\ call[d].station = s /\ call'[d] \in MoveCall
             /\ call'[d].station = s /\ call'[d].decided.overtaken
             /\ call'[d].decided.by = call[d].decided.by
             /\ call'[d].decided.recorded = call[d].decided.recorded
    <3>1. Handled(s, call[d].decided)
      BY <2>4 DEF RegistryInv, CallsKnow, MoveCall
    <3>2. stations'[call'[d].station].status # "none"
      BY <1>1, <2>4, RowParts
    <3>3. (Handled(call[d].station, call[d].decided))'
      BY <1>3, <2>4, <3>1 DEF Handled
    <3> QED
      BY <2>4, <3>2, <3>3 DEF Present
  <2> QED
    BY <1>2, <2>2, <2>3, <2>4
<1> QED
  BY <1>6, <1>7, <1>8, <1>9, <1>10 DEF RegistryInv

LEMMA RegistryClose ==
  ASSUME RegistryInv, NEW c \in Client, Close(c)
  PROVE  RegistryInv'
<1> DEFINE k == call[c].channel
           row == [channels[k] EXCEPT !.status = "closed"]
<1>1. /\ UNCHANGED <<stations, openEvents, recorded>> /\ call' = Returned(c)
      /\ k \in ChannelId
  BY TypeParts, CallParts DEF Close, RegistryInv, CloseCall
<1>2. CallsKnow' /\ call' \in [Client -> Call]
  BY <1>1, CallsReturn
<1>4. CASE UNCHANGED <<channels, granted, lost, faults>>
  <2>1. TypeOK'
    BY <1>1, <1>2, <1>4, TypeParts DEF RegistryInv, TypeOK, Call, Present,
       RegisterCall, AddCall, CloseCall, MoveCall
  <2>2. CodesGranted' /\ ChannelsGranted' /\ ClosesGranted' /\ LossesPaid' /\ RowsHandled'
    BY <1>1, <1>4 DEF LossesPaid, RegistryInv, CodesGranted, ChannelsGranted, ClosesGranted, RowsHandled,
       Reckoned, CodeTaken, ChannelTaken, Present, Handled
  <2> QED
    BY <1>2, <2>1, <2>2 DEF RegistryInv
<1>5. CASE /\ channels[k].status = "open" /\ Written([channel |-> k])
           /\ channels' = [channels EXCEPT ![k] = row]
  <2>1. channels[k] \in ChannelRow
    BY <1>1, <1>5, TypeParts, RowParts DEF RegistryInv
  <2>2. /\ row \in ChannelRow /\ row # NoRow /\ channels[k] # NoRow /\ row.status = "closed"
        /\ row.station = channels[k].station /\ row.code = channels[k].code
    BY <2>1, RowParts DEF ChannelRow
  <2>3. [channel |-> k] \in Asked /\ Reckoned([channel |-> k], FALSE)
    <3>1. (channels[k].status = "closed") = FALSE
      BY <1>5
    <3> QED
      BY <1>1, <3>1, AskedKeys DEF RegistryInv, ClosesGranted
  <2> HIDE DEF row
  <2>4. /\ channels'[k] = row /\ channels' \in [ChannelId -> {NoRow} \cup ChannelRow]
        /\ \A l \in ChannelId \ {k} : channels'[l] = channels[l]
    BY <1>1, <1>5, <2>2, TypeParts DEF RegistryInv
  <2>5. /\ granted' \in [Asked -> Nat] /\ lost' \subseteq Asked /\ faults' \in Nat
        /\ granted'[[channel |-> k]] = IF [channel |-> k] \notin lost' THEN 1 ELSE 0
        /\ \A a \in Asked \ {[channel |-> k]} : Same(a)
        /\ LossesPaid'
    BY <1>5, <2>3, WrittenOnce
  <2>6. TypeOK'
    <3>1. \A l \in ChannelId : channels'[l] # NoRow => Present(channels[l].station)'
      BY <1>1, <2>2, <2>4, TypeParts DEF RegistryInv, Present
    <3> QED
      BY <1>1, <1>2, <2>4, <2>5, <3>1 DEF RegistryInv, TypeOK, Call,
         RegisterCall, AddCall, CloseCall, MoveCall
  <2>7. CodesGranted'
    <3>1. \A other \in Code : Same([code |-> other])
      BY <2>5, AskedKeys, Keys
    <3>2. \A other \in Code : CodeTaken(other)' <=> CodeTaken(other)
      BY <1>1 DEF CodeTaken, Present
    <3> QED
      BY <3>1, <3>2 DEF RegistryInv, CodesGranted, Reckoned, Same
  <2>8. ChannelsGranted'
    <3>1. \A t \in StationId, other \in ChannelCode :
            Same([station |-> t, code |-> other])
      BY <2>5, AskedKeys, Keys
    <3>2. \A t \in StationId, other \in ChannelCode :
            ChannelTaken(t, other)' <=> ChannelTaken(t, other)
      BY <1>1, <2>2, <2>4 DEF ChannelTaken
    <3> QED
      BY <3>1, <3>2 DEF RegistryInv, ChannelsGranted, Reckoned, Same
  <2>9. ClosesGranted'
    <3> SUFFICES ASSUME NEW l \in ChannelId
                 PROVE  Reckoned([channel |-> l], channels[l].status = "closed")'
      BY DEF ClosesGranted
    <3>1. CASE l = k
      BY <2>2, <2>4, <2>5, <3>1 DEF Reckoned
    <3>2. CASE l # k
      <4>1. Same([channel |-> l])
        BY <2>5, <3>2, AskedKeys, Keys
      <4> QED
        BY <2>4, <3>2, <4>1 DEF RegistryInv, ClosesGranted, Reckoned, Same
    <3> QED
      BY <3>1, <3>2
  <2>10. RowsHandled'
    BY <1>1 DEF RegistryInv, RowsHandled, Handled, Present
  <2> QED
    BY <1>2, <2>5, <2>6, <2>7, <2>8, <2>9, <2>10 DEF RegistryInv
<1> QED
  BY <1>4, <1>5 DEF Close

LEMMA RegistryRecordEvent ==
  ASSUME RegistryInv, NEW s \in StationId, RecordEvent(s)
  PROVE  RegistryInv'
<1>1. /\ recorded \in Nat /\ recorded' = recorded + 1 /\ recorded' \in 0..MaxEvents
      /\ openEvents' = [openEvents EXCEPT ![s] = openEvents[s] \cup {recorded + 1}]
      /\ openEvents \in [StationId -> SUBSET (1..recorded)]
      /\ UNCHANGED <<stations, channels, call, granted, lost, faults>>
  BY RegistryAssumption DEF RecordEvent, RegistryInv, TypeOK
<1>2. openEvents' \in [StationId -> SUBSET (1..recorded')]
  <2>1. \A t \in StationId : openEvents'[t] \subseteq 1..(recorded + 1)
    BY <1>1
  <2> QED
    BY <1>1, <2>1
<1>3. TypeOK'
  BY <1>1, <1>2 DEF RegistryInv, TypeOK, Present
<1>4. \A t \in StationId : \A decided : decided.recorded \in Nat /\ Handled(t, decided)
                                      => Handled(t, decided)'
  BY <1>1 DEF Handled
<1>5. CodesGranted' /\ ChannelsGranted' /\ ClosesGranted' /\ LossesPaid'
  BY <1>1 DEF Reckoned, LossesPaid, RegistryInv, CodesGranted, ChannelsGranted, ClosesGranted,
     CodeTaken, ChannelTaken, Present
<1>6. RowsHandled'
  <2>1. \A t \in StationId : Present(t) => stations[t].decided.recorded \in Nat
    BY TypeParts, RegistryAssumption DEF RegistryInv, StationRow, NoRow, Present
  <2>2. ASSUME NEW t \in StationId, Present(t) PROVE Handled(t, stations[t].decided)'
    <3>1. Handled(t, stations[t].decided)
      BY <2>2 DEF RegistryInv, RowsHandled
    <3> QED
      BY <1>1, <2>1, <2>2, <3>1 DEF Handled
  <2> QED
    BY <1>1, <2>2 DEF RowsHandled, Present
<1>7. CallsKnow'
  <2>1. ASSUME NEW d \in Client, call[d].op = "move"
        PROVE  call[d].station \in StationId /\ call[d].decided.recorded \in Nat
    BY <2>1, TypeParts, CallParts, RegistryAssumption DEF RegistryInv, MoveCall, Decision
  <2>2. ASSUME NEW d \in Client, call[d].op = "move"
        PROVE  Handled(call[d].station, call[d].decided)'
    <3>1. Handled(call[d].station, call[d].decided)
      BY <2>2 DEF RegistryInv, CallsKnow
    <3> QED
      BY <1>1, <2>1, <2>2, <3>1 DEF Handled
  <2> QED
    BY <1>1, <2>2 DEF RegistryInv, CallsKnow, Present
<1> QED
  BY <1>3, <1>5, <1>6, <1>7 DEF RegistryInv

LEMMA RegistryReviewEvent ==
  ASSUME RegistryInv, NEW s \in StationId, NEW e \in Event, ReviewEvent(s, e)
  PROVE  RegistryInv'
<1>1. /\ openEvents' = [openEvents EXCEPT ![s] = openEvents[s] \ {e}]
      /\ openEvents \in [StationId -> SUBSET (1..recorded)]
      /\ UNCHANGED <<stations, channels, recorded, call, granted, lost, faults>>
  BY DEF ReviewEvent, RegistryInv, TypeOK
<1>2. /\ openEvents' \in [StationId -> SUBSET (1..recorded)]
      /\ \A t \in StationId : openEvents'[t] \subseteq openEvents[t]
  BY <1>1
<1>3. TypeOK'
  BY <1>1, <1>2 DEF RegistryInv, TypeOK, Present
<1>4. CodesGranted' /\ ChannelsGranted' /\ ClosesGranted' /\ LossesPaid'
  BY <1>1 DEF Reckoned, LossesPaid, RegistryInv, CodesGranted, ChannelsGranted, ClosesGranted,
     CodeTaken, ChannelTaken, Present
<1>5. RowsHandled'
  BY <1>1, <1>2 DEF RegistryInv, RowsHandled, Handled, Present
<1>6. CallsKnow'
  <2>1. ASSUME NEW d \in Client, call[d].op = "move" PROVE call[d].station \in StationId
    BY <2>1, TypeParts, CallParts DEF RegistryInv, MoveCall
  <2> QED
    BY <1>1, <1>2, <2>1 DEF RegistryInv, CallsKnow, Handled, Present
<1> QED
  BY <1>3, <1>4, <1>5, <1>6 DEF RegistryInv

LEMMA RegistryStep == RegistryInv /\ [Next]_vars => RegistryInv'
<1> SUFFICES ASSUME RegistryInv, [Next]_vars PROVE RegistryInv'
  OBVIOUS
<1>1. ASSUME NEW c \in Client, NEW code \in Code, NEW status \in StoredStatus,
             CreateStation(c, code, status)
      PROVE  RegistryInv'
  BY <1>1, RegistryInsertStation DEF CreateStation
<1>2. ASSUME NEW c \in Client, InsertRegistered(c) PROVE RegistryInv'
  <2>1. call[c].code \in Code /\ "active" \in StoredStatus
    BY <1>2, TypeParts, CallParts
    DEF InsertRegistered, RegistryInv, RegisterCall, StoredStatus, Status, Live
  <2> QED
    BY <1>2, <2>1, RegistryInsertStation DEF InsertRegistered
<1>3. ASSUME NEW c \in Client, NEW s \in StationId, NEW code \in ChannelCode,
             CreateChannel(c, s, code)
      PROVE  RegistryInv'
  BY <1>3, RegistryInsertChannel DEF CreateChannel
<1>4. ASSUME NEW c \in Client, InsertAdded(c) PROVE RegistryInv'
  <2>1. /\ call[c].code \in ChannelCode /\ call[c].station \in StationId
        /\ Present(call[c].station)
    BY <1>4, TypeParts, CallParts DEF InsertAdded, RegistryInv, CallsKnow, AddCall
  <2> QED
    BY <1>4, <2>1, RegistryInsertChannel DEF InsertAdded
<1>5. ASSUME UNCHANGED vars PROVE RegistryInv'
  BY <1>5 DEF vars, RegistryInv, TypeOK, CodesGranted, ChannelsGranted, ClosesGranted,
     LossesPaid, Reckoned, RowsHandled, CallsKnow, CodeTaken, ChannelTaken, Handled, Present
<1> QED
  BY <1>1, <1>2, <1>3, <1>4, <1>5, RegistryRegister, RegistrySetStatus, RegistryDecommission,
     RegistryAddChannel, RegistryUpdateStatus, RegistryReadToClose, RegistryClose,
     RegistryFails, RegistryRecordEvent, RegistryReviewEvent DEF Next

\* Every state keeps the invariant: what the tables hold was granted once, or
\* written once for a caller who was told an error, by a fault for each; and what a
\* call has found out of its station holds until the call is overtaken.
THEOREM RegistryInvariance == Spec => []RegistryInv
BY RegistryInit, RegistryStep, PTL DEF Spec

\* A station code, a channel of a station and the closing of a channel are
\* granted at most once, to the caller whose write is in the table (Register,
\* AddChannel, Close and the handlers that insert without looking); a write that
\* was granted to nobody had its answer lost, and there are no more of them than
\* faults.
THEOREM RegistryGrantsOnce == Spec => []GrantedOnce
<1>1. RegistryInv => GrantedOnce
  BY DEF RegistryInv, CodesGranted, ChannelsGranted, ClosesGranted, LossesPaid, GrantedOnce
<1> QED
  BY <1>1, RegistryInvariance, PTL

\* What is open at a station that Decommission retired came after its count.
THEOREM RegistryRetiresHandled == Spec => []RetiredWereHandled
<1>1. RegistryInv => RetiredWereHandled
  BY DEF RegistryInv, RowsHandled, Handled, RetiredWereHandled
<1> QED
  BY <1>1, RegistryInvariance, PTL
-----------------------------------------------------------------------------
\* A status changes by UpdateStatus only.
LEMMA StatusChanges ==
  ASSUME RegistryInv, [Next]_vars, NEW s \in StationId, Present(s),
         stations'[s].status # stations[s].status
  PROVE  \E c \in Client : /\ UpdateStatus(c) /\ call[c].station = s
<1>1. stations' # stations
  OBVIOUS
<1>2. ASSUME NEW code \in Code, NEW status \in StoredStatus, InsertStation(code, status)
      PROVE  FALSE
  <2>1. PICK t \in Fresh(stations) : stations' = [stations EXCEPT ![t] = NewStation(code, status)]
    BY <1>1, <1>2 DEF InsertStation
  <2>2. t # s
    BY RowParts DEF Fresh, Present
  <2> QED
    BY <2>1, <2>2, TypeParts DEF RegistryInv
<1>3. ASSUME NEW c \in Client, InsertRegistered(c) PROVE FALSE
  <2>1. call[c].code \in Code /\ "active" \in StoredStatus
    BY <1>3, TypeParts, CallParts
    DEF InsertRegistered, RegistryInv, RegisterCall, StoredStatus, Status, Live
  <2> QED
    BY <1>2, <1>3, <2>1 DEF InsertRegistered
<1>4. ASSUME NEW c \in Client, UpdateStatus(c) PROVE call[c].station = s
  BY <1>4, StatusWritten
<1> QED
  BY <1>1, <1>2, <1>3, <1>4
  DEF Next, vars, CreateStation, Register, SetStatus, Decommission, Moving, CreateChannel,
      AddChannel, InsertAdded, InsertChannel, ReadToClose, Close, Fails, RecordEvent, ReviewEvent

\* A status set by a call that no other update overtook follows the lifecycle.
THEOREM StatusLifecycle == Spec => StatusFollowsLifecycle
<1> DEFINE Step == \A s \in StationId :
                     (Present(s) /\ stations'[s].status # stations[s].status)
                       => \/ <<stations[s].status, stations'[s].status>>
                               \in StatusEdge \cup {<<"", "decommissioned">>}
                          \/ stations'[s].decided.overtaken
<1>1. RegistryInv /\ [Next]_vars => Step
  <2> SUFFICES ASSUME RegistryInv, [Next]_vars, NEW s \in StationId, Present(s),
                      stations'[s].status # stations[s].status
               PROVE  \/ <<stations[s].status, stations'[s].status>> \in Edges
                      \/ stations'[s].decided.overtaken
    BY DEF Edges
  <2>1. PICK c \in Client : UpdateStatus(c) /\ call[c].station = s
    BY StatusChanges
  <2>2. stations'[s].status = call[c].to /\ stations'[s].decided = call[c].decided
    BY <2>1, StatusWritten
  <2>3. \/ call[c].decided.overtaken
        \/ stations[s].status = call[c].to \/ <<stations[s].status, call[c].to>> \in Edges
    BY <2>1 DEF UpdateStatus, RegistryInv, CallsKnow
  <2> QED
    BY <2>2, <2>3
<1>2. Spec => [][Step]_vars
  <2> HIDE DEF Step
  <2> QED
    BY <1>1, RegistryInvariance, PTL DEF Spec
<1> QED
  BY <1>2 DEF StatusFollowsLifecycle
=============================================================================
