--------------------------- MODULE StationRegistry ---------------------------
(***************************************************************************)
(* Stations and channels (station_service.go, channel_service.go,          *)
(* station_handler.go).  The service's operations look a row up, decide    *)
(* and then write; the handlers insert without looking.  A call holds its  *)
(* verdict between the two database calls, in which others may write.  The *)
(* handlers pass the context of the request on: a client that goes away    *)
(* cancels the insert, which may then have been done all the same.  The    *)
(* services do not; they lose an answer only with the process, whose other *)
(* calls may fail with it but are here not made to.                        *)
(***************************************************************************)
EXTENDS Naturals, FiniteSets

CONSTANTS
  Code,         \* station codes
  ChannelCode,
  Client,       \* goroutines that serve requests
  MaxStations, MaxChannels,     \* bounds: rows of the two tables
  MaxEvents,    \* bound: QC events recorded in a behaviour
  MaxFaults     \* bound: failing writes, and answers lost after the write

ASSUME RegistryAssumption == {MaxStations, MaxChannels, MaxEvents, MaxFaults} \subseteq Nat

VARIABLES
  stations,     \* the table, by id
  channels,     \* likewise
  openEvents,   \* for each station, its rows of qc_events with status open
  recorded,     \* history: QC events recorded so far, named by their index
  call,         \* what each client's goroutine holds
  granted,      \* history: successful answers, by what was asked for
  lost,         \* history: what was written for a caller that was told an error
  faults

vars == <<stations, channels, openEvents, recorded, call, granted, lost, faults>>

StationId == 1..MaxStations
ChannelId == 1..MaxChannels
Event == 1..MaxEvents

Live == {"active", "inactive", "maintenance"}
Status == Live \cup {"decommissioned"}

\* "" is what the handler stores for a body without a status.
StoredStatus == Status \cup {""}

\* decided is history, of the last update of the status: the events recorded
\* when the call that made it decided, and whether another update came since.
StationRow == [code : Code, status : StoredStatus,
               decided : [by : {"create", "SetStatus", "Decommission"},
                          recorded : 0..MaxEvents, overtaken : BOOLEAN]]

ChannelRow == [station : StationId, code : ChannelCode, status : {"open", "closed"}]

NoRow == [status |-> "none"]
NoCall == [op |-> "none"]

Present(s) == stations[s].status # "none"

\* The next row of a table, if the bound leaves one.
Fresh(table) ==
  {i \in DOMAIN table : /\ table[i] = NoRow
                        /\ \A k \in 1..(i - 1) : table[k] # NoRow}

CodeTaken(code) == \E s \in StationId : Present(s) /\ stations[s].code = code

ChannelTaken(s, code) ==
  \E k \in ChannelId : /\ channels[k] # NoRow
                       /\ channels[k].station = s /\ channels[k].code = code

\* active<->maintenance, active<->inactive, anything live -> decommissioned
StatusEdge ==
  {<<"active", "maintenance">>, <<"maintenance", "active">>,
   <<"active", "inactive">>, <<"inactive", "active">>}
    \cup Live \X {"decommissioned"}

Grant(what) == granted' = [granted EXCEPT ![what] = @ + 1] /\ UNCHANGED <<lost, faults>>

\* The row is written, but before the caller knows the context of the request is
\* cancelled or, in a service, the process dies.
LoseAnswer(what) ==
  /\ faults < MaxFaults /\ faults' = faults + 1
  /\ lost' = lost \cup {what}
  /\ UNCHANGED granted

Written(what) == Grant(what) \/ LoseAnswer(what)

Asked == [code : Code] \cup [station : StationId, code : ChannelCode] \cup [channel : ChannelId]

Returned(c) == [call EXCEPT ![c] = NoCall]
-----------------------------------------------------------------------------
Init ==
  /\ stations = [s \in StationId |-> NoRow]
  /\ channels = [k \in ChannelId |-> NoRow]
  /\ openEvents = [s \in StationId |-> {}] /\ recorded = 0
  /\ call = [c \in Client |-> NoCall]
  /\ granted = [a \in Asked |-> 0] /\ lost = {}
  /\ faults = 0

NewStation(code, status) ==
  [code |-> code, status |-> status,
   decided |-> [by |-> "create", recorded |-> recorded, overtaken |-> FALSE]]

\* Without UNIQUE on the code.
InsertDuplicate(code, status) ==
  /\ \E s \in Fresh(stations) :
       stations' = [stations EXCEPT ![s] = NewStation(code, status)]
  /\ Written([code |-> code])
  /\ UNCHANGED <<channels, openEvents, recorded>>

\* StationStore.Create: UNIQUE refuses a code that is there.
InsertStation(code, status) ==
  /\ \/ /\ ~CodeTaken(code)
        /\ \E s \in Fresh(stations) :
             stations' = [stations EXCEPT ![s] = NewStation(code, status)]
        /\ Written([code |-> code])
     \/ CodeTaken(code) /\ UNCHANGED <<stations, granted, lost, faults>>
  /\ UNCHANGED <<channels, openEvents, recorded>>

\* handleStationCreate stores the status of the body, unchecked.  An insert that
\* fails without a row changes nothing.
CreateStation(c, code, status) ==
  /\ call[c] = NoCall
  /\ InsertStation(code, status)
  /\ UNCHANGED call

\* Register up to the lookup of the code.
Register(c, code) ==
  /\ call[c] = NoCall /\ ~CodeTaken(code)
  /\ call' = [call EXCEPT ![c] = [op |-> "register", code |-> code]]
  /\ UNCHANGED <<stations, channels, openEvents, recorded, granted, lost, faults>>

InsertRegistered(c) ==
  /\ call[c].op = "register"
  /\ InsertStation(call[c].code, "active")
  /\ call' = Returned(c)

Moving(c, s, to, by) ==
  /\ call' = [call EXCEPT ![c] =
       [op |-> "move", station |-> s, to |-> to,
        decided |-> [by |-> by, recorded |-> recorded, overtaken |-> FALSE]]]
  /\ UNCHANGED <<stations, channels, openEvents, recorded, granted, lost, faults>>

\* The edge is not looked up.
SetAnyStatus(c, s, to) ==
  /\ call[c] = NoCall /\ stations[s].status \in Status
  /\ Moving(c, s, to, "SetStatus")

\* SetStatus up to its checks; the caller names the status it starts from.
SetStatus(c, s, to) ==
  /\ call[c] = NoCall /\ stations[s].status \in Status
  /\ <<stations[s].status, to>> \in StatusEdge
  /\ Moving(c, s, to, "SetStatus")

\* Open events do not stand in the way.
DecommissionUnhandled(c, s) ==
  /\ call[c] = NoCall /\ Present(s)
  /\ Moving(c, s, "decommissioned", "Decommission")

\* Decommission up to the count of the open events; any status will do.
Decommission(c, s) ==
  /\ call[c] = NoCall /\ Present(s)
  /\ openEvents[s] = {}
  /\ Moving(c, s, "decommissioned", "Decommission")

\* StationStore.UpdateStatus, by id alone.
UpdateStatus(c) ==
  /\ call[c].op = "move"
  /\ LET s == call[c].station
     IN  /\ stations' = [stations EXCEPT ![s].status = call[c].to,
                                         ![s].decided = call[c].decided]
         /\ call' = [d \in Client |->
              IF d = c THEN NoCall
              ELSE IF call[d].op = "move" /\ call[d].station = s
                   THEN [call[d] EXCEPT !.decided.overtaken = TRUE]
                   ELSE call[d]]
  /\ UNCHANGED <<channels, openEvents, recorded, granted, lost, faults>>
-----------------------------------------------------------------------------
\* ChannelStore.Create: UNIQUE refuses a station's second channel of a code.
InsertChannel(s, code) ==
  /\ \/ /\ ~ChannelTaken(s, code)
        /\ \E k \in Fresh(channels) :
             channels' = [channels EXCEPT ![k] =
               [station |-> s, code |-> code, status |-> "open"]]
        /\ Written([station |-> s, code |-> code])
     \/ ChannelTaken(s, code) /\ UNCHANGED <<channels, granted, lost, faults>>
  /\ UNCHANGED <<stations, openEvents, recorded>>

\* handleChannelCreate, once it has found the station.
CreateChannel(c, s, code) ==
  /\ call[c] = NoCall /\ Present(s)
  /\ InsertChannel(s, code)
  /\ UNCHANGED call

\* AddChannel up to the lookup of the code.
AddChannel(c, s, code) ==
  /\ call[c] = NoCall /\ Present(s) /\ ~ChannelTaken(s, code)
  /\ call' = [call EXCEPT ![c] = [op |-> "add", station |-> s, code |-> code]]
  /\ UNCHANGED <<stations, channels, openEvents, recorded, granted, lost, faults>>

InsertAdded(c) ==
  /\ call[c].op = "add"
  /\ InsertChannel(call[c].station, call[c].code)
  /\ call' = Returned(c)

\* ChannelService.Close up to its check of the status.
ReadToClose(c, k) ==
  /\ call[c] = NoCall /\ channels[k].status = "open"
  /\ call' = [call EXCEPT ![c] = [op |-> "close", channel |-> k]]
  /\ UNCHANGED <<stations, channels, openEvents, recorded, granted, lost, faults>>

\* UPDATE ... WHERE id = ? AND status = 'open', and the count of rows it hit
Close(c) ==
  /\ call[c].op = "close"
  /\ LET k == call[c].channel
     IN  \/ /\ channels[k].status = "open"
            /\ channels' = [channels EXCEPT ![k].status = "closed"]
            /\ Written([channel |-> k])
         \/ channels[k].status # "open" /\ UNCHANGED <<channels, granted, lost, faults>>
  /\ call' = Returned(c)
  /\ UNCHANGED <<stations, openEvents, recorded>>

\* The ingest worker records an event of the station; it does not look at the
\* station's status.
RecordEvent(s) ==
  /\ Present(s) /\ recorded < MaxEvents
  /\ recorded' = recorded + 1
  /\ openEvents' = [openEvents EXCEPT ![s] = @ \cup {recorded + 1}]
  /\ UNCHANGED <<stations, channels, call, granted, lost, faults>>

\* A reviewer acknowledges or resolves one.
ReviewEvent(s, e) ==
  /\ e \in openEvents[s]
  /\ openEvents' = [openEvents EXCEPT ![s] = @ \ {e}]
  /\ UNCHANGED <<stations, channels, recorded, call, granted, lost, faults>>

\* A service's write fails, or the process dies before it.
Fails(c) ==
  /\ call[c] # NoCall
  /\ faults < MaxFaults /\ faults' = faults + 1
  /\ call' = Returned(c)
  /\ UNCHANGED <<stations, channels, openEvents, recorded, granted, lost>>

Next ==
  \/ \E c \in Client :
       \/ \E code \in Code : \/ Register(c, code)
                             \/ \E status \in StoredStatus : CreateStation(c, code, status)
       \/ InsertRegistered(c)
       \/ \E s \in StationId :
            \/ \E to \in Status : SetStatus(c, s, to)
            \/ Decommission(c, s)
            \/ \E code \in ChannelCode : CreateChannel(c, s, code) \/ AddChannel(c, s, code)
       \/ UpdateStatus(c) \/ InsertAdded(c)
       \/ \E k \in ChannelId : ReadToClose(c, k)
       \/ Close(c)
       \/ Fails(c)
  \/ \E s \in StationId : RecordEvent(s) \/ \E e \in Event : ReviewEvent(s, e)

Spec == Init /\ [][Next]_vars
-----------------------------------------------------------------------------
Decision == [by : {"SetStatus", "Decommission"}, recorded : 0..MaxEvents, overtaken : BOOLEAN]

\* Rows and calls keep their types, and a channel belongs to a station.
TypeOK ==
  /\ stations \in [StationId -> {NoRow} \cup StationRow]
  /\ channels \in [ChannelId -> {NoRow} \cup ChannelRow]
  /\ \A k \in ChannelId : channels[k] # NoRow => Present(channels[k].station)
  /\ openEvents \in [StationId -> SUBSET (1..recorded)] /\ recorded \in 0..MaxEvents
  /\ call \in [Client ->
       {NoCall}
         \cup [op : {"register"}, code : Code]
         \cup [op : {"add"}, station : StationId, code : ChannelCode]
         \cup [op : {"close"}, channel : ChannelId]
         \cup [op : {"move"}, station : StationId, to : Status, decided : Decision]]
  /\ granted \in [Asked -> Nat] /\ lost \subseteq Asked /\ faults \in Nat

\* What is there was granted, once, unless its answer was lost; the rest was not.
Reckoned(what, there) ==
  /\ granted[what] = IF there /\ what \notin lost THEN 1 ELSE 0
  /\ what \in lost => there

\* However handlers and services race with their lookups, a station code, a
\* channel of a station and the closing of a channel are granted to at most
\* one caller, to the one whose write is in the table.  What is in the table
\* and was granted to nobody had its answer lost, by a fault for each.  Rows
\* and calls keep their types.
GrantedOnce ==
  /\ TypeOK
  /\ \A code \in Code : Reckoned([code |-> code], CodeTaken(code))
  /\ \A s \in StationId, code \in ChannelCode :
       Reckoned([station |-> s, code |-> code], ChannelTaken(s, code))
  /\ \A k \in ChannelId : Reckoned([channel |-> k], channels[k].status = "closed")
  /\ Cardinality(lost) <= faults

\* A station retired by Decommission has no open event that was recorded
\* before the count: what is open came in between, or later.
RetiredWereHandled ==
  \A s \in StationId :
    (Present(s) /\ stations[s].decided.by = "Decommission")
      => \A e \in openEvents[s] : e > stations[s].decided.recorded

\* A status that was set by a call no other update overtook follows the
\* lifecycle: decommissioned is final for such calls, and a station created
\* without a status can only be decommissioned.
StatusFollowsLifecycle ==
  [][\A s \in StationId :
       (Present(s) /\ stations'[s].status # stations[s].status)
         => \/ <<stations[s].status, stations'[s].status>>
                 \in StatusEdge \cup {<<"", "decommissioned">>}
            \/ stations'[s].decided.overtaken]_vars
=============================================================================
