--------------------------- MODULE SuppressionRules ---------------------------
(***************************************************************************)
(* Suppression rules by the hour (suppression_rule.go): a table with one   *)
(* rule per station code and QC rule, and two readers of it.  Active asks  *)
(* for one event; FilterEvents loads the rules and then the stations, in   *)
(* two calls between which both may change.                                *)
(***************************************************************************)
EXTENDS Naturals, SequencesExt

CONSTANTS
  Code,         \* station codes as the handler stores them
  Upper(_),     \* strings.ToUpper
  Rule,         \* ids of QC rules
  MaxHour,      \* hours are 0..MaxHour-1; 24 in the code
  Client,       \* goroutines that filter
  Batch,        \* lists of events to filter: station and rule
  MaxWrites     \* bound: writes to the rules

SuppressionParameters ==
  /\ \A code \in Code : Upper(code) \in Code /\ Upper(Upper(code)) = Upper(code)
  /\ Batch \subseteq Seq([station : Code, rule : Rule])
  /\ MaxHour \in Nat \ {0} /\ MaxWrites \in Nat

VARIABLES
  rules,        \* the table, by its unique key
  known,        \* stations there are; a station keeps its code
  writes,
  call,         \* what each client's FilterEvents holds
  kept          \* history: the last list each client got, and its circumstances

vars == <<rules, known, writes, call, kept>>

HourOfDay == 0..(MaxHour - 1)

\* Station codes are stored in upper case with the rules.
Key == {Upper(code) : code \in Code} \X Rule

Row == [id : 1..MaxWrites, from : HourOfDay, to : 1..MaxHour, enabled : BOOLEAN]

NoRow == [id |-> 0]
NoCall == [pc |-> "idle"]
NoList == [events |-> <<>>, out |-> <<>>, failed |-> FALSE, ever |-> {}, always |-> {}]

ValidHours(from, to) == from < to

\* [from, to] with both ends
HourHitsClosed(row, hour) == row.from <= hour /\ hour <= row.to

\* [from, to)
HourHits(row, hour) == row.from <= hour /\ hour < row.to

\* What Active answers.
Active(table, rule, code, hour) ==
  LET row == table[<<Upper(code), rule>>]
  IN  row # NoRow /\ row.enabled /\ row.from <= hour /\ hour < row.to

ActiveAmong(table, events, hour) ==
  {e \in Range(events) : Active(table, e.rule, e.station, hour)}

\* The events of a list that are in stay, in order.
Among(events, stay) ==
  LET places == {i \in DOMAIN events : events[i] \in stay}
      Place(i) == Cardinality({j \in places : j <= i})
  IN  [k \in 1..Cardinality(places) |-> events[CHOOSE i \in places : Place(i) = k]]

\* A write to the rules: the filters under way note what it made of their events.
Wrote(table) ==
  /\ rules' = table
  /\ writes' = writes + 1
  /\ call' = [c \in Client |->
       IF call[c] = NoCall THEN NoCall
       ELSE LET now == ActiveAmong(table, call[c].events, call[c].hour)
            IN  [call[c] EXCEPT !.ever = @ \cup now, !.always = @ \cap now]]
  /\ UNCHANGED <<known, kept>>
-----------------------------------------------------------------------------
Init ==
  /\ rules = [k \in Key |-> NoRow]
  /\ known = {} /\ writes = 0
  /\ call = [c \in Client |-> NoCall]
  /\ kept = [c \in Client |-> NoList]

\* handleStationCreate: any code that is not there.
CreateStation(code) ==
  /\ code \notin known
  /\ known' = known \cup {code}
  /\ UNCHANGED <<rules, writes, call, kept>>

\* INSERT ... ON CONFLICT DO UPDATE overwrites all but the id.  Rules are never
\* deleted, so the second query finds the id it returns.
Upsert(code, rule, from, to, enabled) ==
  /\ writes < MaxWrites /\ ValidHours(from, to)
  /\ LET key == <<Upper(code), rule>>
         id == IF rules[key] = NoRow THEN Cardinality({k \in Key : rules[k] # NoRow}) + 1
               ELSE rules[key].id
     IN  Wrote([rules EXCEPT ![key] = [id |-> id, from |-> from, to |-> to, enabled |-> enabled]])

\* Enable, Disable: an error, and nothing else, if no rule has the id.
SetEnabled(id, enabled) ==
  /\ writes < MaxWrites
  /\ \E key \in Key :
       /\ rules[key] # NoRow /\ rules[key].id = id
       /\ Wrote([rules EXCEPT ![key].enabled = enabled])

\* activeRulesAt; ever and always are history, see Wrote.
LoadRules(c, events, hour) ==
  /\ call[c] = NoCall
  /\ LET now == ActiveAmong(rules, events, hour)
     IN  call' = [call EXCEPT ![c] =
           [pc |-> "stations", events |-> events, hour |-> hour,
            hits |-> {k \in Key : /\ rules[k] # NoRow /\ rules[k].enabled
                                  /\ HourHits(rules[k], hour)},
            ever |-> now, always |-> {e \in now : e.station \in known}]]
  /\ UNCHANGED <<rules, known, writes, kept>>

Return(c, events, out, failed, ever, always) ==
  /\ call' = [call EXCEPT ![c] = NoCall]
  /\ kept' = [kept EXCEPT ![c] =
       [events |-> events, out |-> out, failed |-> failed, ever |-> ever, always |-> always]]
  /\ UNCHANGED <<rules, known, writes>>

\* stationCodes, and the loop over the events.  An event of a station that is
\* not known has the code "", which no rule has.
FilterEvents(c) ==
  /\ call[c].pc = "stations"
  /\ LET Hit(e) == e.station \in known /\ <<e.station, e.rule>> \in call[c].hits
     IN  Return(c, call[c].events,
                Among(call[c].events, {e \in Range(call[c].events) : ~Hit(e)}),
                FALSE, call[c].ever, call[c].always)

\* A failing query: the list comes back as it was.
FailOpen(c) ==
  \/ /\ call[c].pc = "stations"
     /\ Return(c, call[c].events, call[c].events, TRUE, call[c].ever, call[c].always)
  \/ /\ call[c] = NoCall
     /\ \E events \in Batch : Return(c, events, events, TRUE, {}, {})

Next ==
  \/ \E code \in Code :
       \/ CreateStation(code)
       \/ \E rule \in Rule, from \in HourOfDay, to \in 1..MaxHour, enabled \in BOOLEAN :
            Upsert(code, rule, from, to, enabled)
  \/ \E id \in 1..MaxWrites, enabled \in BOOLEAN : SetEnabled(id, enabled)
  \/ \E c \in Client :
       \/ \E events \in Batch, hour \in HourOfDay : LoadRules(c, events, hour)
       \/ FilterEvents(c) \/ FailOpen(c)

Spec == Init /\ [][Next]_vars
-----------------------------------------------------------------------------
\* Rules, calls and answers keep their types; no two rules share an id.
TypeOK ==
  /\ rules \in [Key -> Row \cup {NoRow}] /\ known \subseteq Code /\ writes \in 0..MaxWrites
  /\ \A k1, k2 \in Key : (rules[k1] # NoRow /\ rules[k1].id = rules[k2].id) => k1 = k2
  /\ \A c \in Client :
       \/ call[c] = NoCall
       \/ /\ call[c].pc = "stations" /\ call[c].events \in Batch /\ call[c].hour \in HourOfDay
          /\ call[c].hits \subseteq Key
          /\ call[c].always \subseteq call[c].ever
          /\ call[c].ever \subseteq Range(call[c].events)
  /\ \A c \in Client : Range(kept[c].out) \subseteq Range(kept[c].events)

\* The bulk filter agrees with the single question, whatever is written
\* meanwhile: it drops only events that Active would have suppressed at some
\* time of the call, keeps the others in order, and drops every event that
\* Active would have suppressed throughout, unless a query failed, the station
\* was unknown, or its code was stored in lower case, which FilterEvents, unlike
\* Active, does not convert.  Rows and calls keep their types.
FilterAgreesWithActive ==
  /\ TypeOK
  /\ \A c \in Client :
       LET list == kept[c]
           out == Range(list.out)
       IN  /\ Range(list.events) \ list.ever \subseteq out
           /\ list.out = Among(list.events, out)
           /\ list.failed => list.out = list.events
           /\ ~list.failed =>
                \A e \in list.always : e \in out => Upper(e.station) # e.station
=============================================================================
