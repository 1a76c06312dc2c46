---------------------------- MODULE StationGroups ----------------------------
(***************************************************************************)
(* Station groups (station_group.go): Create resolves its station codes    *)
(* one by one, inserts the group and then its members one by one, without  *)
(* a transaction, while others add and remove stations.                    *)
(***************************************************************************)
EXTENDS Naturals, SequencesExt

CONSTANTS
  Code,         \* station codes, in upper case
  Name,         \* names of groups
  Client,       \* goroutines that serve requests
  MaxGroups,    \* bound: rows of station_groups
  MaxFaults     \* bound: failing calls

GroupsParameters == {MaxGroups, MaxFaults} \subseteq Nat

VARIABLES
  known,        \* stations there are; none is ever deleted
  names,        \* station_groups: names in the order of ids
  members,      \* station_group_members: for each id, its codes
  call,         \* what each client's Create holds
  asked,        \* history: for each id, the codes it was created with
  created,      \* history: for each id, whether its Create has succeeded
  removed,      \* history: for each id, the codes RemoveStation took out
  faults, clashes

vars == <<known, names, members, call, asked, created, removed, faults, clashes>>

NoCall == [pc |-> "idle"]

Id == 1..Len(names)

Goes(c, record) == call' = [call EXCEPT ![c] = record]

\* The normalised codes of a request, each once, in any order.
Request == UNION {SetToSeqs(S) : S \in {S \in SUBSET Code : S # {} /\ IsFiniteSet(S)}}
-----------------------------------------------------------------------------
Init ==
  /\ known = {} /\ names = <<>> /\ members = <<>>
  /\ call = [c \in Client |-> NoCall]
  /\ asked = <<>> /\ created = <<>> /\ removed = <<>>
  /\ faults = 0 /\ clashes = 0

CreateStation(code) ==
  /\ code \notin known /\ known' = known \cup {code}
  /\ UNCHANGED <<names, members, call, asked, created, removed, faults, clashes>>

Create(c, name, codes) ==
  /\ call[c] = NoCall
  /\ Goes(c, [pc |-> "resolve", name |-> name, codes |-> codes, left |-> codes])
  /\ UNCHANGED <<known, names, members, asked, created, removed, faults, clashes>>

\* One turn of resolveMembers' loop; an unknown code ends the call.
Resolve(c) ==
  /\ call[c].pc = "resolve" /\ call[c].left # <<>>
  /\ Goes(c, IF Head(call[c].left) \in known THEN [call[c] EXCEPT !.left = Tail(@)] ELSE NoCall)
  /\ UNCHANGED <<known, names, members, asked, created, removed, faults, clashes>>

\* UNIQUE refuses a name that is there.
InsertGroup(c) ==
  /\ call[c].pc = "resolve" /\ call[c].left = <<>>
  /\ \/ /\ call[c].name \in Range(names)
        /\ Goes(c, NoCall)
        /\ UNCHANGED <<names, members, asked, created, removed>>
     \/ /\ call[c].name \notin Range(names) /\ Len(names) < MaxGroups
        /\ names' = Append(names, call[c].name) /\ members' = Append(members, {})
        /\ Goes(c, [pc |-> "fill", id |-> Len(names'), left |-> call[c].codes])
        /\ asked' = Append(asked, Range(call[c].codes))
        /\ created' = Append(created, FALSE) /\ removed' = Append(removed, {})
  /\ UNCHANGED <<known, faults, clashes>>

\* The primary key refuses a station that AddStation has put there meanwhile,
\* and the rest of the members are not inserted.
InsertMember(c) ==
  /\ call[c].pc = "fill" /\ call[c].left # <<>>
  /\ LET id == call[c].id
         code == Head(call[c].left)
     IN  \/ /\ code \in members[id]
            /\ Goes(c, NoCall) /\ clashes' = clashes + 1
            /\ UNCHANGED members
         \/ /\ code \notin members[id]
            /\ members' = [members EXCEPT ![id] = @ \cup {code}]
            /\ Goes(c, [call[c] EXCEPT !.left = Tail(@)])
            /\ UNCHANGED clashes
  /\ UNCHANGED <<known, names, asked, created, removed, faults>>

\* The last code of the request is forgotten.
AnswerEarly(c) ==
  /\ call[c].pc = "fill" /\ Len(call[c].left) <= 1
  /\ created' = [created EXCEPT ![call[c].id] = TRUE]
  /\ Goes(c, NoCall)
  /\ UNCHANGED <<known, names, members, asked, removed, faults, clashes>>

\* Get: the group is there, its members are what they are by now.
Answer(c) ==
  /\ call[c].pc = "fill" /\ call[c].left = <<>>
  /\ created' = [created EXCEPT ![call[c].id] = TRUE]
  /\ Goes(c, NoCall)
  /\ UNCHANGED <<known, names, members, asked, removed, faults, clashes>>

\* Group and station are looked up first; as neither is ever deleted the
\* lookups and the insert may be taken for one step.
AddStation(id, code) ==
  /\ id \in Id /\ code \in known
  /\ members' = [members EXCEPT ![id] = @ \cup {code}]
  /\ UNCHANGED <<known, names, call, asked, created, removed, faults, clashes>>

\* An error, and nothing else, if the station is not a member.
RemoveStation(id, code) ==
  /\ id \in Id /\ code \in members[id]
  /\ members' = [members EXCEPT ![id] = @ \ {code}]
  /\ removed' = [removed EXCEPT ![id] = @ \cup {code}]
  /\ UNCHANGED <<known, names, call, asked, created, faults, clashes>>

\* A database call fails, or the process dies before it.
Fails(c) ==
  /\ call[c] # NoCall
  /\ faults < MaxFaults /\ faults' = faults + 1
  /\ Goes(c, NoCall)
  /\ UNCHANGED <<known, names, members, asked, created, removed, clashes>>

Next ==
  \/ \E code \in Code :
       \/ CreateStation(code)
       \/ \E id \in 1..MaxGroups : AddStation(id, code) \/ RemoveStation(id, code)
  \/ \E c \in Client :
       \/ \E name \in Name, codes \in Request : Create(c, name, codes)
       \/ Resolve(c) \/ InsertGroup(c) \/ InsertMember(c) \/ Answer(c) \/ Fails(c)

Spec == Init /\ [][Next]_vars
-----------------------------------------------------------------------------
\* Tables, calls and histories keep their types.
TypeOK ==
  /\ known \subseteq Code /\ names \in Seq(Name) /\ Len(names) <= MaxGroups
  /\ \A h \in {members, asked, removed} : h \in Seq(SUBSET Code) /\ Len(h) = Len(names)
  /\ created \in Seq(BOOLEAN) /\ Len(created) = Len(names)
  /\ \A c \in Client :
       \/ call[c] = NoCall
       \/ /\ call[c].pc = "resolve" /\ call[c].name \in Name /\ call[c].codes \in Request
          /\ IsSuffix(call[c].left, call[c].codes)
       \/ call[c].pc = "fill" /\ call[c].id \in Id /\ Range(call[c].left) \subseteq asked[call[c].id]
  /\ faults \in 0..MaxFaults /\ clashes \in 0..MaxGroups

Filling(id) == \E c \in Client : call[c].pc = "fill" /\ call[c].id = id

\* A group whose Create was answered has every station it was asked to have,
\* less those that were removed since it was inserted; members are stations
\* there are; a name is given to one group.  A group that was neither answered
\* nor is under way is a remainder, whose name is taken for good: there is one
\* at most for each failed call and for each station that was added before
\* Create came to it.  Tables and calls keep their types.
GroupsComplete ==
  /\ TypeOK
  /\ \A id \in Id :
       /\ created[id] => asked[id] \subseteq members[id] \cup removed[id]
       /\ members[id] \subseteq known
       /\ \A other \in Id : names[other] = names[id] => other = id
  /\ Cardinality({id \in Id : ~created[id] /\ ~Filling(id)}) <= faults + clashes
=============================================================================
