------------------------------ MODULE DeskProofs ------------------------------
(***************************************************************************)
(* What holds of the parts of OperatorDesk for any number of clients,      *)
(* callers, stations, alerts, rules, frames and failures.  The operators   *)
(* of finite sets that an instance brings along are copies; the lemmas on  *)
(* Cardinality tie them to the library's.                                  *)
(***************************************************************************)
EXTENDS OperatorDesk, CountingLemmas

LEMMA AppendFacts ==
  ASSUME NEW S, NEW s \in Seq(S), NEW x
  PROVE  LET t == Append(s, x)
         IN  /\ Len(s) \in Nat /\ Len(t) = Len(s) + 1 /\ t[Len(s) + 1] = x
             /\ \A i \in 1..Len(s) : t[i] = s[i]
             /\ x \in S => t \in Seq(S)
OBVIOUS

LEMMA AppendKeeps ==
  ASSUME NEW S, NEW s \in Seq(S), NEW x
  PROVE  \A i \in 1..Len(s) : Append(s, x)[i] = s[i]
OBVIOUS

LEMMA TailFacts ==
  ASSUME NEW S, NEW s \in Seq(S), s # <<>>
  PROVE  /\ Len(s) \in Nat \ {0} /\ Head(s) = s[1] /\ Head(s) \in S /\ Tail(s) \in Seq(S)
         /\ Len(Tail(s)) = Len(s) - 1 /\ \A i \in 1..Len(Tail(s)) : Tail(s)[i] = s[i + 1]
OBVIOUS

LEMMA CountUpTo ==
  ASSUME NEW n \in Nat
  PROVE  IsFiniteSet(1..n) /\ Cardinality(1..n) = n
<1>1. 1 \in Int /\ n \in Int /\ (1 > n => n = 0)
  OBVIOUS
<1> QED
  BY <1>1, FS_Interval

LEMMA PartSmaller ==
  ASSUME NEW T, IsFiniteSet(T), NEW S, S \subseteq T
  PROVE  /\ IsFiniteSet(S) /\ Cardinality(S) \in Nat /\ Cardinality(T) \in Nat
         /\ Cardinality(S) <= Cardinality(T)
<1>1. S \in SUBSET T
  OBVIOUS
<1> QED
  BY <1>1, FS_Subset, FS_CardinalityType

-----------------------------------------------------------------------------
(* Station groups. *)

Resolving == [pc : {"resolve"}, name : Name, codes : Groups!Request, left : Seq(Code)]
Inserting == [pc : {"fill"}, id : Nat, left : Seq(Code)]

Fills(c) == creating[c].pc = "fill"

\* The types of the tables; each group has its place in all of them.
GroupTables ==
  /\ known \subseteq Code /\ names \in Seq(Name) /\ Len(names) <= MaxGroups
  /\ members \in Seq(SUBSET Code) /\ Len(members) = Len(names)
  /\ asked \in Seq(SUBSET Code) /\ Len(asked) = Len(names)
  /\ removed \in Seq(SUBSET Code) /\ Len(removed) = Len(names)
  /\ created \in Seq(BOOLEAN) /\ Len(created) = Len(names)
  /\ faults \in 0..MaxFaults /\ clashes \in Nat

\* What is not resolved yet is the rest of the request; what is not inserted
\* yet is all that the group lacks.
CallOK(c) ==
  LET now == creating[c]
  IN  \/ now = Groups!NoCall
      \/ /\ now \in Resolving /\ Groups!IsSuffix(now.left, now.codes)
         /\ Groups!Range(now.codes) \subseteq known \cup Groups!Range(now.left)
      \/ /\ now \in Inserting /\ now.id \in Groups!Id /\ ~created[now.id]
         /\ Groups!Range(now.left) \subseteq asked[now.id] /\ asked[now.id] \subseteq known
         /\ asked[now.id] \subseteq members[now.id] \cup removed[now.id] \cup Groups!Range(now.left)

\* A group has one call that fills it.
GroupCalls ==
  /\ creating \in [Client -> {Groups!NoCall} \cup Resolving \cup Inserting]
  /\ \A c \in Client : CallOK(c)
  /\ \A c, d \in Client : Fills(c) /\ Fills(d) /\ creating[c].id = creating[d].id => c = d

\* Groups that were neither answered nor are under way.
Remainders == {id \in Groups!Id : ~created[id] /\ ~Groups!Filling(id)}

\* What holds of a group: complete once answered, and alone with its name.
GroupRows ==
  \A id \in Groups!Id :
    /\ created[id] => asked[id] \subseteq members[id] \cup removed[id]
    /\ members[id] \subseteq known
    /\ \A other \in Groups!Id : names[other] = names[id] => other = id

\* Each clash leaves a remainder, and nothing but a clash and a fault does.
GroupsInv ==
  /\ GroupTables /\ GroupCalls /\ GroupRows
  /\ clashes <= Cardinality(Remainders) /\ Cardinality(Remainders) <= faults + clashes

LEMMA RangeFacts ==
  ASSUME NEW s \in Seq(Code)
  PROVE  /\ Groups!Range(s) \subseteq Code /\ \A i \in 1..Len(s) : s[i] \in Groups!Range(s)
         /\ s = <<>> => Groups!Range(s) = {}
         /\ s # <<>> => /\ Groups!Range(s) = {Head(s)} \cup Groups!Range(Tail(s))
<1>1. /\ Groups!Range(s) \subseteq Code /\ \A i \in 1..Len(s) : s[i] \in Groups!Range(s)
      /\ s = <<>> => Groups!Range(s) = {}
  BY DEF Groups!Range
<1>2. ASSUME s # <<>> PROVE Groups!Range(s) = {Head(s)} \cup Groups!Range(Tail(s))
  <2>1. /\ Len(s) \in Nat \ {0} /\ Head(s) = s[1] /\ Tail(s) \in Seq(Code)
        /\ Len(Tail(s)) = Len(s) - 1 /\ \A i \in 1..Len(Tail(s)) : Tail(s)[i] = s[i + 1]
    BY <1>2, TailFacts
  <2>2. \A i \in 1..Len(s) : i = 1 \/ (i - 1 \in 1..Len(Tail(s)) /\ s[i] = Tail(s)[i - 1])
    BY <2>1
  <2>3. \A i \in 1..Len(Tail(s)) : i + 1 \in 1..Len(s)
    BY <2>1
  <2>4. DOMAIN s = 1..Len(s) /\ DOMAIN Tail(s) = 1..Len(Tail(s)) /\ 1 \in 1..Len(s)
    BY <2>1
  <2>5. Groups!Range(s) \subseteq {Head(s)} \cup Groups!Range(Tail(s))
    <3> SUFFICES ASSUME NEW i \in 1..Len(s)
                 PROVE  s[i] = Head(s) \/ \E k \in 1..Len(Tail(s)) : Tail(s)[k] = s[i]
      BY <2>4 DEF Groups!Range
    <3> QED
      BY <2>1, <2>2
  <2>6. {Head(s)} \cup Groups!Range(Tail(s)) \subseteq Groups!Range(s)
    <3>1. Head(s) \in Groups!Range(s)
      BY <2>1, <1>1, <2>4
    <3>2. ASSUME NEW i \in 1..Len(Tail(s)) PROVE Tail(s)[i] \in Groups!Range(s)
      BY <2>1, <2>3, <1>1
    <3> QED
      BY <3>1, <3>2, <2>4 DEF Groups!Range
  <2> QED
    BY <2>5, <2>6
<1> QED
  BY <1>1, <1>2

\* Each instance has finite sets of its own.
LEMMA GroupsFinite == \A S : Groups!IsFiniteSet(S) <=> IsFiniteSet(S)
BY Zenon DEF Groups!IsFiniteSet, IsFiniteSet

LEMMA GroupsCardinality == \A S : Groups!Cardinality(S) = Cardinality(S)
BY Zenon DEF Groups!Cardinality, Cardinality

\* Requests are sequences.
LEMMA RequestType == Groups!Request \subseteq Seq(Code)
<1> SUFFICES ASSUME NEW codes \in Groups!Request PROVE codes \in Seq(Code)
  OBVIOUS
<1>1. PICK S \in {S \in SUBSET Code : S # {} /\ IsFiniteSet(S)} : codes \in Groups!SetToSeqs(S)
  BY GroupsFinite DEF Groups!Request
<1>2. Cardinality(S) \in Nat
  BY <1>1, FS_CardinalityType
<1> DEFINE D == 1..Cardinality(S)
<1>3. codes \in {f \in [D -> S] : \A i, j \in D : i # j => f[i] # f[j]}
  BY <1>1, GroupsCardinality DEF Groups!SetToSeqs
<1>4. codes \in [1..Cardinality(S) -> Code]
  BY <1>3
<1> QED
  BY <1>2, <1>4

LEMMA SuffixFacts ==
  ASSUME NEW s \in Seq(Code), NEW t \in Seq(Code)
  PROVE  Groups!IsSuffix(s, t) <=>
           /\ Len(s) <= Len(t)
           /\ \A i \in 1..Len(s) : s[i] = t[Len(t) - Len(s) + i]
<1> DEFINE r == Groups!Reverse(s)
           q == Groups!Reverse(t)
<1>1. /\ Len(s) \in Nat /\ r \in Seq(Code) /\ Len(r) = Len(s)
      /\ \A i \in 1..Len(s) : r[i] = s[Len(s) - i + 1]
  BY DEF Groups!Reverse
<1>2. /\ Len(t) \in Nat /\ q \in Seq(Code) /\ Len(q) = Len(t)
      /\ \A i \in 1..Len(t) : q[i] = t[Len(t) - i + 1]
  BY DEF Groups!Reverse
<1> HIDE DEF r, q
<1>3. ASSUME Len(s) <= Len(t)
      PROVE  SubSeq(r, 1, Len(r)) = SubSeq(q, 1, Len(r)) <=> \A i \in 1..Len(s) : r[i] = q[i]
  <2>1. /\ Len(SubSeq(r, 1, Len(r))) = Len(s) /\ Len(SubSeq(q, 1, Len(r))) = Len(s)
        /\ SubSeq(r, 1, Len(r)) \in Seq(Code) /\ SubSeq(q, 1, Len(r)) \in Seq(Code)
        /\ \A i \in 1..Len(s) : /\ SubSeq(r, 1, Len(r))[i] = r[i]
                                /\ SubSeq(q, 1, Len(r))[i] = q[i]
    BY <1>1, <1>2, <1>3
  <2> QED
    BY <1>1, <2>1
<1>4. ASSUME Len(s) <= Len(t)
      PROVE  (\A i \in 1..Len(s) : r[i] = q[i])
               <=> \A i \in 1..Len(s) : s[i] = t[Len(t) - Len(s) + i]
  <2>1. \A i \in 1..Len(s) : /\ Len(s) - i + 1 \in 1..Len(s) /\ Len(s) - (Len(s) - i + 1) + 1 = i
                             /\ Len(t) - (Len(s) - i + 1) + 1 = Len(t) - Len(s) + i
                             /\ i \in 1..Len(t) /\ Len(s) - i + 1 \in 1..Len(t)
    BY <1>1, <1>2, <1>4
  <2>2. \A i \in 1..Len(s) : /\ r[Len(s) - i + 1] = s[i]
                             /\ q[Len(s) - i + 1] = t[Len(t) - Len(s) + i]
    BY <1>1, <1>2, <2>1
  <2>3. ASSUME \A i \in 1..Len(s) : s[i] = t[Len(t) - Len(s) + i], NEW i \in 1..Len(s)
        PROVE  r[i] = q[i]
    <3>1. PICK k \in 1..Len(s) : Len(s) - k + 1 = i
      BY <2>1
    <3> QED
      BY <2>2, <2>3, <3>1
  <2> QED
    BY <2>1, <2>2, <2>3
<1> QED
  BY <1>1, <1>2, <1>3, <1>4 DEF r, q, Groups!IsSuffix, Groups!IsPrefix
LEMMA CallCases ==
  ASSUME GroupsInv, NEW c \in Client
  PROVE  /\ CallOK(c) /\ creating[c] \in {Groups!NoCall} \cup Resolving \cup Inserting
         /\ creating[c].pc = "resolve" => creating[c] \in Resolving
         /\ creating[c].pc = "fill" => creating[c] \in Inserting
         /\ creating[c] = Groups!NoCall => creating[c].pc = "idle"
BY DEF GroupsInv, GroupCalls, Resolving, Inserting, Groups!NoCall

\* What a call relies on is not taken from it by the steps of others.
LEMMA CallKept ==
  ASSUME GroupsInv, NEW d \in Client, creating'[d] = creating[d],
         known \subseteq known', Groups!Id \subseteq Groups!Id',
         \A id \in Groups!Id :
           /\ asked'[id] = asked[id]
           /\ members[id] \cup removed[id] \subseteq members'[id] \cup removed'[id],
         Fills(d) => created'[creating[d].id] = created[creating[d].id]
  PROVE  CallOK(d)'
<1>1. CallOK(d)
  BY DEF GroupsInv, GroupCalls
<1>2. CASE creating[d] = Groups!NoCall
  BY <1>2 DEF CallOK, Groups!NoCall
<1>3. CASE /\ creating[d] \in Resolving /\ Groups!IsSuffix(creating[d].left, creating[d].codes)
           /\ Groups!Range(creating[d].codes) \subseteq known \cup Groups!Range(creating[d].left)
  <2>1. /\ creating'[d] \in Resolving /\ Groups!IsSuffix(creating'[d].left, creating'[d].codes)
        /\ Groups!Range(creating'[d].codes) \subseteq known' \cup Groups!Range(creating'[d].left)
    BY <1>3
  <2> QED
    BY <2>1 DEF CallOK
<1>4. CASE /\ creating[d] \in Inserting /\ creating[d].id \in Groups!Id /\ ~created[creating[d].id]
           /\ Groups!Range(creating[d].left) \subseteq asked[creating[d].id]
           /\ asked[creating[d].id] \subseteq known
           /\ asked[creating[d].id] \subseteq members[creating[d].id] \cup removed[creating[d].id]
                                             \cup Groups!Range(creating[d].left)
  <2>1. creating[d].pc = "fill"
    BY <1>4 DEF Inserting
  <2> DEFINE id == creating[d].id
             left == creating[d].left
  <2>2. /\ creating'[d].id = id /\ creating'[d].left = left /\ creating'[d] \in Inserting
        /\ id \in Groups!Id' /\ ~created'[id] /\ asked'[id] = asked[id]
        /\ members[id] \cup removed[id] \subseteq members'[id] \cup removed'[id]
    BY <1>4, <2>1 DEF Fills
  <2>3. /\ Groups!Range(left) \subseteq asked'[id] /\ asked'[id] \subseteq known'
        /\ asked'[id] \subseteq members'[id] \cup removed'[id] \cup Groups!Range(left)
    BY <1>4, <2>2
  <2> QED
    BY <2>2, <2>3 DEF CallOK, Inserting, Groups!Range
<1> QED
  BY <1>1, <1>2, <1>3, <1>4 DEF CallOK

LEMMA RemaindersCount ==
  ASSUME GroupsInv
  PROVE  /\ IsFiniteSet(Remainders) /\ Cardinality(Remainders) \in Nat
         /\ Cardinality(Remainders) <= Len(names)
<1>1. Len(names) \in Nat /\ Groups!Id = 1..Len(names) /\ Remainders \in SUBSET (1..Len(names))
  BY DEF GroupsInv, GroupTables, Groups!Id, Remainders
<1>2. IsFiniteSet(1..Len(names)) /\ Cardinality(1..Len(names)) = Len(names)
  BY <1>1, CountUpTo
<1> QED
  BY <1>1, <1>2, FS_Subset, FS_CardinalityType

LEMMA RemaindersSame ==
  ASSUME GroupsInv, Remainders' = Remainders, clashes' = clashes,
         faults' \in Nat, faults <= faults'
  PROVE  clashes' <= Cardinality(Remainders)' /\ Cardinality(Remainders)' <= faults' + clashes'
<1>1. Cardinality(Remainders) \in Nat /\ clashes \in Nat /\ faults \in Nat
  BY RemaindersCount DEF GroupsInv, GroupTables
<1> QED
  BY <1>1 DEF GroupsInv

LEMMA RemaindersGrow ==
  ASSUME GroupsInv, NEW id, id \notin Remainders, Remainders' = Remainders \cup {id},
         \/ clashes' = clashes + 1 /\ faults' = faults
         \/ clashes' = clashes /\ faults' = faults + 1
  PROVE  clashes' <= Cardinality(Remainders)' /\ Cardinality(Remainders)' <= faults' + clashes'
<1>1. IsFiniteSet(Remainders) /\ Cardinality(Remainders) \in Nat /\ clashes \in Nat /\ faults \in Nat
  BY RemaindersCount DEF GroupsInv, GroupTables
<1>2. Cardinality(Remainders \cup {id}) = Cardinality(Remainders) + 1
  BY <1>1, FS_AddElement
<1>3. Cardinality(Remainders)' = Cardinality(Remainders) + 1
  BY <1>2
<1> QED
  BY <1>1, <1>3 DEF GroupsInv

\* A step of a call that fills no group.
LEMMA GroupsCallStep ==
  ASSUME GroupsInv, NEW c \in Client, ~Fills(c),
         UNCHANGED <<known, names, members, asked, created, removed, clashes>>,
         faults' \in Nat, faults <= faults', faults' <= MaxFaults, MaxFaults \in Nat,
         creating' \in [Client -> {Groups!NoCall} \cup Resolving \cup Inserting],
         \A d \in Client \ {c} : creating'[d] = creating[d],
         creating'[c].pc # "fill", CallOK(c)'
  PROVE  GroupsInv'
<1>1. GroupTables'
  BY DEF GroupsInv, GroupTables
<1>2. \A d \in Client : (creating'[d].pc = "fill" <=> creating[d].pc = "fill")
                         /\ (creating[d].pc = "fill" => creating'[d] = creating[d])
  BY DEF Fills
<1>3. \A d \in Client : CallOK(d)'
  <2> SUFFICES ASSUME NEW d \in Client, d # c PROVE CallOK(d)'
    OBVIOUS
  <2>1. Groups!Id' = Groups!Id
    BY DEF Groups!Id
  <2> QED
    BY CallKept, <2>1
<1>4. GroupCalls'
  BY <1>2, <1>3 DEF GroupsInv, GroupCalls, Fills
<1>5. GroupRows'
  BY DEF GroupsInv, GroupRows, Groups!Id
<1>6. Remainders' = Remainders
  <2>1. \A id : Groups!Filling(id)' <=> Groups!Filling(id)
    BY <1>2 DEF Groups!Filling
  <2>2. Groups!Id' = Groups!Id
    BY DEF Groups!Id
  <2> QED
    BY <2>1, <2>2 DEF Remainders
<1> QED
  BY <1>1, <1>4, <1>5, <1>6, RemaindersSame DEF GroupsInv

\* A step of the stations, or of a group's members, beside the calls.
LEMMA GroupsTableStep ==
  ASSUME GroupsInv, UNCHANGED <<names, creating, asked, created, faults, clashes>>,
         known \subseteq known', known' \subseteq Code,
         members' \in Seq(SUBSET Code), Len(members') = Len(names),
         removed' \in Seq(SUBSET Code), Len(removed') = Len(names),
         \A id \in Groups!Id : /\ members[id] \cup removed[id] \subseteq members'[id] \cup removed'[id]
                               /\ members'[id] \subseteq known'
  PROVE  GroupsInv'
<1>1. Groups!Id' = Groups!Id
  BY DEF Groups!Id
<1>2. GroupTables'
  BY DEF GroupsInv, GroupTables
<1>3. \A d \in Client : CallOK(d)'
  <2> TAKE d \in Client
  <2> QED
    BY <1>1, CallKept
<1>4. GroupCalls'
  BY <1>3 DEF GroupsInv, GroupCalls, Fills
<1>5. GroupRows'
  <2> SUFFICES ASSUME NEW id \in Groups!Id
               PROVE  /\ created[id] => asked[id] \subseteq members'[id] \cup removed'[id]
                      /\ members'[id] \subseteq known'
                      /\ \A other \in Groups!Id : names[other] = names[id] => other = id
    BY <1>1 DEF GroupRows
  <2> QED
    BY DEF GroupsInv, GroupRows
<1>6. Remainders' = Remainders
  BY <1>1 DEF Remainders, Groups!Filling
<1>7. faults \in Nat
  BY DEF GroupsInv, GroupTables
<1> QED
  BY <1>2, <1>4, <1>5, <1>6, <1>7, RemaindersSame DEF GroupsInv

LEMMA CreateKeeps ==
  ASSUME GroupsInv, MaxFaults \in Nat, NEW c \in Client, NEW name \in Name,
         NEW codes \in Groups!Request, Groups!Create(c, name, codes)
  PROVE  GroupsInv'
<1> DEFINE now == [pc |-> "resolve", name |-> name, codes |-> codes, left |-> codes]
<1>1. codes \in Seq(Code)
  BY RequestType
<1>2. now \in Resolving /\ now.pc = "resolve" /\ now.left = codes /\ now.codes = codes
  BY <1>1 DEF Resolving
<1>3. Groups!IsSuffix(codes, codes)
  BY <1>1, SuffixFacts
<1>4. /\ creating \in [Client -> {Groups!NoCall} \cup Resolving \cup Inserting]
      /\ creating' = [creating EXCEPT ![c] = now] /\ ~Fills(c)
  BY CallCases DEF Groups!Create, Groups!Goes, GroupsInv, GroupCalls, Fills
<1> HIDE DEF now
<1>5. /\ creating' \in [Client -> {Groups!NoCall} \cup Resolving \cup Inserting]
      /\ creating'[c] = now /\ \A d \in Client \ {c} : creating'[d] = creating[d]
  BY <1>2, <1>4
<1>6. CallOK(c)'
  BY <1>2, <1>3, <1>5 DEF CallOK
<1>7. /\ UNCHANGED <<known, names, members, asked, created, removed, faults, clashes>>
      /\ faults \in 0..MaxFaults
  BY DEF Groups!Create, GroupsInv, GroupTables
<1> QED
  BY <1>2, <1>4, <1>5, <1>6, <1>7, GroupsCallStep

\* A call that ends and has filled no group.
LEMMA CallEnds ==
  ASSUME GroupsInv, MaxFaults \in Nat, NEW c \in Client, ~Fills(c), Groups!Goes(c, Groups!NoCall),
         UNCHANGED <<known, names, members, asked, created, removed, clashes>>,
         faults' \in Nat, faults <= faults', faults' <= MaxFaults
  PROVE  GroupsInv'
<1>1. /\ creating' = [creating EXCEPT ![c] = Groups!NoCall]
      /\ creating \in [Client -> {Groups!NoCall} \cup Resolving \cup Inserting]
  BY DEF Groups!Goes, GroupsInv, GroupCalls
<1>2. /\ creating' \in [Client -> {Groups!NoCall} \cup Resolving \cup Inserting]
      /\ creating'[c] = Groups!NoCall /\ \A d \in Client \ {c} : creating'[d] = creating[d]
  BY <1>1
<1>3. CallOK(c)' /\ creating'[c].pc # "fill"
  BY <1>2 DEF CallOK, Groups!NoCall
<1> QED
  BY <1>2, <1>3, GroupsCallStep

LEMMA ResolveKeeps ==
  ASSUME GroupsInv, MaxFaults \in Nat, NEW c \in Client, Groups!Resolve(c)
  PROVE  GroupsInv'
<1> DEFINE now == [creating[c] EXCEPT !.left = Tail(@)]
<1>1. /\ UNCHANGED <<known, names, members, asked, created, removed, faults, clashes>>
      /\ faults \in 0..MaxFaults
      /\ creating \in [Client -> {Groups!NoCall} \cup Resolving \cup Inserting]
      /\ creating[c].pc = "resolve" /\ creating[c].left # <<>>
  BY DEF Groups!Resolve, GroupsInv, GroupTables, GroupCalls
<1>2. /\ creating[c] \in Resolving /\ ~Fills(c)
      /\ Groups!IsSuffix(creating[c].left, creating[c].codes)
      /\ Groups!Range(creating[c].codes) \subseteq known \cup Groups!Range(creating[c].left)
  BY <1>1, CallCases DEF CallOK, Resolving, Inserting, Groups!NoCall, Fills
<1>3. CASE Head(creating[c].left) \notin known
  <2>1. Groups!Goes(c, Groups!NoCall)
    BY <1>3 DEF Groups!Resolve
  <2> QED
    BY <1>1, <1>2, <2>1, CallEnds
<1>4. CASE Head(creating[c].left) \in known
  <2> DEFINE left == creating[c].left
             codes == creating[c].codes
  <2>1. creating' = [creating EXCEPT ![c] = now]
    BY <1>4 DEF Groups!Resolve, Groups!Goes
  <2>2. left \in Seq(Code) /\ codes \in Seq(Code)
    BY <1>2, RequestType DEF Resolving
  <2>3. /\ Tail(left) \in Seq(Code) /\ Groups!Range(left) = {Head(left)} \cup Groups!Range(Tail(left))
        /\ Len(left) \in Nat \ {0} /\ Len(Tail(left)) = Len(left) - 1
        /\ \A i \in 1..Len(Tail(left)) : Tail(left)[i] = left[i + 1]
    BY <1>1, <2>2, TailFacts, RangeFacts
  <2>4. /\ now \in Resolving /\ now.left = Tail(left) /\ now.codes = codes /\ now.pc = "resolve"
    BY <1>2, <2>3 DEF Resolving
  <2>5. Groups!IsSuffix(Tail(left), codes)
    <3>1. Len(left) <= Len(codes) /\ \A i \in 1..Len(left) : left[i] = codes[Len(codes) - Len(left) + i]
      BY <1>2, <2>2, SuffixFacts
    <3>2. Len(codes) \in Nat
      BY <2>2
    <3>3. ASSUME NEW i \in 1..Len(Tail(left))
          PROVE  Tail(left)[i] = codes[Len(codes) - Len(Tail(left)) + i]
      <4>1. i + 1 \in 1..Len(left) /\ Len(codes) - Len(left) + (i + 1) = Len(codes) - Len(Tail(left)) + i
        <5>1. Len(left) \in Nat \ {0} /\ Len(Tail(left)) = Len(left) - 1 /\ i \in 1..Len(Tail(left))
          BY <2>3
        <5> HIDE DEF left, codes
        <5> QED
          BY <3>2, <5>1
      <4> QED
        BY <2>3, <3>1, <4>1
    <3>4. Len(Tail(left)) <= Len(codes)
      <4>1. Len(left) \in Nat \ {0} /\ Len(Tail(left)) = Len(left) - 1
        BY <2>3
      <4> HIDE DEF left, codes
      <4> QED
        BY <3>1, <3>2, <4>1
    <3>5. Tail(left) \in Seq(Code)
      BY <2>3
    <3> HIDE DEF left, codes
    <3> QED
      BY <2>2, <3>3, <3>4, <3>5, SuffixFacts
  <2> HIDE DEF now
  <2>6. /\ creating' \in [Client -> {Groups!NoCall} \cup Resolving \cup Inserting]
        /\ creating'[c] = now /\ \A d \in Client \ {c} : creating'[d] = creating[d]
    BY <1>1, <2>1, <2>4
  <2>7. Groups!Range(codes) \subseteq known \cup Groups!Range(Tail(left))
    BY <1>2, <1>4, <2>3
  <2>8. CallOK(c)'
    BY <1>1, <2>4, <2>5, <2>6, <2>7 DEF CallOK
  <2> QED
    BY <1>1, <1>2, <2>4, <2>6, <2>8, GroupsCallStep
<1> QED
  BY <1>3, <1>4

LEMMA InsertGroupKeeps ==
  ASSUME GroupsInv, {MaxGroups, MaxFaults} \subseteq Nat, NEW c \in Client, Groups!InsertGroup(c)
  PROVE  GroupsInv'
<1>1. /\ UNCHANGED <<known, faults, clashes>> /\ faults \in 0..MaxFaults
      /\ creating \in [Client -> {Groups!NoCall} \cup Resolving \cup Inserting]
      /\ creating[c].pc = "resolve" /\ creating[c].left = <<>>
  BY DEF Groups!InsertGroup, GroupsInv, GroupTables, GroupCalls
<1>2. /\ creating[c] \in Resolving /\ ~Fills(c)
      /\ Groups!Range(creating[c].codes) \subseteq known \cup Groups!Range(creating[c].left)
  BY <1>1, CallCases DEF CallOK, Resolving, Inserting, Groups!NoCall, Fills
<1>3. CASE creating[c].name \in Groups!Range(names)
  <2>1. Groups!Goes(c, Groups!NoCall) /\ UNCHANGED <<names, members, asked, created, removed>>
    BY <1>3 DEF Groups!InsertGroup
  <2> QED
    BY <1>1, <1>2, <2>1, CallEnds
<1>4. CASE creating[c].name \notin Groups!Range(names)
  <2> DEFINE id == Len(names) + 1
             name == creating[c].name
             codes == creating[c].codes
             now == [pc |-> "fill", id |-> id, left |-> codes]
  <2>1. /\ names' = Append(names, name) /\ members' = Append(members, {}) /\ Len(names) < MaxGroups
        /\ creating' = [creating EXCEPT ![c] = [pc |-> "fill", id |-> Len(names'), left |-> codes]]
        /\ asked' = Append(asked, Groups!Range(codes))
        /\ created' = Append(created, FALSE) /\ removed' = Append(removed, {})
    BY <1>4 DEF Groups!InsertGroup, Groups!Goes
  <2>2. /\ name \in Name /\ codes \in Seq(Code)
        /\ Groups!Range(codes) \subseteq known /\ known \subseteq Code
    <3>1. creating[c].left \in Seq(Code) /\ Groups!Range(creating[c].left) = {}
      BY <1>1, <1>2, RangeFacts DEF Resolving
    <3> QED
      BY <1>2, <3>1, RequestType DEF Resolving, GroupsInv, GroupTables
  <2>3. /\ names \in Seq(Name) /\ members \in Seq(SUBSET Code) /\ asked \in Seq(SUBSET Code)
        /\ removed \in Seq(SUBSET Code) /\ created \in Seq(BOOLEAN) /\ Len(names) \in Nat
        /\ Len(members) = Len(names) /\ Len(asked) = Len(names)
        /\ Len(removed) = Len(names) /\ Len(created) = Len(names) /\ clashes \in Nat
    BY DEF GroupsInv, GroupTables
  <2> HIDE DEF name, codes
  <2>4. /\ names' \in Seq(Name) /\ Len(names') = id /\ names'[id] = name
        /\ \A i \in 1..Len(names) : names'[i] = names[i]
    BY <2>1, <2>2, <2>3, AppendFacts
  <2>5. /\ members' \in Seq(SUBSET Code) /\ Len(members') = id /\ members'[id] = {}
        /\ \A i \in 1..Len(names) : members'[i] = members[i]
    <3>1. {} \in SUBSET Code
      OBVIOUS
    <3> QED
      BY <2>1, <2>3, <3>1, AppendFacts
  <2>6. /\ asked' \in Seq(SUBSET Code) /\ Len(asked') = id /\ asked'[id] = Groups!Range(codes)
        /\ \A i \in 1..Len(names) : asked'[i] = asked[i]
    <3>1. Groups!Range(codes) \in SUBSET Code
      BY <2>2
    <3> QED
      BY <2>1, <2>3, <3>1, AppendFacts
  <2>7. /\ removed' \in Seq(SUBSET Code) /\ Len(removed') = id /\ removed'[id] = {}
        /\ \A i \in 1..Len(names) : removed'[i] = removed[i]
    <3>1. {} \in SUBSET Code
      OBVIOUS
    <3> QED
      BY <2>1, <2>3, <3>1, AppendFacts
  <2>8. /\ created' \in Seq(BOOLEAN) /\ Len(created') = id /\ ~created'[id]
        /\ \A i \in 1..Len(names) : created'[i] = created[i]
    <3>1. /\ Append(created, FALSE) \in Seq(BOOLEAN)
          /\ Len(Append(created, FALSE)) = Len(created) + 1
      BY <2>3
    <3>2. \A i \in 1..Len(created) : Append(created, FALSE)[i] = created[i]
      BY <2>3, AppendKeeps, Zenon
    <3>3. ~Append(created, FALSE)[Len(created) + 1]
      BY <2>3
    <3> QED
      BY <2>1, <2>3, <3>1, <3>2, <3>3
  <2>9. now \in Inserting /\ now.pc = "fill" /\ now.id = id /\ now.left = codes
    BY <2>2, <2>3 DEF Inserting
  <2> HIDE DEF now
  <2>10. /\ creating' \in [Client -> {Groups!NoCall} \cup Resolving \cup Inserting]
         /\ creating'[c] = now /\ \A d \in Client \ {c} : creating'[d] = creating[d]
    BY <1>1, <2>1, <2>4, <2>9 DEF now
  <2>11. /\ Groups!Id = 1..Len(names) /\ Groups!Id' = 1..id /\ id \in Groups!Id' /\ id \notin Groups!Id
         /\ Groups!Id \subseteq Groups!Id' /\ \A i \in Groups!Id' : i = id \/ i \in Groups!Id
    BY <2>3, <2>4 DEF Groups!Id
  <2>12. \A d \in Client : creating[d].pc = "fill" => creating[d].id \in Groups!Id
    BY CallCases DEF CallOK, Resolving, Inserting, Groups!NoCall
  <2>13. GroupTables'
    BY <1>1, <2>1, <2>2, <2>3, <2>4, <2>5, <2>6, <2>7, <2>8 DEF GroupTables
  <2>14. \A d \in Client : CallOK(d)'
    <3>1. CallOK(c)'
      BY <1>1, <2>2, <2>5, <2>6, <2>8, <2>9, <2>10, <2>11 DEF CallOK
    <3>2. ASSUME NEW d \in Client, d # c PROVE CallOK(d)'
      <4>1. Fills(d) => created'[creating[d].id] = created[creating[d].id]
        BY <2>8, <2>11, <2>12 DEF Fills
      <4>2. \A i \in Groups!Id :
              /\ asked'[i] = asked[i]
              /\ members[i] \cup removed[i] \subseteq members'[i] \cup removed'[i]
        BY <2>5, <2>6, <2>7, <2>11
      <4> QED
        BY <1>1, <2>3, <2>10, <2>11, <3>2, <4>1, <4>2, CallKept
    <3> QED
      BY <3>1, <3>2
  <2>15. GroupCalls'
    <3>1. ASSUME NEW d \in Client, NEW e \in Client, creating'[d].pc = "fill", creating'[e].pc = "fill",
                 creating'[d].id = creating'[e].id
          PROVE  d = e
      BY <2>9, <2>10, <2>11, <2>12, <3>1 DEF GroupsInv, GroupCalls, Fills
    <3> QED
      BY <2>10, <2>14, <3>1 DEF GroupCalls, Fills
  <2>16. GroupRows'
    <3>1. ASSUME NEW i \in Groups!Id, NEW other \in Groups!Id, names[other] = names[i] PROVE other = i
      BY <3>1 DEF GroupsInv, GroupRows
    <3>2. \A i \in Groups!Id : names[i] # name
      <4>1. DOMAIN names = Groups!Id
        BY <2>3, <2>11
      <4> QED
        BY <1>4, <4>1 DEF Groups!Range, name
    <3>3. ASSUME NEW i \in Groups!Id', NEW other \in Groups!Id', names'[other] = names'[i] PROVE other = i
      BY <2>4, <2>11, <3>1, <3>2, <3>3
    <3>4. ASSUME NEW i \in Groups!Id'
          PROVE  /\ created'[i] => asked'[i] \subseteq members'[i] \cup removed'[i]
                 /\ members'[i] \subseteq known'
      <4>1. CASE i = id
        BY <2>5, <2>8, <4>1
      <4>2. CASE i \in Groups!Id
        BY <1>1, <2>5, <2>6, <2>7, <2>8, <2>11, <4>2 DEF GroupsInv, GroupRows
      <4> QED
        BY <2>11, <4>1, <4>2
    <3> QED
      BY <3>3, <3>4 DEF GroupRows
  <2>17. Remainders' = Remainders
    <3>1. \A i \in Groups!Id : Groups!Filling(i)' <=> Groups!Filling(i)
      BY <1>2, <2>9, <2>10, <2>11 DEF Groups!Filling, Fills
    <3>2. \A i : i = id => Groups!Filling(i)'
      BY <2>9, <2>10 DEF Groups!Filling
    <3>3. ASSUME NEW i PROVE i \in Remainders' <=> i \in Remainders
      <4>1. i \in Remainders' <=> i \in Groups!Id' /\ ~created'[i] /\ ~Groups!Filling(i)'
        BY DEF Remainders
      <4>2. i \in Remainders <=> i \in Groups!Id /\ ~created[i] /\ ~Groups!Filling(i)
        BY DEF Remainders
      <4>3. CASE i \in Groups!Id
        <5>1. (created'[i] = created[i]) /\ i \in Groups!Id'
          BY <2>8, <2>11, <4>3
        <5> QED
          BY <3>1, <4>1, <4>2, <4>3, <5>1
      <4>4. CASE i \notin Groups!Id
        BY <2>11, <3>2, <4>1, <4>2, <4>4
      <4> QED
        BY <4>3, <4>4
    <3> QED
      BY <3>3
  <2> QED
    BY <1>1, <2>13, <2>15, <2>16, <2>17, RemaindersSame DEF GroupsInv
<1> QED
  BY <1>3, <1>4

LEMMA FillFacts ==
  ASSUME GroupsInv, NEW c \in Client, creating[c].pc = "fill"
  PROVE  LET id == creating[c].id
             left == creating[c].left
         IN  /\ creating[c] \in Inserting /\ id \in Groups!Id /\ ~created[id]
             /\ left \in Seq(Code) /\ Groups!Range(left) \subseteq asked[id] /\ asked[id] \subseteq known
             /\ asked[id] \subseteq members[id] \cup removed[id] \cup Groups!Range(left)
             /\ id \notin Remainders
             /\ \A d \in Client \ {c} : creating[d].pc = "fill" => creating[d].id # id
<1>1. creating[c] \in Inserting /\ CallOK(c) /\ creating[c] # Groups!NoCall /\ creating[c] \notin Resolving
  BY CallCases DEF Resolving, Groups!NoCall
<1>2. creating[c].id \notin Remainders
  BY DEF Remainders, Groups!Filling
<1>3. \A d \in Client \ {c} : creating[d].pc = "fill" => creating[d].id # creating[c].id
  BY DEF GroupsInv, GroupCalls, Fills
<1> QED
  BY <1>1, <1>2, <1>3 DEF CallOK, Inserting

\* A call that ends half-way through its group leaves a remainder.
LEMMA FillEnds ==
  ASSUME GroupsInv, MaxFaults \in Nat, NEW c \in Client, creating[c].pc = "fill",
         Groups!Goes(c, Groups!NoCall),
         UNCHANGED <<known, names, members, asked, created, removed>>,
         \/ clashes' = clashes + 1 /\ faults' = faults
         \/ clashes' = clashes /\ faults' = faults + 1 /\ faults < MaxFaults
  PROVE  GroupsInv'
<1> DEFINE id == creating[c].id
<1>1. /\ id \in Groups!Id /\ ~created[id] /\ id \notin Remainders
      /\ \A d \in Client \ {c} : creating[d].pc = "fill" => creating[d].id # id
  BY FillFacts
<1>2. /\ creating' = [creating EXCEPT ![c] = Groups!NoCall]
      /\ creating \in [Client -> {Groups!NoCall} \cup Resolving \cup Inserting]
  BY DEF Groups!Goes, GroupsInv, GroupCalls
<1>3. /\ creating' \in [Client -> {Groups!NoCall} \cup Resolving \cup Inserting]
      /\ creating'[c] = Groups!NoCall /\ \A d \in Client \ {c} : creating'[d] = creating[d]
      /\ creating'[c].pc # "fill"
  BY <1>2 DEF Groups!NoCall
<1>4. Groups!Id' = Groups!Id
  BY DEF Groups!Id
<1>5. GroupTables'
  BY DEF GroupsInv, GroupTables
<1>6. GroupCalls'
  <2>1. \A d \in Client : CallOK(d)'
    <3>1. CallOK(c)'
      BY <1>3 DEF CallOK
    <3>2. ASSUME NEW d \in Client, d # c PROVE CallOK(d)'
      BY <1>3, <1>4, <3>2, CallKept
    <3> QED
      BY <3>1, <3>2
  <2> QED
    BY <1>3, <2>1 DEF GroupsInv, GroupCalls, Fills
<1>7. GroupRows'
  BY <1>4 DEF GroupsInv, GroupRows
<1>8. PICK n : n = id
  OBVIOUS
<1>9. Remainders' = Remainders \cup {n}
  <2>1. \A i : i # n => (Groups!Filling(i)' <=> Groups!Filling(i))
    BY <1>3, <1>8 DEF Groups!Filling
  <2>2. ~Groups!Filling(n)'
    BY <1>1, <1>3, <1>8 DEF Groups!Filling
  <2>3. ASSUME NEW i PROVE i \in Remainders' <=> i \in Remainders \/ i = n
    <3>1. i \in Remainders' <=> i \in Groups!Id' /\ ~created'[i] /\ ~Groups!Filling(i)'
      BY DEF Remainders
    <3>2. i \in Remainders <=> i \in Groups!Id /\ ~created[i] /\ ~Groups!Filling(i)
      BY DEF Remainders
    <3>3. n \in Groups!Id /\ ~created[n]
      BY <1>1, <1>8
    <3> QED
      BY <1>4, <2>1, <2>2, <3>1, <3>2, <3>3
  <2> QED
    BY <2>3
<1>10. n \notin Remainders
  BY <1>1, <1>8
<1>11. clashes' <= Cardinality(Remainders)' /\ Cardinality(Remainders)' <= faults' + clashes'
  BY <1>9, <1>10, RemaindersGrow
<1> QED
  BY <1>5, <1>6, <1>7, <1>11 DEF GroupsInv

LEMMA InsertMemberKeeps ==
  ASSUME GroupsInv, MaxFaults \in Nat, NEW c \in Client, Groups!InsertMember(c)
  PROVE  GroupsInv'
<1>1. /\ creating[c].pc = "fill" /\ creating[c].left # <<>>
      /\ UNCHANGED <<known, names, asked, created, removed, faults>>
  BY DEF Groups!InsertMember
<1>2. PICK id, code : id = creating[c].id /\ code = Head(creating[c].left)
  OBVIOUS
<1>3. CASE code \in members[id]
  <2>1. Groups!Goes(c, Groups!NoCall) /\ clashes' = clashes + 1 /\ UNCHANGED members
    BY <1>2, <1>3 DEF Groups!InsertMember
  <2> QED
    BY <1>1, <2>1, FillEnds
<1>4. CASE code \notin members[id]
  <2> DEFINE now == [creating[c] EXCEPT !.left = Tail(@)]
             left == creating[c].left
  <2>1. /\ members' = [members EXCEPT ![id] = @ \cup {code}] /\ clashes' = clashes
        /\ creating' = [creating EXCEPT ![c] = now]
    BY <1>2, <1>4 DEF Groups!InsertMember, Groups!Goes
  <2>2. /\ creating[c] \in Inserting /\ id \in Groups!Id /\ ~created[id]
        /\ left \in Seq(Code) /\ Groups!Range(left) \subseteq asked[id] /\ asked[id] \subseteq known
        /\ asked[id] \subseteq members[id] \cup removed[id] \cup Groups!Range(left)
        /\ id \notin Remainders
    BY <1>1, <1>2, FillFacts
  <2>3. Tail(left) \in Seq(Code) /\ Groups!Range(left) = {code} \cup Groups!Range(Tail(left))
    BY <1>1, <1>2, <2>2, TailFacts, RangeFacts
  <2>4. now \in Inserting /\ now.pc = "fill" /\ now.id = id /\ now.left = Tail(left)
    BY <1>1, <1>2, <2>2, <2>3 DEF Inserting
  <2>5. creating \in [Client -> {Groups!NoCall} \cup Resolving \cup Inserting]
    BY DEF GroupsInv, GroupCalls
  <2> HIDE DEF now, left
  <2>6. /\ creating' \in [Client -> {Groups!NoCall} \cup Resolving \cup Inserting]
        /\ creating'[c] = now /\ \A d \in Client \ {c} : creating'[d] = creating[d]
    BY <2>1, <2>4, <2>5
  <2>7. /\ members \in Seq(SUBSET Code) /\ Len(members) = Len(names) /\ known \subseteq Code
        /\ DOMAIN members = Groups!Id /\ \A i \in Groups!Id : members[i] \subseteq known
    BY DEF GroupsInv, GroupTables, GroupRows, Groups!Id
  <2>8. code \in known
    BY <2>2, <2>3
  <2>9. /\ members' \in Seq(SUBSET Code) /\ Len(members') = Len(names)
        /\ members'[id] = members[id] \cup {code}
        /\ \A i \in Groups!Id : members[i] \subseteq members'[i] /\ members'[i] \subseteq known
    BY <2>1, <2>2, <2>7, <2>8
  <2>10. Groups!Id' = Groups!Id
    BY <1>1 DEF Groups!Id
  <2>11. GroupTables'
    BY <1>1, <2>1, <2>9 DEF GroupsInv, GroupTables
  <2>12. \A d \in Client : CallOK(d)'
    <3>1. CallOK(c)'
      BY <1>1, <2>2, <2>3, <2>4, <2>6, <2>9, <2>10 DEF CallOK
    <3>2. ASSUME NEW d \in Client, d # c PROVE CallOK(d)'
      BY <1>1, <2>6, <2>9, <2>10, <3>2, CallKept
    <3> QED
      BY <3>1, <3>2
  <2>13. \A d \in Client : /\ creating'[d].pc = "fill" <=> creating[d].pc = "fill"
                           /\ creating[d].pc = "fill" => creating'[d].id = creating[d].id
    BY <1>1, <1>2, <2>4, <2>6
  <2>14. GroupCalls'
    BY <2>6, <2>12, <2>13 DEF GroupsInv, GroupCalls, Fills
  <2>15. GroupRows'
    <3> SUFFICES ASSUME NEW i \in Groups!Id
                 PROVE  /\ created[i] => asked[i] \subseteq members'[i] \cup removed[i]
                        /\ members'[i] \subseteq known
                        /\ \A other \in Groups!Id : names[other] = names[i] => other = i
      BY <1>1, <2>10 DEF GroupRows
    <3> QED
      BY <2>9 DEF GroupsInv, GroupRows
  <2>16. Remainders' = Remainders
    <3>1. \A i : Groups!Filling(i)' <=> Groups!Filling(i)
      BY <2>13 DEF Groups!Filling
    <3> QED
      BY <1>1, <2>10, <3>1 DEF Remainders
  <2>17. faults \in Nat
    BY DEF GroupsInv, GroupTables
  <2> QED
    BY <1>1, <2>1, <2>11, <2>14, <2>15, <2>16, <2>17, RemaindersSame DEF GroupsInv
<1> QED
  BY <1>3, <1>4

LEMMA AnswerKeeps ==
  ASSUME GroupsInv, NEW c \in Client, Groups!Answer(c)
  PROVE  GroupsInv'
<1>1. /\ creating[c].pc = "fill" /\ creating[c].left = <<>>
      /\ UNCHANGED <<known, names, members, asked, removed, faults, clashes>>
      /\ creating' = [creating EXCEPT ![c] = Groups!NoCall]
      /\ creating \in [Client -> {Groups!NoCall} \cup Resolving \cup Inserting]
  BY DEF Groups!Answer, Groups!Goes, GroupsInv, GroupCalls
<1>2. PICK id : id = creating[c].id
  OBVIOUS
<1>3. /\ id \in Groups!Id /\ asked[id] \subseteq members[id] \cup removed[id] /\ id \notin Remainders
      /\ \A d \in Client \ {c} : creating[d].pc = "fill" => creating[d].id # id
  <2>1. Groups!Range(creating[c].left) = {}
    <3>1. creating[c].left \in Seq(Code)
      BY <1>1, FillFacts
    <3> QED
      BY <1>1, <3>1, RangeFacts
  <2> QED
    BY <1>1, <1>2, <2>1, FillFacts
<1>4. /\ creating' \in [Client -> {Groups!NoCall} \cup Resolving \cup Inserting]
      /\ creating'[c] = Groups!NoCall /\ \A d \in Client \ {c} : creating'[d] = creating[d]
      /\ creating'[c].pc # "fill"
  BY <1>1 DEF Groups!NoCall
<1>5. created' = [created EXCEPT ![id] = TRUE]
  BY <1>2 DEF Groups!Answer
<1>6. /\ created \in Seq(BOOLEAN) /\ Len(created) = Len(names) /\ DOMAIN created = Groups!Id
  BY DEF GroupsInv, GroupTables, Groups!Id
<1>7. created' \in Seq(BOOLEAN) /\ Len(created') = Len(names) /\ created'[id]
  BY <1>3, <1>5, <1>6
<1>8. \A i \in Groups!Id : i # id => created'[i] = created[i]
  BY <1>5, <1>6, Zenon
<1>9. Groups!Id' = Groups!Id
  BY <1>1 DEF Groups!Id
<1>10. GroupTables'
  BY <1>1, <1>7 DEF GroupsInv, GroupTables
<1>11. GroupCalls'
  <2>1. \A d \in Client : CallOK(d)'
    <3>1. CallOK(c)'
      BY <1>4 DEF CallOK
    <3>2. ASSUME NEW d \in Client, d # c PROVE CallOK(d)'
      <4>1. Fills(d) => created'[creating[d].id] = created[creating[d].id]
        BY <1>3, <1>8, <3>2, FillFacts DEF Fills
      <4> QED
        BY <1>1, <1>4, <1>9, <3>2, <4>1, CallKept
    <3> QED
      BY <3>1, <3>2
  <2> QED
    BY <1>4, <2>1 DEF GroupsInv, GroupCalls, Fills
<1>12. GroupRows'
  <2> SUFFICES ASSUME NEW i \in Groups!Id
               PROVE  /\ created'[i] => asked[i] \subseteq members[i] \cup removed[i]
                      /\ members[i] \subseteq known
                      /\ \A other \in Groups!Id : names[other] = names[i] => other = i
    BY <1>1, <1>9 DEF GroupRows
  <2>1. created'[i] => created[i] \/ i = id
    BY <1>8, Zenon
  <2> QED
    BY <1>3, <2>1 DEF GroupsInv, GroupRows
<1>13. Remainders' = Remainders
  <2> SUFFICES ASSUME NEW i PROVE i \in Remainders' <=> i \in Remainders
    OBVIOUS
  <2>1. i # id => (Groups!Filling(i)' <=> Groups!Filling(i))
    BY <1>2, <1>4 DEF Groups!Filling
  <2>2. i \in Remainders' <=> i \in Groups!Id' /\ ~created'[i] /\ ~Groups!Filling(i)'
    BY DEF Remainders
  <2>3. i \in Remainders <=> i \in Groups!Id /\ ~created[i] /\ ~Groups!Filling(i)
    BY DEF Remainders
  <2>4. CASE i = id
    BY <1>3, <1>7, <2>2, <2>4
  <2>5. CASE i # id
    BY <1>8, <1>9, <2>1, <2>2, <2>3, <2>5, Zenon
  <2> QED
    BY <2>4, <2>5
<1>14. faults \in Nat
  BY DEF GroupsInv, GroupTables
<1> QED
  BY <1>1, <1>10, <1>11, <1>12, <1>13, <1>14, RemaindersSame DEF GroupsInv

LEMMA FailsKeeps ==
  ASSUME GroupsInv, MaxFaults \in Nat, NEW c \in Client, Groups!Fails(c)
  PROVE  GroupsInv'
<1>1. /\ faults < MaxFaults /\ faults' = faults + 1 /\ Groups!Goes(c, Groups!NoCall)
      /\ UNCHANGED <<known, names, members, asked, created, removed, clashes>> /\ faults \in Nat
  BY DEF Groups!Fails, GroupsInv, GroupTables
<1>2. CASE creating[c].pc = "fill"
  BY <1>1, <1>2, FillEnds
<1>3. CASE creating[c].pc # "fill"
  BY <1>1, <1>3, CallEnds DEF Fills
<1> QED
  BY <1>2, <1>3

LEMMA TablesKeep ==
  ASSUME GroupsInv, MaxGroups \in Nat, NEW code \in Code,
         \/ Groups!CreateStation(code)
         \/ \E id \in 1..MaxGroups : Groups!AddStation(id, code) \/ Groups!RemoveStation(id, code)
  PROVE  GroupsInv'
<1>1. /\ members \in Seq(SUBSET Code) /\ Len(members) = Len(names)
      /\ removed \in Seq(SUBSET Code) /\ Len(removed) = Len(names) /\ known \subseteq Code
      /\ DOMAIN members = Groups!Id /\ DOMAIN removed = Groups!Id
      /\ \A i \in Groups!Id : members[i] \subseteq known
  <2>1. /\ members \in Seq(SUBSET Code) /\ Len(members) = Len(names)
        /\ removed \in Seq(SUBSET Code) /\ Len(removed) = Len(names) /\ known \subseteq Code
    BY DEF GroupsInv, GroupTables
  <2>2. DOMAIN members = Groups!Id /\ DOMAIN removed = Groups!Id
    BY <2>1 DEF Groups!Id
  <2> QED
    BY <2>1, <2>2 DEF GroupsInv, GroupRows
<1>2. CASE Groups!CreateStation(code)
  <2>1. /\ known' = known \cup {code}
        /\ UNCHANGED <<names, members, creating, asked, created, removed, faults, clashes>>
    BY <1>2 DEF Groups!CreateStation
  <2> QED
    BY <1>1, <2>1, GroupsTableStep
<1>3. ASSUME NEW id \in 1..MaxGroups, Groups!AddStation(id, code) PROVE GroupsInv'
  <2>1. /\ id \in Groups!Id /\ code \in known /\ members' = [members EXCEPT ![id] = @ \cup {code}]
        /\ UNCHANGED <<known, names, creating, asked, created, removed, faults, clashes>>
    BY <1>3 DEF Groups!AddStation
  <2>2. /\ members' \in Seq(SUBSET Code) /\ Len(members') = Len(names)
        /\ \A i \in Groups!Id : members[i] \subseteq members'[i] /\ members'[i] \subseteq known
    BY <1>1, <2>1
  <2> QED
    BY <1>1, <2>1, <2>2, GroupsTableStep
<1>4. ASSUME NEW id \in 1..MaxGroups, Groups!RemoveStation(id, code) PROVE GroupsInv'
  <2>1. /\ id \in Groups!Id /\ members' = [members EXCEPT ![id] = @ \ {code}]
        /\ removed' = [removed EXCEPT ![id] = @ \cup {code}]
        /\ UNCHANGED <<known, names, creating, asked, created, faults, clashes>>
    BY <1>4 DEF Groups!RemoveStation
  <2>2. /\ members' \in Seq(SUBSET Code) /\ Len(members') = Len(names)
        /\ \A i \in Groups!Id : /\ members'[i] = IF i = id THEN members[i] \ {code} ELSE members[i]
                                /\ members'[i] \subseteq known
    <3>1. id \in DOMAIN members /\ members[id] \ {code} \in SUBSET Code
      BY <1>1, <2>1
    <3>2. members' \in Seq(SUBSET Code) /\ Len(members') = Len(names)
      BY <1>1, <2>1, <3>1
    <3>3. \A i \in Groups!Id : members'[i] = IF i = id THEN members[i] \ {code} ELSE members[i]
      BY <1>1, <2>1
    <3> QED
      BY <1>1, <3>2, <3>3
  <2>3. /\ removed' \in Seq(SUBSET Code) /\ Len(removed') = Len(names)
        /\ \A i \in Groups!Id : removed'[i] = IF i = id THEN removed[i] \cup {code} ELSE removed[i]
    <3>1. id \in DOMAIN removed /\ removed[id] \cup {code} \in SUBSET Code
      BY <1>1, <2>1
    <3>2. removed' \in Seq(SUBSET Code) /\ Len(removed') = Len(names)
      BY <1>1, <2>1, <3>1
    <3>3. \A i \in Groups!Id : removed'[i] = IF i = id THEN removed[i] \cup {code} ELSE removed[i]
      BY <1>1, <2>1
    <3> QED
      BY <3>2, <3>3
  <2>4. \A i \in Groups!Id : members[i] \cup removed[i] \subseteq members'[i] \cup removed'[i]
    BY <2>2, <2>3
  <2> QED
    BY <1>1, <2>1, <2>2, <2>3, <2>4, GroupsTableStep
<1> QED
  BY <1>2, <1>3, <1>4

\* The tables of the groups and the calls on them stay what they are for every
\* number of clients, stations, names and failures.
THEOREM GroupsInvariance == Spec => []GroupsInv
<1>1. Init => GroupsInv
  <2> SUFFICES ASSUME Init PROVE GroupsInv
    OBVIOUS
  <2>1. /\ known = {} /\ names = <<>> /\ members = <<>> /\ asked = <<>> /\ created = <<>> /\ removed = <<>>
        /\ creating = [c \in Client |-> Groups!NoCall] /\ faults = 0 /\ clashes = 0
    BY DEF Init, Groups!Init
  <2>2. {MaxGroups, MaxFaults} \subseteq Nat
    BY DeskAssumption DEF Groups!GroupsParameters
  <2>3. GroupTables
    BY <2>1, <2>2 DEF GroupTables
  <2>4. GroupCalls
    BY <2>1 DEF GroupCalls, CallOK, Fills, Groups!NoCall
  <2>5. Groups!Id = {}
    BY <2>1 DEF Groups!Id
  <2>6. GroupRows /\ Remainders = {}
    BY <2>5 DEF GroupRows, Remainders
  <2>7. Cardinality(Remainders) = 0
    BY <2>6, FS_EmptySet
  <2> QED
    BY <2>1, <2>3, <2>4, <2>6, <2>7 DEF GroupsInv
<1>2. GroupsInv /\ [Next]_vars => GroupsInv'
  <2> SUFFICES ASSUME GroupsInv, [Next]_vars PROVE GroupsInv'
    OBVIOUS
  <2>1. {MaxGroups, MaxFaults} \subseteq Nat
    BY DeskAssumption DEF Groups!GroupsParameters
  <2>2. CASE UNCHANGED groupVars
    BY <2>2 DEF groupVars, GroupsInv, GroupTables, GroupCalls, GroupRows, CallOK, Fills, Remainders,
                Groups!Id, Groups!Filling
  <2>3. ASSUME NEW code \in Code,
               \/ Groups!CreateStation(code)
               \/ \E id \in 1..MaxGroups : Groups!AddStation(id, code) \/ Groups!RemoveStation(id, code)
        PROVE  GroupsInv'
    BY <2>1, <2>3, TablesKeep
  <2>4. ASSUME NEW c \in Client, NEW name \in Name, NEW codes \in Groups!Request,
               Groups!Create(c, name, codes)
        PROVE  GroupsInv'
    BY <2>1, <2>4, CreateKeeps
  <2>5. ASSUME NEW c \in Client,
               \/ Groups!Resolve(c) \/ Groups!InsertGroup(c) \/ Groups!InsertMember(c)
               \/ Groups!Answer(c) \/ Groups!Fails(c)
        PROVE  GroupsInv'
    BY <2>1, <2>5, ResolveKeeps, InsertGroupKeeps, InsertMemberKeeps, AnswerKeeps, FailsKeeps
  <2>6. Groups!Next \/ UNCHANGED groupVars
    BY DEF Next, vars
  <2> QED
    BY <2>2, <2>3, <2>4, <2>5, <2>6 DEF Groups!Next
<1> QED
  BY <1>1, <1>2, PTL DEF Spec

\* An answered group is complete, names are unique and remainders have a cause
\* (station_group.go:84), for every number of clients, stations and failures.
THEOREM GroupsAreComplete == Spec => []GroupsComplete
<1>1. GroupsInv => GroupsComplete
  <2> SUFFICES ASSUME GroupsInv PROVE Groups!GroupsComplete
    BY DEF GroupsComplete
  <2>1. clashes \in 0..MaxGroups
    <3>1. Cardinality(Remainders) \in Nat /\ Cardinality(Remainders) <= Len(names)
      BY RemaindersCount
    <3>2. MaxGroups \in Nat /\ Len(names) \in Nat
      BY DeskAssumption DEF Groups!GroupsParameters, GroupsInv, GroupTables
    <3> QED
      BY <3>1, <3>2 DEF GroupsInv, GroupTables
  <2>2. ASSUME NEW c \in Client
        PROVE  \/ creating[c] = Groups!NoCall
               \/ /\ creating[c].pc = "resolve" /\ creating[c].name \in Name
                  /\ creating[c].codes \in Groups!Request
                  /\ Groups!IsSuffix(creating[c].left, creating[c].codes)
               \/ /\ creating[c].pc = "fill" /\ creating[c].id \in Groups!Id
                  /\ Groups!Range(creating[c].left) \subseteq asked[creating[c].id]
    BY CallCases DEF CallOK, Resolving, Inserting
  <2>3. Groups!TypeOK
    BY <2>1, <2>2 DEF GroupsInv, GroupTables, Groups!TypeOK
  <2>4. Groups!Cardinality({id \in Groups!Id : ~created[id] /\ ~Groups!Filling(id)}) <= faults + clashes
    BY GroupsCardinality DEF GroupsInv, Remainders
  <2> QED
    BY <2>3, <2>4 DEF GroupsInv, GroupRows, Groups!GroupsComplete
<1> QED
  BY <1>1, GroupsInvariance, PTL
-----------------------------------------------------------------------------
(* The alert policy. *)

\* An escalation under way.
PolicyCall ==
  [pc : {"look", "count", "insert"}, ev : Event, at : Nat,
   asked : [window : Nat, cap : Nat, begun : Nat], foretold : SUBSET BOOLEAN]

\* The types, and what ties them: caps has a largest member, which bounds every
\* count, and no alert is younger than the clock.
PolicyTables ==
  /\ policy \in Policy!Effective /\ policy.cap \in caps /\ caps \subseteq {p.cap : p \in Policy!Effective}
  /\ \E top \in caps : \A k \in caps : k <= top
  /\ alerts \in Seq(Policy!AlertRow) /\ clock \in 0..MaxClock /\ sets \in 0..MaxSets
  /\ \A i \in DOMAIN alerts : /\ alerts[i].fired <= clock
                              /\ alerts[i].capped => \E k \in caps : k > 0
  /\ call \in [Caller -> {Policy!NoCall} \cup PolicyCall]

\* As many alerts as the list holds are as young as alert i: the list may lack it.
Crowded(i) ==
  Cardinality({k \in DOMAIN alerts \ {i} : alerts[k].fired >= alerts[i].fired}) >= ListLimit

\* What a call has noted as it began: alerts that were there are not younger.
Began(now) ==
  /\ now.asked.cap \in caps /\ now.asked.begun <= Len(alerts) /\ now.at <= clock
  /\ \A i \in 1..now.asked.begun : alerts[i].fired <= now.at
  /\ now.pc = "look" => now.asked.window > 0
  /\ now.pc = "count" => now.asked.cap > 0

\* The duplicates a call has not found among the alerts of its beginning were
\* crowded out.
Looked(now) ==
  now.pc # "look" /\ now.asked.window > 0 =>
    \A i \in 1..now.asked.begun :
      Policy!SameKey(i, now.ev) /\ alerts[i].fired + now.asked.window >= now.at => Crowded(i)

\* A dry run that is not void would answer the same now, and what the call has
\* found out so far agrees with it.
Foretold(now) ==
  now.foretold # {} =>
    /\ now.foretold = Policy!ShouldEscalate(now.ev, clock)
    /\ now.asked.window = policy.window /\ now.asked.cap = policy.cap /\ now.at = clock
    /\ now.pc # "look" /\ now.asked.window > 0 =>
         \E listed \in Policy!Newest : ~Policy!Duplicate(listed, now.ev, now.asked.window, now.at)
    /\ now.pc = "insert" /\ now.asked.cap > 0 =>
         Policy!LastHour(now.ev.station, now.at) < now.asked.cap

PolicyCalls ==
  \A c \in Caller, now \in PolicyCall : call[c] = now => Began(now) /\ Looked(now) /\ Foretold(now)

\* The alerts of an hour that were stored under a cap.
Counted(station, from) ==
  {i \in DOMAIN alerts : /\ alerts[i].capped /\ alerts[i].station = station
                         /\ from <= alerts[i].fired /\ alerts[i].fired <= from + Hour}

\* The calls that have passed the cap and will store theirs in that hour.
Passed(station, from) ==
  {c \in Caller : /\ call[c].pc = "insert" /\ call[c].asked.cap > 0 /\ call[c].ev.station = station
                  /\ from <= call[c].at /\ call[c].at <= from + Hour}

\* HourlyCapBounded counts alerts; it is inductive once the calls that have
\* passed the cap are counted with them.
CapOn(station, from) ==
  (Counted(station, from) # {} \/ Passed(station, from) # {}) =>
    \E m \in caps : /\ m > 0
                    /\ Cardinality(Counted(station, from)) + Cardinality(Passed(station, from))
                         <= m + Cardinality(Caller) - 1

CapHeld == \A e \in Event, from \in Nat : CapOn(e.station, from)

PolicyInv == PolicyTables /\ PolicyCalls /\ CapHeld

LEMMA PolicyCardinality == \A S : Policy!Cardinality(S) = Cardinality(S)
BY Zenon DEF Policy!Cardinality, Cardinality

LEMMA PolicyFinite == \A S : Policy!IsFiniteSet(S) <=> IsFiniteSet(S)
BY Zenon DEF Policy!IsFiniteSet, IsFiniteSet

LEMMA ClampedFacts ==
  ASSUME NEW p \in Policy!Effective
  PROVE  p.window \in Nat /\ p.cap \in Nat
<1>1. PICK q \in Setting : p = Policy!Clamped(q)
  BY DEF Policy!Effective
<1>2. q \in [window : Int, info : BOOLEAN, cap : Int]
  BY DeskAssumption DEF Policy!PolicyParameters
<1>3. \A n \in Int : Policy!AtLeastZero(n) \in Nat
  BY DEF Policy!AtLeastZero
<1>4. p.window = Policy!AtLeastZero(q.window) /\ p.cap = Policy!AtLeastZero(q.cap)
  BY <1>1, <1>2 DEF Policy!Clamped
<1> QED
  BY <1>2, <1>3, <1>4

\* What there is of alerts stays.
AlertsStay ==
  /\ alerts' \in Seq(Policy!AlertRow) /\ Len(alerts) <= Len(alerts')
  /\ \A i \in 1..Len(alerts) : alerts'[i] = alerts[i]

LEMMA AlertFacts ==
  ASSUME PolicyTables
  PROVE  /\ Len(alerts) \in Nat /\ DOMAIN alerts = 1..Len(alerts) /\ IsFiniteSet(DOMAIN alerts)
         /\ \A i \in DOMAIN alerts : /\ alerts[i] \in Policy!AlertRow /\ alerts[i].fired \in Nat
                                     /\ alerts[i].fired <= clock
         /\ {clock, Hour, Minute, ListLimit, MaxAlerts, MaxClock, MaxSets} \subseteq Nat
         /\ IsFiniteSet(Caller) /\ policy.window \in Nat /\ policy.cap \in Nat
         /\ caps \subseteq Nat
<1>1. {Hour, Minute, ListLimit, MaxAlerts, MaxClock, MaxSets} \subseteq Nat /\ IsFiniteSet(Caller)
  BY DeskAssumption, PolicyFinite DEF Policy!PolicyParameters
<1>2. alerts \in Seq(Policy!AlertRow) /\ clock \in 0..MaxClock
  BY DEF PolicyTables
<1>3. Len(alerts) \in Nat /\ DOMAIN alerts = 1..Len(alerts) /\ \A i \in DOMAIN alerts : alerts[i] \in Policy!AlertRow
  BY <1>2
<1>4. IsFiniteSet(DOMAIN alerts)
  BY <1>3, FS_Interval
<1>5. \A i \in DOMAIN alerts : alerts[i].fired \in Nat /\ alerts[i].fired <= clock
  BY <1>1, <1>3 DEF Policy!AlertRow, PolicyTables
<1>6. policy.window \in Nat /\ policy.cap \in Nat /\ caps \subseteq Nat
  BY ClampedFacts DEF PolicyTables
<1> QED
  BY <1>1, <1>2, <1>3, <1>4, <1>5, <1>6

LEMMA CrowdedStays ==
  ASSUME PolicyTables, AlertsStay, NEW i \in DOMAIN alerts, Crowded(i)
  PROVE  Crowded(i)'
<1> DEFINE S == {k \in DOMAIN alerts \ {i} : alerts[k].fired >= alerts[i].fired}
           T == {k \in DOMAIN alerts' \ {i} : alerts'[k].fired >= alerts'[i].fired}
<1>1. Len(alerts) \in Nat /\ DOMAIN alerts = 1..Len(alerts) /\ ListLimit \in Nat
  BY AlertFacts
<1>2. Len(alerts') \in Nat /\ DOMAIN alerts' = 1..Len(alerts') /\ DOMAIN alerts \subseteq DOMAIN alerts'
  BY <1>1 DEF AlertsStay
<1>3. S \subseteq T
  BY <1>1, <1>2 DEF AlertsStay
<1>4. IsFiniteSet(T)
  <2>1. IsFiniteSet(DOMAIN alerts')
    BY <1>2, FS_Interval
  <2> QED
    BY <2>1, PartSmaller
<1>5. Cardinality(S) \in Nat /\ Cardinality(T) \in Nat /\ Cardinality(S) <= Cardinality(T)
  BY <1>3, <1>4, PartSmaller
<1>6. Cardinality(S) >= ListLimit
  BY DEF Crowded
<1>7. Cardinality(T) >= ListLimit
  <2> HIDE DEF S, T
  <2> QED
    BY <1>1, <1>5, <1>6
<1> QED
  BY <1>7 DEF Crowded

LEMMA BeganStays ==
  ASSUME PolicyTables, AlertsStay, caps \subseteq caps', clock' \in Nat, clock <= clock',
         NEW now \in PolicyCall, Began(now)
  PROVE  Began(now)'
<1>1. /\ Len(alerts) \in Nat /\ Len(alerts') \in Nat /\ now.asked.begun \in Nat /\ now.at \in Nat
      /\ clock \in Nat
  BY AlertFacts DEF AlertsStay, PolicyCall
<1>2. \A i \in 1..now.asked.begun : i \in 1..Len(alerts) /\ alerts'[i] = alerts[i]
  BY <1>1 DEF Began, AlertsStay
<1> QED
  BY <1>1, <1>2 DEF Began, AlertsStay

LEMMA LookedStays ==
  ASSUME PolicyTables, AlertsStay, NEW now \in PolicyCall, Began(now), Looked(now)
  PROVE  Looked(now)'
<1> SUFFICES ASSUME now.pc # "look", now.asked.window > 0, NEW i \in 1..now.asked.begun,
                    Policy!SameKey(i, now.ev)', alerts'[i].fired + now.asked.window >= now.at
             PROVE  Crowded(i)'
  BY DEF Looked
<1>1. Len(alerts) \in Nat /\ now.asked.begun \in Nat /\ DOMAIN alerts = 1..Len(alerts)
  BY AlertFacts DEF PolicyCall
<1>2. i \in DOMAIN alerts /\ alerts'[i] = alerts[i]
  BY <1>1 DEF Began, AlertsStay
<1>3. Crowded(i)
  BY <1>2 DEF Looked, Policy!SameKey
<1> QED
  BY <1>2, <1>3, CrowdedStays

\* A call that another step has disturbed.
LEMMA CallDisturbed ==
  ASSUME PolicyTables, AlertsStay, caps \subseteq caps', clock' \in Nat, clock <= clock',
         NEW now \in PolicyCall, Began(now), Looked(now), NEW after, after = [now EXCEPT !.foretold = {}]
  PROVE  after \in PolicyCall /\ Began(after)' /\ Looked(after)' /\ Foretold(after)'
<1>1. /\ after \in PolicyCall /\ after.foretold = {} /\ after.pc = now.pc /\ after.ev = now.ev
      /\ after.at = now.at /\ after.asked = now.asked
  BY DEF PolicyCall
<1>2. Began(after)
  BY <1>1 DEF Began
<1>3. Looked(after)
  BY <1>1 DEF Looked
<1> QED
  BY <1>1, <1>2, <1>3, BeganStays, LookedStays DEF Foretold

\* A call that another step has not.
LEMMA CallUndisturbed ==
  ASSUME UNCHANGED <<policy, alerts, clock>>, caps' = caps, NEW now,
         Began(now), Looked(now), Foretold(now)
  PROVE  Began(now)' /\ Looked(now)' /\ Foretold(now)'
<1>1. Began(now)'
  BY DEF Began
<1>2. Looked(now)'
  BY DEF Looked, Crowded, Policy!SameKey
<1>3. Foretold(now)'
  <2>1. Policy!Newest' = Policy!Newest
    BY DEF Policy!Newest
  <2>2. \A listed : Policy!Duplicate(listed, now.ev, now.asked.window, now.at)' <=>
                      Policy!Duplicate(listed, now.ev, now.asked.window, now.at)
    BY DEF Policy!Duplicate, Policy!SameKey
  <2>3. Policy!LastHour(now.ev.station, now.at)' = Policy!LastHour(now.ev.station, now.at)
    BY DEF Policy!LastHour
  <2>4. Policy!ShouldEscalate(now.ev, clock)' = Policy!ShouldEscalate(now.ev, clock)
    BY Zenon DEF Policy!ShouldEscalate, Policy!Newest, Policy!Duplicate, Policy!SameKey, Policy!LastHour
  <2> QED
    BY <2>1, <2>2, <2>3, <2>4 DEF Foretold
<1> QED
  BY <1>1, <1>2, <1>3

\* A caller that passed the cap goes on as it was, or ends.
PassedStay ==
  \A d \in Caller :
    call'[d].pc = "insert" /\ call'[d].asked.cap > 0 =>
      /\ call[d].pc = "insert" /\ call'[d].asked = call[d].asked
      /\ call'[d].ev = call[d].ev /\ call'[d].at = call[d].at

LEMMA CapFinite ==
  ASSUME PolicyTables, NEW station, NEW from
  PROVE  /\ IsFiniteSet(Counted(station, from)) /\ Cardinality(Counted(station, from)) \in Nat
         /\ IsFiniteSet(Passed(station, from)) /\ Cardinality(Passed(station, from)) \in Nat
         /\ Cardinality(Passed(station, from)) <= Cardinality(Caller) /\ Cardinality(Caller) \in Nat
<1>1. IsFiniteSet(DOMAIN alerts) /\ IsFiniteSet(Caller)
  BY AlertFacts
<1>2. Counted(station, from) \subseteq DOMAIN alerts /\ Passed(station, from) \subseteq Caller
  BY DEF Counted, Passed
<1> QED
  BY <1>1, <1>2, PartSmaller

LEMMA CapOnKept ==
  ASSUME PolicyTables, caps \subseteq caps', NEW station, NEW from, CapOn(station, from),
         Counted(station, from)' = Counted(station, from),
         Passed(station, from)' \subseteq Passed(station, from)
  PROVE  CapOn(station, from)'
<1> DEFINE S == Counted(station, from)
           P == Passed(station, from)
<1>1. S' = S /\ P' \subseteq P
  OBVIOUS
<1>2. /\ IsFiniteSet(S) /\ Cardinality(S) \in Nat /\ IsFiniteSet(P) /\ Cardinality(P) \in Nat
      /\ Cardinality(Caller) \in Nat
  BY CapFinite
<1>3. Cardinality(P') \in Nat /\ Cardinality(P') <= Cardinality(P)
  BY <1>1, <1>2, PartSmaller
<1>4. (S # {} \/ P # {}) => \E m \in caps : m > 0 /\ Cardinality(S) + Cardinality(P) <= m + Cardinality(Caller) - 1
  BY DEF CapOn
<1>5. caps \subseteq Nat
  BY AlertFacts
<1>6. ASSUME S' # {} \/ P' # {}
      PROVE  \E m \in caps' : m > 0 /\ Cardinality(S') + Cardinality(P') <= m + Cardinality(Caller) - 1
  <2>1. PICK m \in caps : m > 0 /\ Cardinality(S) + Cardinality(P) <= m + Cardinality(Caller) - 1
    BY <1>1, <1>4, <1>6
  <2>2. m \in Nat /\ m \in caps'
    BY <1>5, <2>1
  <2>3. Cardinality(S') = Cardinality(S)
    BY <1>1
  <2> HIDE DEF S, P
  <2>4. Cardinality(S') + Cardinality(P') <= m + Cardinality(Caller) - 1
    BY <1>2, <1>3, <2>1, <2>2, <2>3
  <2> QED
    BY <2>1, <2>2, <2>4
<1> QED
  BY <1>6 DEF CapOn

LEMMA CapKept ==
  ASSUME PolicyInv, caps \subseteq caps', PassedStay,
         \A station, from : Counted(station, from)' = Counted(station, from)
  PROVE  CapHeld'
<1> SUFFICES ASSUME NEW e \in Event, NEW from \in Nat PROVE CapOn(e.station, from)'
  BY DEF CapHeld
<1>1. Passed(e.station, from)' \subseteq Passed(e.station, from)
  BY DEF Passed, PassedStay
<1> QED
  BY <1>1, CapOnKept DEF PolicyInv, CapHeld

\* The calls after a step that disturbs them all, and may end some.
LEMMA DisturbAll ==
  ASSUME PolicyTables, PolicyCalls, AlertsStay, caps \subseteq caps', clock' \in Nat, clock <= clock',
         NEW calls, \A d \in Caller : calls[d] = call[d] \/ calls[d] = Policy!NoCall,
         call' = Policy!Disturbed(calls)
  PROVE  /\ call' \in [Caller -> {Policy!NoCall} \cup PolicyCall] /\ PolicyCalls' /\ PassedStay
<1>1. ASSUME NEW d \in Caller
      PROVE  \/ calls[d] = Policy!NoCall /\ call'[d] = Policy!NoCall
             \/ /\ calls[d] = call[d] /\ call[d] # Policy!NoCall
                /\ call'[d] = [call[d] EXCEPT !.foretold = {}]
  BY DEF Policy!Disturbed
<1>2. ASSUME NEW d \in Caller, NEW after, after = call'[d], after # Policy!NoCall
      PROVE  /\ after \in PolicyCall /\ Began(after)' /\ Looked(after)' /\ Foretold(after)'
             /\ after.pc = call[d].pc /\ after.asked = call[d].asked
             /\ after.ev = call[d].ev /\ after.at = call[d].at
  <2>1. PICK now : now = call[d]
    OBVIOUS
  <2>2. after = [now EXCEPT !.foretold = {}] /\ now # Policy!NoCall
    BY <1>1, <1>2, <2>1
  <2>3. now \in PolicyCall
    BY <2>1, <2>2 DEF PolicyTables
  <2>4. Began(now) /\ Looked(now)
    BY <2>1, <2>3 DEF PolicyCalls
  <2>5. after \in PolicyCall /\ Began(after)' /\ Looked(after)' /\ Foretold(after)'
    BY <2>2, <2>3, <2>4, CallDisturbed
  <2>6. after.pc = now.pc /\ after.asked = now.asked /\ after.ev = now.ev /\ after.at = now.at
    BY <2>2, <2>3 DEF PolicyCall
  <2> QED
    BY <2>1, <2>5, <2>6
<1>3. call' \in [Caller -> {Policy!NoCall} \cup PolicyCall]
  <2>1. \A d \in Caller : call'[d] \in {Policy!NoCall} \cup PolicyCall
    BY <1>2
  <2>2. call' = [d \in Caller |-> call'[d]]
    BY DEF Policy!Disturbed
  <2> QED
    BY <2>1, <2>2
<1>4. PolicyCalls'
  <2> SUFFICES ASSUME NEW d \in Caller, NEW after \in PolicyCall, call'[d] = after
               PROVE  Began(after)' /\ Looked(after)' /\ Foretold(after)'
    BY DEF PolicyCalls
  <2>1. after # Policy!NoCall
    BY DEF PolicyCall, Policy!NoCall
  <2> QED
    BY <1>2, <2>1
<1>5. PassedStay
  <2> SUFFICES ASSUME NEW d \in Caller, call'[d].pc = "insert"
               PROVE  /\ call[d].pc = "insert" /\ call'[d].asked = call[d].asked
                      /\ call'[d].ev = call[d].ev /\ call'[d].at = call[d].at
    BY DEF PassedStay
  <2>1. call'[d] # Policy!NoCall
    BY DEF Policy!NoCall
  <2>2. PICK after : after = call'[d]
    OBVIOUS
  <2> QED
    BY <1>2, <2>1, <2>2
<1> QED
  BY <1>3, <1>4, <1>5

\* The calls after a step of one of them.
LEMMA OneCall ==
  ASSUME PolicyTables, PolicyCalls, UNCHANGED <<policy, alerts, clock, caps>>,
         NEW c \in Caller, NEW after, call' = [call EXCEPT ![c] = after],
         \/ after = Policy!NoCall
         \/ after \in PolicyCall /\ Began(after)' /\ Looked(after)' /\ Foretold(after)'
  PROVE  /\ call' \in [Caller -> {Policy!NoCall} \cup PolicyCall] /\ PolicyCalls'
         /\ call'[c] = after /\ \A d \in Caller \ {c} : call'[d] = call[d]
<1>1. /\ call' \in [Caller -> {Policy!NoCall} \cup PolicyCall]
      /\ call'[c] = after /\ \A d \in Caller \ {c} : call'[d] = call[d]
  BY DEF PolicyTables
<1>2. ASSUME NEW d \in Caller, NEW now \in PolicyCall, call'[d] = now
      PROVE  Began(now)' /\ Looked(now)' /\ Foretold(now)'
  <2>1. CASE d = c
    <3>1. now = after /\ now # Policy!NoCall
      BY <1>1, <1>2, <2>1 DEF PolicyCall, Policy!NoCall
    <3> QED
      BY <3>1
  <2>2. CASE d # c
    <3>1. Began(now) /\ Looked(now) /\ Foretold(now)
      BY <1>1, <1>2, <2>2 DEF PolicyCalls
    <3> QED
      BY <3>1, CallUndisturbed
  <2> QED
    BY <2>1, <2>2
<1>3. PolicyCalls'
  BY <1>2 DEF PolicyCalls
<1> QED
  BY <1>1, <1>3

LEMMA MinOfTwo ==
  ASSUME NEW a \in Nat, NEW b \in Nat
  PROVE  LET m == Policy!Min({a, b}) IN m \in {a, b} /\ m <= a /\ m <= b
<1>1. \E x \in {a, b} : \A y \in {a, b} : x <= y
  OBVIOUS
<1> QED
  BY <1>1 DEF Policy!Min

LEMMA StoreFacts ==
  ASSUME PolicyTables, NEW ev \in Event \cup Finding, NEW at \in Nat, at <= clock, NEW capped \in BOOLEAN,
         Policy!Store(ev, at, capped), capped => \E k \in caps : k > 0,
         call' \in [Caller -> {Policy!NoCall} \cup PolicyCall]
  PROVE  /\ PolicyTables' /\ AlertsStay /\ UNCHANGED <<policy, clock, caps>>
         /\ DOMAIN alerts' = DOMAIN alerts \cup {Len(alerts) + 1} /\ Len(alerts) + 1 \notin DOMAIN alerts
         /\ \A i \in DOMAIN alerts : alerts'[i] = alerts[i]
         /\ alerts'[Len(alerts) + 1] = [station |-> ev.station, rule |-> ev.rule, fired |-> at, capped |-> capped]
<1> DEFINE row == [station |-> ev.station, rule |-> ev.rule, fired |-> at, capped |-> capped]
<1>1. alerts' = Append(alerts, row) /\ UNCHANGED <<policy, clock, caps, sets>>
  BY DEF Policy!Store
<1>2. /\ Len(alerts) \in Nat /\ DOMAIN alerts = 1..Len(alerts) /\ {clock, MaxClock} \subseteq Nat
      /\ \A i \in DOMAIN alerts : alerts[i].fired <= clock
  BY AlertFacts
<1>3. row \in Policy!AlertRow
  <2>1. at \in 0..MaxClock
    BY <1>2 DEF PolicyTables
  <2> QED
    BY <2>1 DEF Policy!AlertRow
<1>4. alerts \in Seq(Policy!AlertRow)
  BY DEF PolicyTables
<1>5. row.fired = at /\ (row.capped => \E k \in caps : k > 0)
  OBVIOUS
<1> HIDE DEF row
<1>6. /\ alerts' \in Seq(Policy!AlertRow) /\ Len(alerts') = Len(alerts) + 1
      /\ alerts'[Len(alerts) + 1] = row /\ \A i \in 1..Len(alerts) : alerts'[i] = alerts[i]
  BY <1>1, <1>3, <1>4, AppendFacts
<1>7. AlertsStay
  BY <1>2, <1>6 DEF AlertsStay
<1>8. DOMAIN alerts' = DOMAIN alerts \cup {Len(alerts) + 1} /\ Len(alerts) + 1 \notin DOMAIN alerts
  BY <1>2, <1>6
<1>9. \A i \in DOMAIN alerts' : /\ alerts'[i].fired <= clock
                                /\ alerts'[i].capped => \E k \in caps : k > 0
  <2> TAKE i \in DOMAIN alerts'
  <2>1. CASE i = Len(alerts) + 1
    BY <1>5, <1>6, <2>1
  <2>2. CASE i \in DOMAIN alerts
    BY <1>2, <1>6, <2>2 DEF PolicyTables
  <2> QED
    BY <1>8, <2>1, <2>2
<1>10. PolicyTables'
  BY <1>1, <1>6, <1>9 DEF PolicyTables
<1> QED
  BY <1>1, <1>2, <1>6, <1>7, <1>8, <1>10 DEF row

LEMMA SetPolicyKeeps ==
  ASSUME PolicyInv, NEW p \in Setting, Policy!SetAlertPolicy(p)
  PROVE  PolicyInv'
<1>1. PICK q : q = Policy!Clamped(p)
  OBVIOUS
<1>2. /\ policy' = q /\ caps' = caps \cup {q.cap} /\ sets < MaxSets /\ sets' = sets + 1
      /\ call' = Policy!Disturbed(call) /\ UNCHANGED <<alerts, clock>>
  BY <1>1 DEF Policy!SetAlertPolicy
<1>3. q \in Policy!Effective /\ q.cap \in Nat
  BY <1>1, ClampedFacts DEF Policy!Effective
<1>4. AlertsStay /\ caps \subseteq Nat /\ clock \in Nat /\ MaxSets \in Nat
  BY <1>2, AlertFacts DEF PolicyInv, PolicyTables, AlertsStay
<1>5. /\ call' \in [Caller -> {Policy!NoCall} \cup PolicyCall] /\ PolicyCalls' /\ PassedStay
  <2>1. PICK calls : calls = call
    OBVIOUS
  <2> QED
    BY <1>2, <1>4, <2>1, DisturbAll DEF PolicyInv
<1>6. \E top \in caps' : \A k \in caps' : k <= top
  <2>1. PICK top \in caps : \A k \in caps : k <= top
    BY DEF PolicyInv, PolicyTables
  <2>2. CASE top <= q.cap
    <3>1. \A k \in caps' : k <= q.cap
      BY <1>2, <1>3, <1>4, <2>1, <2>2
    <3> QED
      BY <1>2, <3>1
  <2>3. CASE q.cap <= top
    BY <1>2, <1>4, <2>1, <2>3
  <2> QED
    BY <1>3, <1>4, <2>2, <2>3
<1>7. PolicyTables'
  <2>1. policy' \in Policy!Effective /\ policy'.cap \in caps'
    BY <1>2, <1>3
  <2>2. caps' \subseteq {e.cap : e \in Policy!Effective}
    BY <1>2, <1>3 DEF PolicyInv, PolicyTables
  <2>3. alerts' \in Seq(Policy!AlertRow) /\ clock' \in 0..MaxClock /\ sets' \in 0..MaxSets
    BY <1>2, <1>4 DEF PolicyInv, PolicyTables
  <2>4. \A i \in DOMAIN alerts' : /\ alerts'[i].fired <= clock'
                                  /\ alerts'[i].capped => \E k \in caps' : k > 0
    BY <1>2 DEF PolicyInv, PolicyTables
  <2> QED
    BY <1>5, <1>6, <2>1, <2>2, <2>3, <2>4, Zenon DEF PolicyTables
<1>8. \A station, from : Counted(station, from)' = Counted(station, from)
  BY <1>2 DEF Counted
<1>9. CapHeld'
  BY <1>2, <1>5, <1>8, CapKept
<1> QED
  BY <1>5, <1>7, <1>9 DEF PolicyInv

LEMMA EscalateKeeps ==
  ASSUME PolicyInv, NEW ev \in Finding, Policy!Escalate(ev)
  PROVE  PolicyInv'
<1>1. Policy!Store(ev, clock, FALSE) /\ call' = Policy!Disturbed(call)
  BY DEF Policy!Escalate
<1>2. PICK at, calls : at = clock /\ calls = call
  OBVIOUS
<1>3. at \in Nat /\ at <= clock /\ clock \in Nat
  BY <1>2, AlertFacts DEF PolicyInv
<1>4. /\ UNCHANGED <<policy, clock, caps>>
      /\ alerts' = Append(alerts, [station |-> ev.station, rule |-> ev.rule, fired |-> clock, capped |-> FALSE])
  BY <1>1 DEF Policy!Store
<1>5. AlertsStay
  <2>1. [station |-> ev.station, rule |-> ev.rule, fired |-> clock, capped |-> FALSE] \in Policy!AlertRow
    BY <1>3 DEF PolicyInv, PolicyTables, Policy!AlertRow
  <2>2. alerts \in Seq(Policy!AlertRow)
    BY DEF PolicyInv, PolicyTables
  <2> QED
    BY <1>4, <2>1, <2>2, AppendFacts DEF AlertsStay
<1>6. /\ call' \in [Caller -> {Policy!NoCall} \cup PolicyCall] /\ PolicyCalls' /\ PassedStay
  BY <1>1, <1>2, <1>3, <1>4, <1>5, DisturbAll DEF PolicyInv
<1>7. /\ PolicyTables' /\ DOMAIN alerts' = DOMAIN alerts \cup {Len(alerts) + 1}
      /\ \A i \in DOMAIN alerts : alerts'[i] = alerts[i]
      /\ alerts'[Len(alerts) + 1]
           = [station |-> ev.station, rule |-> ev.rule, fired |-> at, capped |-> FALSE]
  BY <1>1, <1>2, <1>3, <1>6, StoreFacts DEF PolicyInv
<1>8. \A station, from : Counted(station, from)' = Counted(station, from)
  <2> SUFFICES ASSUME NEW station, NEW from, NEW i
               PROVE  i \in Counted(station, from)' <=> i \in Counted(station, from)
    OBVIOUS
  <2>1. ~alerts'[Len(alerts) + 1].capped
    BY <1>7
  <2> QED
    BY <1>7, <2>1 DEF Counted
<1>9. CapHeld'
  BY <1>4, <1>6, <1>8, CapKept
<1> QED
  BY <1>6, <1>7, <1>9 DEF PolicyInv

LEMMA PolicyTickKeeps ==
  ASSUME PolicyInv, Policy!Tick
  PROVE  PolicyInv'
<1>1. /\ clock < MaxClock /\ clock' = clock + 1 /\ call' = Policy!Disturbed(call)
      /\ UNCHANGED <<policy, alerts, caps, sets>>
  BY DEF Policy!Tick
<1>2. {clock, MaxClock} \subseteq Nat /\ \A i \in DOMAIN alerts : alerts[i].fired \in Nat /\ alerts[i].fired <= clock
  BY AlertFacts DEF PolicyInv
<1>3. AlertsStay
  BY <1>1 DEF AlertsStay, PolicyInv, PolicyTables
<1>4. /\ call' \in [Caller -> {Policy!NoCall} \cup PolicyCall] /\ PolicyCalls' /\ PassedStay
  <2>1. PICK calls : calls = call
    OBVIOUS
  <2> QED
    BY <1>1, <1>2, <1>3, <2>1, DisturbAll DEF PolicyInv
<1>5. PolicyTables'
  BY <1>1, <1>2, <1>4 DEF PolicyInv, PolicyTables
<1>6. CapHeld'
  BY <1>1, <1>4, CapKept DEF Counted
<1> QED
  BY <1>4, <1>5, <1>6 DEF PolicyInv

\* A step of one call that is not counted against a cap by it.
LEMMA OneCallKeeps ==
  ASSUME PolicyInv, UNCHANGED <<policy, alerts, clock, caps, sets>>,
         NEW c \in Caller, NEW after, call' = [call EXCEPT ![c] = after],
         \/ after = Policy!NoCall
         \/ /\ after \in PolicyCall /\ Began(after)' /\ Looked(after)' /\ Foretold(after)'
            /\ after.pc = "insert" => after.asked.cap = 0
  PROVE  PolicyInv'
<1>1. /\ call' \in [Caller -> {Policy!NoCall} \cup PolicyCall] /\ PolicyCalls'
      /\ call'[c] = after /\ \A d \in Caller \ {c} : call'[d] = call[d]
  BY OneCall DEF PolicyInv
<1>2. PassedStay
  BY <1>1 DEF PassedStay, Policy!NoCall
<1>3. PolicyTables'
  BY <1>1 DEF PolicyInv, PolicyTables
<1>4. CapHeld'
  BY <1>2, CapKept DEF Counted
<1> QED
  BY <1>1, <1>3, <1>4 DEF PolicyInv

LEMMA PolicyFailsKeeps ==
  ASSUME PolicyInv, NEW c \in Caller, Policy!Fails(c)
  PROVE  PolicyInv'
<1>1. call' = [call EXCEPT ![c] = Policy!NoCall] /\ UNCHANGED <<policy, alerts, clock, caps, sets>>
  BY DEF Policy!Fails, Policy!Returned
<1> QED
  BY <1>1, OneCallKeeps

LEMMA DryRunType ==
  ASSUME NEW ev, NEW at
  PROVE  Policy!ShouldEscalate(ev, at) \subseteq BOOLEAN
BY DEF Policy!ShouldEscalate

LEMMA BeginKeeps ==
  ASSUME PolicyInv, NEW c \in Caller, NEW ev \in Event, Policy!EscalateDedup(c, ev)
  PROVE  PolicyInv'
<1>1. PICK told : told = Policy!ShouldEscalate(ev, clock)
  OBVIOUS
<1> DEFINE after == [pc |-> IF policy.window > 0 THEN "look" ELSE Policy!ThenCount(policy), ev |-> ev, at |-> clock,
                     asked |-> [window |-> policy.window, cap |-> policy.cap, begun |-> Len(alerts)],
                     foretold |-> told]
<1>2. call' = [call EXCEPT ![c] = after] /\ UNCHANGED <<policy, alerts, clock, caps, sets>>
  BY <1>1 DEF Policy!EscalateDedup
<1>3. PICK now : now = after
  OBVIOUS
<1>4. /\ {clock, policy.window, policy.cap, Len(alerts)} \subseteq Nat /\ told \subseteq BOOLEAN
      /\ DOMAIN alerts = 1..Len(alerts) /\ \A i \in DOMAIN alerts : alerts[i].fired <= clock
  BY <1>1, AlertFacts, DryRunType DEF PolicyInv
<1>5. /\ now.ev = ev /\ now.at = clock /\ now.asked.window = policy.window /\ now.asked.cap = policy.cap
      /\ now.asked.begun = Len(alerts) /\ now.foretold = told
      /\ \/ now.pc = "look" /\ policy.window > 0
         \/ now.pc = "count" /\ policy.window = 0 /\ policy.cap > 0
         \/ now.pc = "insert" /\ policy.window = 0 /\ policy.cap = 0
  <2>1. /\ now.ev = ev /\ now.at = clock /\ now.asked.window = policy.window /\ now.asked.cap = policy.cap
        /\ now.asked.begun = Len(alerts) /\ now.foretold = told
    BY <1>3
  <2>2. now.pc = IF policy.window > 0 THEN "look" ELSE Policy!ThenCount(policy)
    BY <1>3
  <2>3. Policy!ThenCount(policy) = IF policy.cap > 0 THEN "count" ELSE "insert"
    BY DEF Policy!ThenCount
  <2>4. policy.window \in Nat /\ policy.cap \in Nat
    BY <1>4
  <2> QED
    BY <2>1, <2>2, <2>3, <2>4
<1>6. now \in PolicyCall
  BY <1>3, <1>4, <1>5 DEF PolicyCall
<1>7. Began(now)
  BY <1>4, <1>5 DEF Began, PolicyInv, PolicyTables
<1>8. Looked(now)
  BY <1>5 DEF Looked
<1>9. Foretold(now)
  BY <1>1, <1>5 DEF Foretold
<1>10. Began(now)' /\ Looked(now)' /\ Foretold(now)'
  BY <1>2, <1>7, <1>8, <1>9, CallUndisturbed
<1>11. call' = [call EXCEPT ![c] = now]
  BY <1>2, <1>3
<1>12. now.pc = "insert" => now.asked.cap = 0
  BY <1>5
<1> HIDE DEF after
<1> QED
  BY <1>2, <1>6, <1>10, <1>11, <1>12, OneCallKeeps

\* An alert that a call of its station and rule has not seen as a duplicate
\* was not among those listed, which are as many as the list holds.
LEMMA NotListed ==
  ASSUME PolicyInv, NEW ev, NEW window \in Nat, NEW at \in Nat, NEW listed \in Policy!Newest,
         ~Policy!Duplicate(listed, ev, window, at), NEW i \in DOMAIN alerts,
         Policy!SameKey(i, ev), alerts[i].fired + window >= at, alerts[i].fired <= at
  PROVE  Crowded(i)
<1>1. /\ Len(alerts) \in Nat /\ {ListLimit, Minute} \subseteq Nat /\ IsFiniteSet(DOMAIN alerts)
      /\ DOMAIN alerts = 1..Len(alerts) /\ \A k \in DOMAIN alerts : alerts[k].fired \in Nat
  <2>1. Minute \in Nat
    BY DeskAssumption DEF Policy!PolicyParameters
  <2> QED
    BY <2>1, AlertFacts DEF PolicyInv
<1>2. i \notin listed
  BY <1>1 DEF Policy!Duplicate
<1>3. /\ listed \subseteq DOMAIN alerts /\ Cardinality(listed) = Policy!Min({ListLimit, Len(alerts)})
      /\ \A k \in listed : alerts[k].fired >= alerts[i].fired
  BY <1>2, PolicyCardinality DEF Policy!Newest
<1> DEFINE S == DOMAIN alerts \ {i}
           T == {k \in DOMAIN alerts \ {i} : alerts[k].fired >= alerts[i].fired}
<1>4. listed \subseteq T /\ T \subseteq S /\ S \subseteq DOMAIN alerts
  BY <1>2, <1>3
<1>5. Cardinality(DOMAIN alerts) = Len(alerts)
  BY <1>1, CountUpTo
<1>6. IsFiniteSet(S) /\ Cardinality(S) = Len(alerts) - 1
  BY <1>1, <1>5, FS_RemoveElement
<1>7. /\ Cardinality(listed) \in Nat /\ Cardinality(listed) <= Cardinality(T)
      /\ Cardinality(T) \in Nat /\ Cardinality(T) <= Len(alerts) - 1
  <2>1. IsFiniteSet(T) /\ Cardinality(T) <= Cardinality(S)
    BY <1>4, <1>6, PartSmaller
  <2>2. Cardinality(listed) \in Nat /\ Cardinality(listed) <= Cardinality(T) /\ Cardinality(T) \in Nat
    BY <1>4, <2>1, PartSmaller
  <2> QED
    BY <1>6, <2>1, <2>2
<1>8. Cardinality(listed) \in {ListLimit, Len(alerts)}
  BY <1>1, <1>3, MinOfTwo
<1>9. Cardinality(T) >= ListLimit
  <2> HIDE DEF T
  <2> QED
    BY <1>1, <1>7, <1>8
<1> QED
  BY <1>9 DEF Crowded

LEMMA LookKeeps ==
  ASSUME PolicyInv, NEW c \in Caller, Policy!LookForDuplicate(c)
  PROVE  PolicyInv'
<1>1. UNCHANGED <<policy, alerts, clock, caps, sets>> /\ call[c].pc = "look"
  BY DEF Policy!LookForDuplicate
<1>2. PICK now : now = call[c]
  OBVIOUS
<1>3. now \in PolicyCall /\ now.pc = "look" /\ Began(now) /\ Looked(now) /\ Foretold(now)
  <2>1. now \in PolicyCall /\ now.pc = "look"
    BY <1>1, <1>2 DEF PolicyInv, PolicyTables, Policy!NoCall
  <2> QED
    BY <1>2, <2>1 DEF PolicyInv, PolicyCalls
<1>4. PICK listed \in Policy!Newest :
        IF Policy!Duplicate(listed, now.ev, now.asked.window, now.at)
          THEN call' = Policy!Returned(c)
          ELSE Policy!GoOn(c, Policy!ThenCount(now.asked))
  BY <1>2 DEF Policy!LookForDuplicate
<1>5. CASE Policy!Duplicate(listed, now.ev, now.asked.window, now.at)
  BY <1>1, <1>4, <1>5, OneCallKeeps DEF Policy!Returned
<1>6. CASE ~Policy!Duplicate(listed, now.ev, now.asked.window, now.at)
  <2> DEFINE next == [pc |-> Policy!ThenCount(now.asked), ev |-> now.ev, at |-> clock,
                      asked |-> now.asked, foretold |-> now.foretold]
  <2>1. PICK after : after = next
    OBVIOUS
  <2>2. call' = [call EXCEPT ![c] = after]
    <3>1. call' = [call EXCEPT ![c].pc = Policy!ThenCount(now.asked), ![c].at = clock]
      BY <1>4, <1>6 DEF Policy!GoOn
    <3>2. call'[c] = next /\ \A d \in Caller \ {c} : call'[d] = call[d]
      BY <1>2, <1>3, <3>1 DEF PolicyInv, PolicyTables, PolicyCall
    <3>3. call' = [d \in Caller |-> IF d = c THEN next ELSE call[d]]
      BY <3>1, <3>2 DEF PolicyInv, PolicyTables
    <3> QED
      BY <2>1, <3>3 DEF PolicyInv, PolicyTables
  <2>3. /\ {clock, now.asked.window, now.asked.cap, now.asked.begun, now.at} \subseteq Nat
        /\ now.at <= clock /\ now.asked \in [window : Nat, cap : Nat, begun : Nat]
        /\ now.ev \in Event /\ now.foretold \in SUBSET BOOLEAN
    BY <1>3, AlertFacts DEF PolicyInv, PolicyCall, Began
  <2>4. /\ after.ev = now.ev /\ after.at = clock /\ after.asked = now.asked /\ after.foretold = now.foretold
        /\ \/ after.pc = "count" /\ now.asked.cap > 0
           \/ after.pc = "insert" /\ now.asked.cap = 0
    <3>1. /\ after.ev = now.ev /\ after.at = clock /\ after.asked = now.asked /\ after.foretold = now.foretold
          /\ after.pc = Policy!ThenCount(now.asked)
      BY <2>1
    <3>2. Policy!ThenCount(now.asked) = IF now.asked.cap > 0 THEN "count" ELSE "insert"
      BY DEF Policy!ThenCount
    <3> QED
      BY <2>3, <3>1, <3>2
  <2>5. after \in PolicyCall
    <3>1. Policy!ThenCount(now.asked) \in {"look", "count", "insert"}
      BY DEF Policy!ThenCount
    <3> QED
      BY <2>1, <2>3, <3>1 DEF PolicyCall
  <2>6. Began(after)
    <3>1. \A i \in 1..now.asked.begun : alerts[i].fired <= clock
      BY <1>3, <2>3, AlertFacts DEF PolicyInv, Began
    <3> QED
      BY <1>3, <2>3, <2>4, <3>1 DEF Began
  <2>7. Looked(after)
    <3> SUFFICES ASSUME NEW i \in 1..now.asked.begun, Policy!SameKey(i, now.ev),
                        alerts[i].fired + now.asked.window >= clock
                 PROVE  Crowded(i)
      BY <2>4 DEF Looked
    <3>1. i \in DOMAIN alerts /\ alerts[i].fired \in Nat
      BY <1>3, <2>3, AlertFacts DEF PolicyInv, Began
    <3>2. alerts[i].fired + now.asked.window >= now.at /\ alerts[i].fired <= now.at
      BY <1>3, <2>3, <3>1 DEF Began
    <3> QED
      BY <1>6, <2>3, <3>1, <3>2, NotListed
  <2>8. Foretold(after)
    BY <1>3, <1>6, <2>4 DEF Foretold
  <2>9. Began(after)' /\ Looked(after)' /\ Foretold(after)'
    BY <1>1, <2>6, <2>7, <2>8, CallUndisturbed
  <2> QED
    BY <1>1, <2>2, <2>4, <2>5, <2>9, OneCallKeeps
<1> QED
  BY <1>5, <1>6

LEMMA CountKeeps ==
  ASSUME PolicyInv, NEW c \in Caller, Policy!CountLastHour(c)
  PROVE  PolicyInv'
<1>1. UNCHANGED <<policy, alerts, clock, caps, sets>> /\ call[c].pc = "count"
  BY DEF Policy!CountLastHour
<1>2. PICK now : now = call[c]
  OBVIOUS
<1>3. now \in PolicyCall /\ now.pc = "count" /\ Began(now) /\ Looked(now) /\ Foretold(now)
  <2>1. now \in PolicyCall /\ now.pc = "count"
    BY <1>1, <1>2 DEF PolicyInv, PolicyTables, Policy!NoCall
  <2> QED
    BY <1>2, <2>1 DEF PolicyInv, PolicyCalls
<1>4. CASE Policy!LastHour(now.ev.station, now.at) >= now.asked.cap
  <2>1. call' = [call EXCEPT ![c] = Policy!NoCall]
    BY <1>2, <1>4 DEF Policy!CountLastHour, Policy!Returned
  <2> QED
    BY <1>1, <2>1, OneCallKeeps
<1>5. CASE ~(Policy!LastHour(now.ev.station, now.at) >= now.asked.cap)
  <2> DEFINE next == [pc |-> "insert", ev |-> now.ev, at |-> clock,
                      asked |-> now.asked, foretold |-> now.foretold]
  <2>1. PICK after : after = next
    OBVIOUS
  <2>2. call' = [call EXCEPT ![c] = after]
    <3>1. call' = [call EXCEPT ![c].pc = "insert", ![c].at = clock]
      BY <1>2, <1>5 DEF Policy!CountLastHour, Policy!GoOn
    <3>2. call'[c] = next /\ \A d \in Caller \ {c} : call'[d] = call[d]
      BY <1>2, <1>3, <3>1 DEF PolicyInv, PolicyTables, PolicyCall
    <3>3. call' = [d \in Caller |-> IF d = c THEN next ELSE call[d]]
      BY <3>1, <3>2 DEF PolicyInv, PolicyTables
    <3> QED
      BY <2>1, <3>3 DEF PolicyInv, PolicyTables
  <2>3. /\ {clock, Hour, now.asked.window, now.asked.cap, now.asked.begun, now.at} \subseteq Nat
        /\ now.at <= clock /\ now.asked \in [window : Nat, cap : Nat, begun : Nat]
        /\ now.ev \in Event /\ now.foretold \in SUBSET BOOLEAN /\ now.asked.cap > 0 /\ now.asked.cap \in caps
    BY <1>3, AlertFacts DEF PolicyInv, PolicyCall, Began
  <2>4. /\ after.ev = now.ev /\ after.at = clock /\ after.asked = now.asked /\ after.foretold = now.foretold
        /\ after.pc = "insert"
    BY <2>1
  <2>5. after \in PolicyCall
    BY <2>1, <2>3 DEF PolicyCall
  <2>6. Began(after)
    <3>1. \A i \in 1..now.asked.begun : alerts[i].fired <= clock
      BY <1>3, <2>3, AlertFacts DEF PolicyInv, Began
    <3> QED
      BY <1>3, <2>3, <2>4, <3>1 DEF Began
  <2>7. Looked(after)
    <3> SUFFICES ASSUME now.asked.window > 0, NEW i \in 1..now.asked.begun, Policy!SameKey(i, now.ev),
                        alerts[i].fired + now.asked.window >= clock
                 PROVE  Crowded(i)
      BY <2>4 DEF Looked
    <3>1. i \in DOMAIN alerts /\ alerts[i].fired \in Nat
      BY <1>3, <2>3, AlertFacts DEF PolicyInv, Began
    <3>2. alerts[i].fired + now.asked.window >= now.at
      BY <2>3, <3>1
    <3> QED
      BY <1>3, <3>2 DEF Looked
  <2> DEFINE R == {i \in DOMAIN alerts : alerts[i].station = now.ev.station /\ alerts[i].fired + Hour >= now.at}
  <2>8. /\ Policy!LastHour(now.ev.station, now.at) = Cardinality(R) /\ IsFiniteSet(R)
        /\ Cardinality(R) \in Nat /\ Cardinality(R) < now.asked.cap
    <3>1. Policy!LastHour(now.ev.station, now.at) = Cardinality(R)
      BY PolicyCardinality DEF Policy!LastHour
    <3>2. IsFiniteSet(R) /\ Cardinality(R) \in Nat
      <4>1. IsFiniteSet(DOMAIN alerts) /\ R \subseteq DOMAIN alerts
        BY AlertFacts DEF PolicyInv
      <4> HIDE DEF R
      <4> QED
        BY <4>1, PartSmaller
    <3> HIDE DEF R
    <3> QED
      BY <1>5, <2>3, <3>1, <3>2
  <2>9. Foretold(after)
    <3> SUFFICES ASSUME now.foretold # {} PROVE Foretold(after)
      BY <2>4 DEF Foretold
    <3>1. now.at = clock /\ Policy!LastHour(now.ev.station, clock) < now.asked.cap
      BY <1>3, <2>8 DEF Foretold
    <3> QED
      BY <1>3, <2>4, <3>1 DEF Foretold
  <2>10. Began(after)' /\ Looked(after)' /\ Foretold(after)'
    BY <1>1, <2>6, <2>7, <2>9, CallUndisturbed
  <2>11. /\ call' \in [Caller -> {Policy!NoCall} \cup PolicyCall] /\ PolicyCalls'
         /\ call'[c] = after /\ \A d \in Caller \ {c} : call'[d] = call[d]
    BY <1>1, <2>2, <2>5, <2>10, OneCall DEF PolicyInv
  <2>12. PolicyTables'
    BY <1>1, <2>11 DEF PolicyInv, PolicyTables
  <2>13. ASSUME NEW e \in Event, NEW from \in Nat PROVE CapOn(e.station, from)'
    <3>1. Counted(e.station, from)' = Counted(e.station, from)
      BY <1>1 DEF Counted
    <3>2. CASE e.station = now.ev.station /\ from <= clock /\ clock <= from + Hour
      <4> DEFINE S == Counted(e.station, from)
                 P == Passed(e.station, from)
      <4>1. S \subseteq R
        <5>1. \A i \in DOMAIN alerts : alerts[i].fired \in Nat
          BY AlertFacts DEF PolicyInv
        <5>2. ASSUME NEW i \in S PROVE alerts[i].fired + Hour >= now.at
          BY <2>3, <3>2, <5>1 DEF Counted
        <5> QED
          BY <3>2, <5>2 DEF Counted
      <4>2. Cardinality(S) \in Nat /\ Cardinality(S) <= Cardinality(R)
        BY <2>8, <4>1, PartSmaller
      <4>3. Cardinality(P') \in Nat /\ Cardinality(P') <= Cardinality(Caller) /\ Cardinality(Caller) \in Nat
        <5>1. IsFiniteSet(Caller) /\ P' \subseteq Caller
          BY AlertFacts DEF PolicyInv, Passed
        <5> HIDE DEF P
        <5> QED
          BY <5>1, PartSmaller
      <4>4. Cardinality(S') = Cardinality(S)
        BY <3>1
      <4>5. Cardinality(S') + Cardinality(P') <= now.asked.cap + Cardinality(Caller) - 1
        <5> HIDE DEF S, P, R
        <5> QED
          BY <2>3, <2>8, <4>2, <4>3, <4>4
      <4>6. now.asked.cap \in caps' /\ now.asked.cap > 0
        BY <1>1, <2>3
      <4> QED
        BY <4>5, <4>6 DEF CapOn
    <3>3. CASE ~(e.station = now.ev.station /\ from <= clock /\ clock <= from + Hour)
      <4>1. c \notin Passed(e.station, from)'
        BY <2>4, <2>11, <3>3 DEF Passed
      <4>2. Passed(e.station, from)' \subseteq Passed(e.station, from)
        BY <2>11, <4>1 DEF Passed
      <4> QED
        BY <1>1, <3>1, <4>2, CapOnKept DEF PolicyInv, CapHeld
    <3> QED
      BY <3>2, <3>3
  <2> QED
    BY <2>11, <2>12, <2>13 DEF PolicyInv, CapHeld
<1> QED
  BY <1>4, <1>5

LEMMA PolicyInsertKeeps ==
  ASSUME PolicyInv, NEW c \in Caller, Policy!Insert(c)
  PROVE  PolicyInv'
<1>1. PICK now, at, calls, n : /\ now = call[c] /\ at = now.at /\ calls = [call EXCEPT ![c] = Policy!NoCall]
                               /\ n = Len(alerts) + 1
  OBVIOUS
<1>2. /\ Policy!Store(now.ev, at, now.asked.cap > 0) /\ now.pc = "insert"
      /\ call' = Policy!Disturbed(calls)
  BY <1>1 DEF Policy!Insert, Policy!Returned
<1>3. now \in PolicyCall /\ now.pc = "insert" /\ Began(now)
  <2>1. now \in PolicyCall /\ now.pc = "insert"
    BY <1>1, <1>2 DEF PolicyInv, PolicyTables, Policy!NoCall
  <2> QED
    BY <1>1, <2>1 DEF PolicyInv, PolicyCalls
<1>4. /\ {at, clock, now.asked.cap} \subseteq Nat /\ at <= clock /\ now.ev \in Event /\ now.asked.cap \in caps
  BY <1>1, <1>3, AlertFacts DEF PolicyInv, PolicyCall, Began
<1>5. PICK capped : capped = (now.asked.cap > 0) /\ capped \in BOOLEAN
  <2>1. (now.asked.cap > 0) \in BOOLEAN
    OBVIOUS
  <2> QED
    BY <2>1, Zenon
<1> DEFINE row == [station |-> now.ev.station, rule |-> now.ev.rule, fired |-> at, capped |-> capped]
<1>6. /\ UNCHANGED <<policy, clock, caps>> /\ alerts' = Append(alerts, row)
      /\ Policy!Store(now.ev, at, capped) /\ (capped => \E k \in caps : k > 0)
      /\ capped \in BOOLEAN
  BY <1>2, <1>4, <1>5 DEF Policy!Store
<1>7. AlertsStay
  <2>1. row \in Policy!AlertRow
    <3>1. at \in 0..MaxClock
      BY <1>4, AlertFacts DEF PolicyInv, PolicyTables
    <3> QED
      BY <1>4, <1>6, <3>1 DEF Policy!AlertRow
  <2>2. alerts \in Seq(Policy!AlertRow)
    BY DEF PolicyInv, PolicyTables
  <2> HIDE DEF row
  <2> QED
    BY <1>6, <2>1, <2>2, AppendFacts DEF AlertsStay
<1>8. /\ \A d \in Caller : calls[d] = call[d] \/ calls[d] = Policy!NoCall
      /\ calls[c] = Policy!NoCall
  BY <1>1 DEF PolicyInv, PolicyTables
<1>9. /\ call' \in [Caller -> {Policy!NoCall} \cup PolicyCall] /\ PolicyCalls' /\ PassedStay
  BY <1>2, <1>4, <1>6, <1>7, <1>8, DisturbAll DEF PolicyInv
<1>10. /\ PolicyTables' /\ DOMAIN alerts' = DOMAIN alerts \cup {n} /\ n \notin DOMAIN alerts
       /\ \A i \in DOMAIN alerts : alerts'[i] = alerts[i]
       /\ alerts'[n] = row
  BY <1>1, <1>4, <1>6, <1>9, StoreFacts DEF PolicyInv
<1>11. alerts'[n].station = now.ev.station /\ alerts'[n].fired = at
  BY <1>10
<1>12. alerts'[n].capped <=> now.asked.cap > 0
  <2>1. alerts'[n].capped = capped
    BY <1>10
  <2> QED
    BY <1>5, <2>1, Zenon
<1> HIDE DEF row
<1>13. call'[c] = Policy!NoCall
  BY <1>2, <1>8 DEF Policy!Disturbed
<1>14. \A station, from : Passed(station, from)' \subseteq Passed(station, from) \ {c}
  BY <1>9, <1>13 DEF Passed, PassedStay, Policy!NoCall
<1>15. ASSUME NEW e \in Event, NEW from \in Nat PROVE CapOn(e.station, from)'
  <2> DEFINE S == Counted(e.station, from)
             P == Passed(e.station, from)
  <2>1. CASE now.asked.cap > 0 /\ e.station = now.ev.station /\ from <= at /\ at <= from + Hour
    <3>1. S' \subseteq S \cup {n} /\ n \notin S
      BY <1>10 DEF Counted
    <3>2. c \in P
      BY <1>1, <1>3, <2>1 DEF Passed
    <3>3. P' \subseteq P \ {c}
      BY <1>14
    <3>4. /\ IsFiniteSet(S) /\ Cardinality(S) \in Nat /\ IsFiniteSet(P) /\ Cardinality(P) \in Nat
          /\ Cardinality(Caller) \in Nat
      BY CapFinite DEF PolicyInv
    <3>5. PICK m \in caps : m > 0 /\ Cardinality(S) + Cardinality(P) <= m + Cardinality(Caller) - 1
      BY <3>2 DEF PolicyInv, CapHeld, CapOn
    <3>6. m \in Nat /\ m \in caps'
      BY <1>6, AlertFacts DEF PolicyInv
    <3> HIDE DEF S, P
    <3>7. IsFiniteSet(S \cup {n}) /\ Cardinality(S \cup {n}) = Cardinality(S) + 1
      BY <3>1, <3>4, FS_AddElement
    <3>8. IsFiniteSet(P \ {c}) /\ Cardinality(P \ {c}) = Cardinality(P) - 1
      BY <3>2, <3>4, FS_RemoveElement
    <3>9. Cardinality(S') \in Nat /\ Cardinality(S') <= Cardinality(S) + 1
      BY <3>1, <3>7, PartSmaller
    <3>10. Cardinality(P') \in Nat /\ Cardinality(P') <= Cardinality(P) - 1
      BY <3>3, <3>8, PartSmaller
    <3>11. Cardinality(S') + Cardinality(P') <= m + Cardinality(Caller) - 1
      BY <3>4, <3>5, <3>6, <3>9, <3>10
    <3> QED
      BY <3>5, <3>6, <3>11 DEF S, P, CapOn
  <2>2. CASE ~(now.asked.cap > 0 /\ e.station = now.ev.station /\ from <= at /\ at <= from + Hour)
    <3>1. S' = S
      <4>1. n \notin S'
        BY <1>11, <1>12, <2>2 DEF Counted
      <4> QED
        BY <1>10, <4>1 DEF Counted
    <3>2. P' \subseteq P
      BY <1>14
    <3> QED
      BY <1>6, <3>1, <3>2, CapOnKept DEF PolicyInv, CapHeld
  <2> QED
    BY <2>1, <2>2
<1> QED
  BY <1>9, <1>10, <1>15 DEF PolicyInv, CapHeld

LEMMA PolicyInitial ==
  ASSUME Policy!Init
  PROVE  PolicyInv
<1>1. /\ policy \in Policy!Effective /\ alerts = <<>> /\ clock = 0 /\ caps = {policy.cap} /\ sets = 0
      /\ call = [c \in Caller |-> Policy!NoCall]
  BY DEF Policy!Init, Policy!Effective
<1>2. {MaxClock, MaxSets, policy.cap} \subseteq Nat
  BY <1>1, ClampedFacts, DeskAssumption DEF Policy!PolicyParameters
<1>3. PolicyTables
  BY <1>1, <1>2 DEF PolicyTables
<1>4. PolicyCalls
  BY <1>1 DEF PolicyCalls, PolicyCall, Policy!NoCall
<1>5. \A station, from : Counted(station, from) = {} /\ Passed(station, from) = {}
  BY <1>1 DEF Counted, Passed, Policy!NoCall
<1> QED
  BY <1>3, <1>4, <1>5 DEF PolicyInv, CapHeld, CapOn

LEMMA PolicyStep ==
  ASSUME PolicyInv, Policy!Next
  PROVE  PolicyInv'
<1>1. ASSUME NEW c \in Caller, NEW ev \in Event, Policy!EscalateDedup(c, ev) PROVE PolicyInv'
  BY <1>1, BeginKeeps
<1>2. ASSUME NEW c \in Caller,
             Policy!LookForDuplicate(c) \/ Policy!CountLastHour(c) \/ Policy!Insert(c) \/ Policy!Fails(c)
      PROVE  PolicyInv'
  BY <1>2, LookKeeps, CountKeeps, PolicyInsertKeeps, PolicyFailsKeeps
<1>3. ASSUME NEW ev \in Finding, Policy!Escalate(ev) PROVE PolicyInv'
  BY <1>3, EscalateKeeps
<1>4. ASSUME NEW p \in Setting, Policy!SetAlertPolicy(p) PROVE PolicyInv'
  BY <1>4, SetPolicyKeeps
<1> QED
  BY <1>1, <1>2, <1>3, <1>4, PolicyTickKeeps DEF Policy!Next

\* The alerts, the policy and the escalations under way stay what they are for
\* every number of callers, alerts and changes of the policy.
THEOREM PolicyInvariance == Spec => []PolicyInv
<1>1. Init => PolicyInv
  BY PolicyInitial DEF Init
<1>2. PolicyInv /\ [Next]_vars => PolicyInv'
  <2> SUFFICES ASSUME PolicyInv, [Next]_vars PROVE PolicyInv'
    OBVIOUS
  <2>1. Policy!Next \/ UNCHANGED policyVars
    BY DEF Next, vars
  <2>2. CASE UNCHANGED policyVars
    <3>1. UNCHANGED <<policy, alerts, clock, call, caps, sets>>
      BY <2>2 DEF policyVars
    <3>2. PolicyTables'
      BY <3>1 DEF PolicyInv, PolicyTables
    <3>3. PolicyCalls'
      <4> SUFFICES ASSUME NEW c \in Caller, NEW now \in PolicyCall, call[c] = now
                   PROVE  Began(now)' /\ Looked(now)' /\ Foretold(now)'
        BY <3>1 DEF PolicyCalls
      <4> QED
        BY <3>1, CallUndisturbed DEF PolicyInv, PolicyCalls
    <3>4. CapHeld'
      BY <3>1 DEF PolicyInv, CapHeld, CapOn, Counted, Passed
    <3> QED
      BY <3>2, <3>3, <3>4 DEF PolicyInv
  <2> QED
    BY <2>1, <2>2, PolicyStep
<1> QED
  BY <1>1, <1>2, PTL DEF Spec

\* However escalations overlap, the alerts of an hour exceed the hourly cap by
\* one at most for each other caller (alert_policy.go:65), for every number of
\* callers, stations and caps.
THEOREM CapIsHeld == Spec => []HourlyCapBounded
<1>1. PolicyInv => HourlyCapBounded
  <2> SUFFICES ASSUME PolicyInv PROVE Policy!HourlyCapBounded
    BY DEF HourlyCapBounded
  <2>1. Policy!TypeOK
    <3>1. ASSUME NEW c \in Caller, call[c] # Policy!NoCall
          PROVE  /\ call[c].pc \in {"look", "count", "insert"} /\ call[c].ev \in Event
                 /\ call[c].asked.cap \in caps /\ call[c].asked.begun <= Len(alerts)
                 /\ call[c].at <= clock /\ call[c].foretold \subseteq BOOLEAN
      <4>1. PICK now \in PolicyCall : now = call[c]
        BY <3>1 DEF PolicyInv, PolicyTables
      <4>2. Began(now)
        BY <4>1 DEF PolicyInv, PolicyCalls
      <4> QED
        BY <4>1, <4>2 DEF Began, PolicyCall
    <3> QED
      BY <3>1 DEF PolicyInv, PolicyTables, Policy!TypeOK
  <2>2. ASSUME caps # {0}, NEW e \in Event, NEW from \in 0..clock
        PROVE  Policy!Cardinality({i \in DOMAIN alerts :
                  /\ alerts[i].capped /\ alerts[i].station = e.station
                  /\ from <= alerts[i].fired /\ alerts[i].fired <= from + Hour})
                 <= Policy!Max(caps) + Policy!Cardinality(Caller) - 1
    <3> DEFINE S == Counted(e.station, from)
               P == Passed(e.station, from)
    <3>1. caps \subseteq Nat /\ from \in Nat
      BY <2>2, AlertFacts DEF PolicyInv
    <3>2. Policy!Max(caps) \in caps /\ \A k \in caps : Policy!Max(caps) >= k
      <4>1. \E top \in caps : \A k \in caps : top >= k
        BY <3>1 DEF PolicyInv, PolicyTables
      <4> QED
        BY <4>1 DEF Policy!Max
    <3>3. Policy!Max(caps) \in Nat /\ Policy!Max(caps) > 0
      <4>1. PICK k \in caps : k # 0
        BY <2>2, <3>2
      <4>2. PICK m : m = Policy!Max(caps)
        OBVIOUS
      <4>3. k \in Nat /\ m \in Nat /\ m >= k
        BY <3>1, <3>2, <4>2
      <4>4. m > 0
        BY <4>1, <4>3
      <4> QED
        BY <4>2, <4>3, <4>4
    <3>4. /\ Cardinality(S) \in Nat /\ IsFiniteSet(S) /\ Cardinality(P) \in Nat /\ Cardinality(Caller) \in Nat
      BY CapFinite DEF PolicyInv
    <3>5. (S # {} \/ P # {}) => \E m \in caps : m > 0 /\ Cardinality(S) + Cardinality(P) <= m + Cardinality(Caller) - 1
      BY <3>1 DEF PolicyInv, CapHeld, CapOn
    <3>6. S = {} => Cardinality(S) = 0
      BY FS_EmptySet
    <3> HIDE DEF S, P
    <3>7. Cardinality(S) <= Policy!Max(caps) + Cardinality(Caller) - 1
      <4>1. CASE S = {}
        BY <3>3, <3>4, <3>6, <4>1
      <4>2. CASE S # {}
        <5>1. PICK m \in caps : m > 0 /\ Cardinality(S) + Cardinality(P) <= m + Cardinality(Caller) - 1
          BY <3>5, <4>2
        <5>2. m \in Nat /\ m <= Policy!Max(caps)
          BY <3>1, <3>2, <3>3
        <5> QED
          BY <3>3, <3>4, <5>1, <5>2
      <4> QED
        BY <4>1, <4>2
    <3> QED
      BY <3>7, PolicyCardinality DEF S, Counted
  <2> QED
    BY <2>1, <2>2 DEF Policy!HourlyCapBounded
<1> QED
  BY <1>1, PolicyInvariance, PTL

\* Only its own Insert ends a call with an alert.
LEMMA EndsByInsert ==
  ASSUME PolicyInv, [Next]_vars, NEW c \in Caller, call[c] # Policy!NoCall, call'[c] = Policy!NoCall,
         Len(alerts') > Len(alerts)
  PROVE  Policy!Insert(c)
<1>1. Len(alerts) \in Nat
  BY AlertFacts DEF PolicyInv
<1>2. alerts' # alerts
  BY <1>1
<1>3. Policy!Next
  BY <1>2 DEF Next, vars, policyVars
<1>4. ASSUME NEW ev \in Finding, Policy!Escalate(ev) PROVE FALSE
  <2>1. call'[c] = [call[c] EXCEPT !.foretold = {}]
    BY <1>4 DEF Policy!Escalate, Policy!Disturbed
  <2>2. call[c] \in PolicyCall
    BY DEF PolicyInv, PolicyTables
  <2>3. call'[c] \in PolicyCall
    BY <2>1, <2>2 DEF PolicyCall
  <2> QED
    BY <2>3 DEF PolicyCall, Policy!NoCall
<1>5. PICK d \in Caller : Policy!Insert(d)
  BY <1>2, <1>3, <1>4 DEF Policy!Next, Policy!EscalateDedup, Policy!LookForDuplicate, Policy!CountLastHour,
       Policy!Fails, Policy!SetAlertPolicy, Policy!Tick
<1>6. ASSUME d # c PROVE FALSE
  <2>1. call'[c] = [call[c] EXCEPT !.foretold = {}]
    BY <1>5, <1>6 DEF Policy!Insert, Policy!Disturbed, Policy!Returned, PolicyInv, PolicyTables
  <2>2. call[c] \in PolicyCall
    BY DEF PolicyInv, PolicyTables
  <2>3. call'[c] \in PolicyCall
    BY <2>1, <2>2 DEF PolicyCall
  <2> QED
    BY <2>3 DEF PolicyCall, Policy!NoCall
<1> QED
  BY <1>5, <1>6

\* A second alert of a station and rule within the window was stored while the
\* call ran, or its elder was crowded out of the list (alert_policy.go:65), for
\* every number of callers and every length of the list.
THEOREM DuplicatesHaveReasons == Spec => DuplicatesExplained
<1> DEFINE Explained ==
      \A c \in Caller, i \in DOMAIN alerts :
        (/\ call[c] # Policy!NoCall /\ call'[c] = Policy!NoCall /\ Len(alerts') > Len(alerts)
         /\ call[c].asked.window > 0 /\ Policy!SameKey(i, call[c].ev)
         /\ alerts[i].fired + call[c].asked.window >= call[c].at)
          => \/ i > call[c].asked.begun
             \/ Policy!Cardinality({k \in DOMAIN alerts \ {i} :
                                      alerts[k].fired >= alerts[i].fired}) >= ListLimit
<1>1. PolicyInv /\ [Next]_vars => Explained
  <2> SUFFICES ASSUME PolicyInv, [Next]_vars, NEW c \in Caller, NEW i \in DOMAIN alerts,
                      call[c] # Policy!NoCall, call'[c] = Policy!NoCall, Len(alerts') > Len(alerts),
                      call[c].asked.window > 0, Policy!SameKey(i, call[c].ev),
                      alerts[i].fired + call[c].asked.window >= call[c].at, ~(i > call[c].asked.begun)
               PROVE  Policy!Cardinality({k \in DOMAIN alerts \ {i} :
                                            alerts[k].fired >= alerts[i].fired}) >= ListLimit
    OBVIOUS
  <2>1. call[c].pc = "insert"
    BY EndsByInsert DEF Policy!Insert
  <2>2. PICK now : now = call[c]
    OBVIOUS
  <2>3. now \in PolicyCall
    BY <2>2 DEF PolicyInv, PolicyTables
  <2>4. Began(now) /\ Looked(now)
    BY <2>2, <2>3 DEF PolicyInv, PolicyCalls
  <2>5. i \in 1..now.asked.begun
    <3>1. DOMAIN alerts = 1..Len(alerts) /\ Len(alerts) \in Nat /\ now.asked.begun \in Nat
      BY <2>3, AlertFacts DEF PolicyInv, PolicyCall
    <3> QED
      BY <2>2, <3>1
  <2>6. Policy!SameKey(i, now.ev) /\ alerts[i].fired + now.asked.window >= now.at
    BY <2>2
  <2>7. Crowded(i)
    BY <2>1, <2>2, <2>4, <2>5, <2>6 DEF Looked
  <2> QED
    BY <2>7, PolicyCardinality DEF Crowded
<1> HIDE DEF Explained
<1>2. Spec => [][Explained]_(Policy!vars)
  BY <1>1, PolicyInvariance, PTL DEF Spec
<1> QED
  BY <1>2 DEF DuplicatesExplained, Policy!DuplicatesExplained, Explained

\* The dry run foretells an undisturbed escalation (alert_policy.go:65), for
\* every policy and table of alerts.
THEOREM DryRunIsRight == Spec => DryRunForetells
<1> DEFINE Foretells ==
      \A c \in Caller :
        (/\ call[c] # Policy!NoCall /\ call'[c] = Policy!NoCall /\ call[c].foretold # {}
         /\ Policy!LookForDuplicate(c) \/ Policy!CountLastHour(c) \/ Policy!Insert(c))
          => (Len(alerts') > Len(alerts)) \in call[c].foretold
<1>1. PolicyInv /\ [Next]_vars => Foretells
  <2> SUFFICES ASSUME PolicyInv, NEW c \in Caller,
                      call[c] # Policy!NoCall, call'[c] = Policy!NoCall, call[c].foretold # {},
                      Policy!LookForDuplicate(c) \/ Policy!CountLastHour(c) \/ Policy!Insert(c)
               PROVE  (Len(alerts') > Len(alerts)) \in call[c].foretold
    OBVIOUS
  <2>1. PICK now : now = call[c]
    OBVIOUS
  <2>2. now \in PolicyCall
    BY <2>1 DEF PolicyInv, PolicyTables
  <2>3. Began(now) /\ Foretold(now)
    BY <2>1, <2>2 DEF PolicyInv, PolicyCalls
  <2>4. /\ {clock, Len(alerts), policy.window, policy.cap} \subseteq Nat
        /\ now.foretold = Policy!ShouldEscalate(now.ev, clock)
        /\ now.asked.window = policy.window /\ now.asked.cap = policy.cap /\ now.at = clock
    BY <2>1, <2>3, AlertFacts DEF PolicyInv, Foretold
  <2> DEFINE Says(listed) ==
               /\ policy.window > 0 => ~Policy!Duplicate(listed, now.ev, policy.window, clock)
               /\ policy.cap > 0 => Policy!LastHour(now.ev.station, clock) < policy.cap
  <2>5. now.foretold = {Says(listed) : listed \in Policy!Newest}
    BY <2>4 DEF Policy!ShouldEscalate
  <2>6. Says(1) \in BOOLEAN /\ \A listed : Says(listed) \in BOOLEAN
    OBVIOUS
  <2>7. ASSUME NEW listed \in Policy!Newest, NEW b \in BOOLEAN, b <=> Says(listed) PROVE b \in now.foretold
    <3>1. b = Says(listed)
      BY <2>7, <2>6
    <3> QED
      BY <2>5, <3>1
  <2> HIDE DEF Says
  <2> DEFINE More == Len(alerts') > Len(alerts)
  <2>8. PICK more : more = More /\ more \in BOOLEAN
    <3>1. More \in BOOLEAN
      OBVIOUS
    <3> QED
      BY <3>1, Zenon
  <2>9. ASSUME more \in now.foretold PROVE More \in call[c].foretold
    BY <2>1, <2>8, <2>9, Zenon
  <2>10. CASE Policy!LookForDuplicate(c)
    <3>1. UNCHANGED alerts /\ call[c].pc = "look"
      BY <2>10 DEF Policy!LookForDuplicate
    <3>2. PICK listed \in Policy!Newest :
            IF Policy!Duplicate(listed, now.ev, now.asked.window, now.at)
              THEN call' = Policy!Returned(c)
              ELSE Policy!GoOn(c, Policy!ThenCount(now.asked))
      BY <2>1, <2>10 DEF Policy!LookForDuplicate
    <3>3. Policy!Duplicate(listed, now.ev, now.asked.window, now.at)
      <4> SUFFICES ASSUME Policy!GoOn(c, Policy!ThenCount(now.asked)) PROVE FALSE
        BY <3>2
      <4>1. call'[c] \in [pc : {"count", "insert"}, ev : Event, at : {clock},
                          asked : {now.asked}, foretold : SUBSET BOOLEAN]
        BY <2>1, <2>2 DEF Policy!GoOn, Policy!ThenCount, PolicyCall, PolicyInv, PolicyTables
      <4> QED
        BY <4>1 DEF Policy!NoCall
    <3>4. policy.window > 0
      BY <2>1, <2>3, <2>4, <3>1 DEF Began
    <3>5. ~Says(listed)
      BY <2>4, <3>3, <3>4 DEF Says
    <3>6. ~More
      BY <2>4, <3>1
    <3>7. more <=> Says(listed)
      BY <2>8, <3>5, <3>6, Zenon
    <3> QED
      BY <2>7, <2>8, <2>9, <3>7
  <2>11. CASE Policy!CountLastHour(c)
    <3>1. UNCHANGED alerts /\ call[c].pc = "count"
      BY <2>11 DEF Policy!CountLastHour
    <3>2. Policy!LastHour(now.ev.station, now.at) >= now.asked.cap
      <4> SUFFICES ASSUME Policy!GoOn(c, "insert") PROVE FALSE
        BY <2>1, <2>11 DEF Policy!CountLastHour
      <4>1. call'[c] \in [pc : {"insert"}, ev : Event, at : {clock},
                          asked : {now.asked}, foretold : SUBSET BOOLEAN]
        BY <2>1, <2>2 DEF Policy!GoOn, PolicyCall, PolicyInv, PolicyTables
      <4> QED
        BY <4>1 DEF Policy!NoCall
    <3>3. policy.cap > 0
      BY <2>1, <2>3, <2>4, <3>1 DEF Began
    <3>4. PICK listed \in Policy!Newest : TRUE
      BY <2>1, <2>5
    <3>5. ~Says(listed)
      <4>1. Policy!LastHour(now.ev.station, clock) \in Nat
        <5> DEFINE R == {i \in DOMAIN alerts : /\ alerts[i].station = now.ev.station
                                              /\ alerts[i].fired + Hour >= clock}
        <5>1. R \subseteq DOMAIN alerts /\ IsFiniteSet(DOMAIN alerts)
          BY AlertFacts DEF PolicyInv
        <5> HIDE DEF R
        <5>2. Cardinality(R) \in Nat
          BY <5>1, PartSmaller
        <5> QED
          BY <5>2, PolicyCardinality DEF R, Policy!LastHour
      <4> QED
        BY <2>4, <3>2, <3>3, <4>1 DEF Says
    <3>6. ~More
      BY <2>4, <3>1
    <3>7. more <=> Says(listed)
      BY <2>8, <3>5, <3>6, Zenon
    <3> QED
      BY <2>7, <2>8, <2>9, <3>7
  <2>12. CASE Policy!Insert(c)
    <3>1. /\ call[c].pc = "insert" /\ \E row : alerts' = Append(alerts, row)
      BY <2>12 DEF Policy!Insert, Policy!Store
    <3>2. Len(alerts') > Len(alerts)
      BY <2>4, <3>1 DEF PolicyInv, PolicyTables
    <3>3. /\ policy.window > 0 => \E listed \in Policy!Newest : ~Policy!Duplicate(listed, now.ev, policy.window, clock)
          /\ policy.cap > 0 => Policy!LastHour(now.ev.station, clock) < policy.cap
      BY <2>1, <2>3, <2>4, <3>1 DEF Foretold
    <3>4. PICK listed \in Policy!Newest : Says(listed)
      <4>1. PICK some \in Policy!Newest : TRUE
        BY <2>1, <2>5
      <4> QED
        BY <3>3, <4>1 DEF Says
    <3>5. more <=> Says(listed)
      BY <2>8, <3>2, <3>4, Zenon
    <3> QED
      BY <2>7, <2>8, <2>9, <3>5
  <2> QED
    BY <2>10, <2>11, <2>12
<1> HIDE DEF Foretells
<1>2. Spec => [][Foretells]_(Policy!vars)
  BY <1>1, PolicyInvariance, PTL DEF Spec
<1> QED
  BY <1>2 DEF DryRunForetells, Policy!DryRunForetells, Foretells

-----------------------------------------------------------------------------
(* Suppression rules. *)

Detected == [station : RuleCode, rule : Rule]

FilterCall ==
  [pc : {"stations"}, events : Batch, hour : Suppression!HourOfDay,
   hits : SUBSET Suppression!Key, ever : SUBSET Detected, always : SUBSET Detected]

FilterList ==
  [events : Seq(Detected), out : Seq(Detected), failed : BOOLEAN,
   ever : SUBSET Detected, always : SUBSET Detected]

\* The rules there are.
Ruled == {k \in Suppression!Key : rules[k] # Suppression!NoRow}

\* Ids are given in the order of the first writes, each to one rule.
RuleTable ==
  /\ rules \in [Suppression!Key -> Suppression!Row \cup {Suppression!NoRow}]
  /\ ruled \subseteq RuleCode /\ writes \in 0..MaxWrites
  /\ IsFiniteSet(Ruled) /\ Cardinality(Ruled) <= writes
  /\ \A k \in Ruled : rules[k].id <= Cardinality(Ruled)
  /\ \A k, h \in Ruled : rules[k].id = rules[h].id => k = h

\* What a filter loaded has been active; what has been active all along, and is
\* not of a code in lower case, was loaded.
FilterOK(now) ==
  now # Suppression!NoCall =>
    /\ now.always \subseteq now.ever /\ now.ever \subseteq Suppression!Range(now.events)
    /\ \A e \in Suppression!Range(now.events) : <<e.station, e.rule>> \in now.hits => e \in now.ever
    /\ \A e \in now.always :
         e.station \in ruled /\ (<<e.station, e.rule>> \in now.hits \/ Upper(e.station) # e.station)

\* What a list says of the filter it came from.
ListOK(list) ==
  /\ Suppression!Range(list.out) \subseteq Suppression!Range(list.events)
  /\ Suppression!Range(list.events) \ list.ever \subseteq Suppression!Range(list.out)
  /\ list.out = Suppression!Among(list.events, Suppression!Range(list.out))
  /\ list.failed => list.out = list.events
  /\ ~list.failed =>
       \A e \in list.always : e \in Suppression!Range(list.out) => Upper(e.station) # e.station

SuppressionInv ==
  /\ RuleTable
  /\ filtering \in [Filterer -> {Suppression!NoCall} \cup FilterCall]
  /\ \A c \in Filterer : FilterOK(filtering[c])
  /\ kept \in [Filterer -> FilterList] /\ \A c \in Filterer : ListOK(kept[c])

LEMMA SuppressionCardinality == \A S : Suppression!Cardinality(S) = Cardinality(S)
BY Zenon DEF Suppression!Cardinality, Cardinality

LEMMA SuppressionFacts ==
  /\ \A code \in RuleCode : Upper(code) \in RuleCode /\ Upper(Upper(code)) = Upper(code)
  /\ Batch \subseteq Seq(Detected) /\ MaxHour \in Nat \ {0} /\ MaxWrites \in Nat
BY DeskAssumption DEF Suppression!SuppressionParameters, Detected

LEMMA RangeOf ==
  ASSUME NEW S, NEW s \in Seq(S)
  PROVE  /\ Suppression!Range(s) = {s[i] : i \in 1..Len(s)} /\ Suppression!Range(s) \subseteq S
         /\ DOMAIN s = 1..Len(s) /\ Len(s) \in Nat
<1>1. DOMAIN s = 1..Len(s) /\ Len(s) \in Nat /\ \A i \in 1..Len(s) : s[i] \in S
  OBVIOUS
<1>2. Suppression!Range(s) = {s[i] : i \in DOMAIN s}
  BY DEF Suppression!Range
<1> QED
  BY <1>1, <1>2

\* The k-th of the places K.
Nth(K, k) == CHOOSE i \in K : Cardinality({j \in K : j <= i}) = k

LEMMA AmongByPlaces ==
  ASSUME NEW s, NEW stay, NEW K, K = {i \in DOMAIN s : s[i] \in stay}
  PROVE  Suppression!Among(s, stay) = [k \in 1..Cardinality(K) |-> s[Nth(K, k)]]
<1> DEFINE P == {i \in DOMAIN s : s[i] \in stay}
           Place(i) == Suppression!Cardinality({j \in P : j <= i})
           At(k) == CHOOSE i \in P : Place(i) = k
<1>1. Suppression!Among(s, stay) = [k \in 1..Suppression!Cardinality(P) |-> s[At(k)]]
  BY Zenon DEF Suppression!Among
<1>2. P = K
  OBVIOUS
<1> HIDE DEF P
<1>3. \A k : At(k) = Nth(K, k)
  <2> DEFINE Place2(i) == Cardinality({j \in K : j <= i})
  <2>1. \A i : Place(i) = Place2(i)
    BY <1>2, SuppressionCardinality, Zenon
  <2>2. \A k : Nth(K, k) = CHOOSE i \in K : Place2(i) = k
    BY Zenon DEF Nth
  <2> HIDE DEF Place, Place2
  <2> QED
    BY <1>2, <2>1, <2>2
<1>4. Suppression!Cardinality(P) = Cardinality(K)
  BY <1>2, SuppressionCardinality, Zenon
<1> HIDE DEF At
<1> QED
  BY <1>1, <1>3, <1>4

\* The events of a list that stay are those of the list that may.
LEMMA AmongFacts ==
  ASSUME NEW S, NEW s \in Seq(S), NEW stay
  PROVE  /\ Suppression!Among(s, stay) \in Seq(S)
         /\ Suppression!Range(Suppression!Among(s, stay)) = Suppression!Range(s) \cap stay
<1> DEFINE K == {i \in 1..Len(s) : s[i] \in stay}
           m == Cardinality(K)
           pos == [k \in 1..m |-> Nth(K, k)]
           t == [k \in 1..m |-> s[pos[k]]]
<1>1. Len(s) \in Nat /\ DOMAIN s = 1..Len(s) /\ \A i \in 1..Len(s) : s[i] \in S
  OBVIOUS
<1>2. m \in Nat /\ pos \in Bijection(1..m, K)
  <2>1. K \in SUBSET (1..Len(s))
    OBVIOUS
  <2> HIDE DEF K
  <2>2. /\ Cardinality(K) \in Nat
        /\ [k \in 1..Cardinality(K) |-> CHOOSE i \in K : Cardinality({j \in K : j <= i}) = k]
             \in Bijection(1..Cardinality(K), K)
    BY <1>1, <2>1, Places
  <2> QED
    BY <2>2, Zenon DEF Nth
<1>3. Suppression!Among(s, stay) = t
  <2>1. K = {i \in DOMAIN s : s[i] \in stay}
    BY <1>1
  <2> HIDE DEF K
  <2>2. Suppression!Among(s, stay) = [k \in 1..m |-> s[Nth(K, k)]]
    BY <2>1, AmongByPlaces
  <2> QED
    BY <2>2
<1>4. /\ \A k \in 1..m : pos[k] \in K /\ t[k] = s[pos[k]]
      /\ \A i \in K : \E k \in 1..m : pos[k] = i
  BY <1>2 DEF Bijection, Injection, Surjection
<1>5. \A i \in K : i \in 1..Len(s) /\ s[i] \in stay /\ s[i] \in S
  BY <1>1
<1>6. \A i \in 1..Len(s) : s[i] \in stay => i \in K
  OBVIOUS
<1> HIDE DEF pos, K, m
<1>7. t \in Seq(S) /\ Len(t) = m
  <2>1. \A k \in 1..m : s[pos[k]] \in S
    BY <1>4, <1>5
  <2>2. t \in [1..m -> S]
    BY <2>1
  <2> QED
    BY <1>2, <2>2
<1> HIDE DEF t
<1>8. Suppression!Range(t) = {t[k] : k \in 1..m} /\ Suppression!Range(s) = {s[i] : i \in 1..Len(s)}
  BY <1>7, RangeOf
<1>9. {t[k] : k \in 1..m} \subseteq {s[i] : i \in 1..Len(s)} \cap stay
  BY <1>4, <1>5
<1>10. {s[i] : i \in 1..Len(s)} \cap stay \subseteq {t[k] : k \in 1..m}
  <2> SUFFICES ASSUME NEW i \in 1..Len(s), s[i] \in stay PROVE \E k \in 1..m : t[k] = s[i]
    OBVIOUS
  <2> QED
    BY <1>4, <1>6
<1> QED
  BY <1>3, <1>7, <1>8, <1>9, <1>10

LEMMA AmongSame ==
  ASSUME NEW s, NEW stay, NEW some, \A i \in DOMAIN s : s[i] \in stay <=> s[i] \in some
  PROVE  Suppression!Among(s, stay) = Suppression!Among(s, some)
<1>1. PICK K : K = {i \in DOMAIN s : s[i] \in stay}
  OBVIOUS
<1>2. K = {i \in DOMAIN s : s[i] \in some}
  BY <1>1
<1>3. Suppression!Among(s, stay) = [k \in 1..Cardinality(K) |-> s[Nth(K, k)]]
  BY <1>1, AmongByPlaces
<1>4. Suppression!Among(s, some) = [k \in 1..Cardinality(K) |-> s[Nth(K, k)]]
  BY <1>2, AmongByPlaces
<1> QED
  BY <1>3, <1>4

LEMMA AmongAll ==
  ASSUME NEW S, NEW s \in Seq(S)
  PROVE  Suppression!Among(s, Suppression!Range(s)) = s
<1>1. PICK n \in Nat : n = Len(s) /\ DOMAIN s = 1..n
  OBVIOUS
<1>2. 1..n = {i \in DOMAIN s : s[i] \in Suppression!Range(s)}
  BY <1>1 DEF Suppression!Range
<1>3. Cardinality(1..n) = n
  BY FS_Interval
<1>4. ASSUME NEW i \in 1..n PROVE Cardinality({j \in 1..n : j <= i}) = i
  <2>1. {j \in 1..n : j <= i} = 1..i /\ i \in Nat
    OBVIOUS
  <2>2. Cardinality(1..i) = i
    BY <2>1, FS_Interval
  <2> QED
    BY <2>1, <2>2
<1>5. ASSUME NEW k \in 1..n PROVE Nth(1..n, k) = k
  BY <1>4 DEF Nth
<1>6. Suppression!Among(s, Suppression!Range(s)) =
        [k \in 1..Cardinality(1..n) |-> s[Nth(1..n, k)]]
  BY <1>2, AmongByPlaces
<1>7. Suppression!Among(s, Suppression!Range(s)) = [k \in 1..n |-> s[k]]
  BY <1>3, <1>5, <1>6
<1> QED
  BY <1>1, <1>7

FiltersKeep ==
  /\ filtering' \in [Filterer -> {Suppression!NoCall} \cup FilterCall]
  /\ \A c \in Filterer : FilterOK(filtering[c])'

ListsKeep == kept' \in [Filterer -> FilterList] /\ \A c \in Filterer : ListOK(kept'[c])

LEMMA FilterParts ==
  ASSUME SuppressionInv, NEW c \in Filterer, filtering[c] # Suppression!NoCall
  PROVE  /\ filtering[c] \in FilterCall /\ filtering[c].events \in Seq(Detected)
         /\ Suppression!Range(filtering[c].events) \subseteq Detected
         /\ FilterOK(filtering[c])
<1>1. filtering[c] \in FilterCall /\ FilterOK(filtering[c])
  BY DEF SuppressionInv
<1>2. filtering[c].events \in Seq(Detected)
  BY <1>1, SuppressionFacts DEF FilterCall
<1> QED
  BY <1>1, <1>2, RangeOf

LEMMA ActiveIsListed ==
  ASSUME NEW table, NEW events, NEW hour
  PROVE  Suppression!ActiveAmong(table, events, hour) \subseteq Suppression!Range(events)
BY DEF Suppression!ActiveAmong

\* A write to the rules leaves the filters what they loaded.
LEMMA WroteKeeps ==
  ASSUME SuppressionInv, NEW table, Suppression!Wrote(table)
  PROVE  FiltersKeep /\ ListsKeep /\ UNCHANGED ruled
<1> DEFINE now(c) == Suppression!ActiveAmong(table, filtering[c].events, filtering[c].hour)
<1>1. /\ filtering' = [c \in Filterer |->
           IF filtering[c] = Suppression!NoCall THEN Suppression!NoCall
           ELSE [filtering[c] EXCEPT !.ever = @ \cup now(c), !.always = @ \cap now(c)]]
      /\ UNCHANGED <<ruled, kept>>
  BY Zenon DEF Suppression!Wrote
<1>2. \A c \in Filterer : now(c) \subseteq Suppression!Range(filtering[c].events)
  BY ActiveIsListed
<1> HIDE DEF now
<1>3. ASSUME NEW c \in Filterer
      PROVE  /\ filtering'[c] \in {Suppression!NoCall} \cup FilterCall
             /\ FilterOK(filtering[c])'
  <2>1. CASE filtering[c] = Suppression!NoCall
    <3>1. filtering'[c] = Suppression!NoCall
      BY <1>1, <2>1
    <3> QED
      BY <3>1 DEF FilterOK
  <2>2. CASE filtering[c] # Suppression!NoCall
    <3>1. PICK was \in FilterCall : was = filtering[c]
      BY <2>2, FilterParts
    <3>2. Suppression!Range(was.events) \subseteq Detected /\ FilterOK(was) /\ was # Suppression!NoCall
      BY <2>2, <3>1, FilterParts
    <3>3. filtering'[c] = [was EXCEPT !.ever = @ \cup now(c), !.always = @ \cap now(c)]
      BY <1>1, <2>2, <3>1
    <3>4. now(c) \subseteq Suppression!Range(was.events)
      BY <1>2, <3>1
    <3>5. PICK is \in FilterCall :
            /\ is = filtering'[c] /\ is.events = was.events /\ is.hits = was.hits
            /\ is.ever = was.ever \cup now(c) /\ is.always = was.always \cap now(c)
      BY <3>2, <3>3, <3>4 DEF FilterCall
    <3>6. FilterOK(is)'
      BY <1>1, <3>2, <3>4, <3>5 DEF FilterOK
    <3> QED
      BY <3>5, <3>6
  <2> QED
    BY <2>1, <2>2
<1>4. filtering' \in [Filterer -> {Suppression!NoCall} \cup FilterCall]
  BY <1>1, <1>3
<1> QED
  BY <1>1, <1>3, <1>4 DEF FiltersKeep, ListsKeep, SuppressionInv

\* The table after one rule is written.
LEMMA RuleTableKept ==
  ASSUME SuppressionInv, NEW key \in Suppression!Key, NEW row \in Suppression!Row,
         writes < MaxWrites, writes' = writes + 1, UNCHANGED ruled,
         rules' = [rules EXCEPT ![key] = row],
         row.id = IF key \in Ruled THEN rules[key].id ELSE Cardinality(Ruled) + 1
  PROVE  RuleTable'
<1>1. /\ rules \in [Suppression!Key -> Suppression!Row \cup {Suppression!NoRow}]
      /\ writes \in 0..MaxWrites /\ IsFiniteSet(Ruled) /\ Cardinality(Ruled) <= writes
      /\ \A k \in Ruled : rules[k].id <= Cardinality(Ruled)
      /\ \A k, h \in Ruled : rules[k].id = rules[h].id => k = h
      /\ ruled \subseteq RuleCode
  BY DEF SuppressionInv, RuleTable
<1>2. Cardinality(Ruled) \in Nat /\ MaxWrites \in Nat
  BY <1>1, FS_CardinalityType, SuppressionFacts
<1>3. rules' \in [Suppression!Key -> Suppression!Row \cup {Suppression!NoRow}]
  BY <1>1
<1>4. row # Suppression!NoRow /\ row.id \in Nat
  BY <1>2 DEF Suppression!Row, Suppression!NoRow
<1>5. \A k \in Suppression!Key : rules'[k] = IF k = key THEN row ELSE rules[k]
  BY <1>1
<1>6. Ruled' = Ruled \cup {key}
  BY <1>4, <1>5 DEF Ruled
<1>7. /\ IsFiniteSet(Ruled') /\ Cardinality(Ruled') = IF key \in Ruled THEN Cardinality(Ruled) ELSE Cardinality(Ruled) + 1
  <2>1. CASE key \in Ruled
    <3>1. Ruled' = Ruled
      BY <1>6, <2>1
    <3> QED
      BY <1>1, <2>1, <3>1
  <2>2. CASE key \notin Ruled
    BY <1>1, <1>6, <2>2, FS_AddElement
  <2> QED
    BY <2>1, <2>2
<1>8. \A k \in Ruled : k \in Suppression!Key /\ rules[k] \in Suppression!Row /\ rules[k].id \in Nat
  BY <1>1, <1>2 DEF Ruled, Suppression!Row
<1>9. PICK n \in Nat : n = Cardinality(Ruled)
  BY <1>2
<1>10. PICK m \in Nat : m = Cardinality(Ruled') /\ m = IF key \in Ruled THEN n ELSE n + 1
  BY <1>7, <1>9
<1>11. /\ \A k \in Ruled' : rules'[k].id <= m
       /\ \A k, h \in Ruled' : rules'[k].id = rules'[h].id => k = h
  BY <1>1, <1>4, <1>5, <1>6, <1>8, <1>9, <1>10
<1>12. writes' \in 0..MaxWrites /\ m <= writes'
  BY <1>1, <1>2, <1>9, <1>10
<1> QED
  BY <1>1, <1>3, <1>7, <1>10, <1>11, <1>12 DEF RuleTable

LEMMA UpsertKeeps ==
  ASSUME SuppressionInv, NEW code \in RuleCode, NEW rule \in Rule,
         NEW from \in Suppression!HourOfDay, NEW to \in 1..MaxHour, NEW enabled \in BOOLEAN,
         Suppression!Upsert(code, rule, from, to, enabled)
  PROVE  SuppressionInv'
<1> DEFINE key == <<Upper(code), rule>>
           id == IF rules[key] = Suppression!NoRow
                   THEN Suppression!Cardinality({k \in Suppression!Key : rules[k] # Suppression!NoRow}) + 1
                   ELSE rules[key].id
           row == [id |-> id, from |-> from, to |-> to, enabled |-> enabled]
           table == [rules EXCEPT ![key] = row]
<1>1. writes < MaxWrites /\ Suppression!Wrote(table)
  BY Zenon DEF Suppression!Upsert
<1>2. key \in Suppression!Key
  BY DEF Suppression!Key
<1>3. id = IF key \in Ruled THEN rules[key].id ELSE Cardinality(Ruled) + 1
  <2>1. Suppression!Cardinality({k \in Suppression!Key : rules[k] # Suppression!NoRow}) = Cardinality(Ruled)
    BY SuppressionCardinality, Zenon DEF Ruled
  <2>2. rules[key] = Suppression!NoRow <=> key \notin Ruled
    BY <1>2 DEF Ruled
  <2> QED
    BY <2>1, <2>2
<1> HIDE DEF key
<1>4. id \in 1..MaxWrites
  <2>1. /\ IsFiniteSet(Ruled) /\ Cardinality(Ruled) <= writes /\ writes \in 0..MaxWrites
        /\ rules \in [Suppression!Key -> Suppression!Row \cup {Suppression!NoRow}]
    BY DEF SuppressionInv, RuleTable
  <2>2. Cardinality(Ruled) \in Nat /\ MaxWrites \in Nat
    BY <2>1, FS_CardinalityType, SuppressionFacts
  <2>3. key \in Ruled => rules[key].id \in 1..MaxWrites
    BY <2>1 DEF Ruled, Suppression!Row
  <2> HIDE DEF id
  <2> QED
    BY <1>1, <1>3, <2>1, <2>2, <2>3
<1>5. row \in Suppression!Row /\ row.id = id
  BY <1>4 DEF Suppression!Row
<1> HIDE DEF id, row
<1>6. rules' = table /\ writes' = writes + 1
  BY <1>1 DEF Suppression!Wrote
<1>7. FiltersKeep /\ ListsKeep /\ UNCHANGED ruled
  BY <1>1, WroteKeeps
<1>8. RuleTable'
  BY <1>1, <1>2, <1>3, <1>5, <1>6, <1>7, RuleTableKept
<1> QED
  BY <1>7, <1>8 DEF SuppressionInv, FiltersKeep, ListsKeep

LEMMA SetEnabledKeeps ==
  ASSUME SuppressionInv, NEW id \in 1..MaxWrites, NEW enabled \in BOOLEAN,
         Suppression!SetEnabled(id, enabled)
  PROVE  SuppressionInv'
<1>1. PICK key \in Suppression!Key :
        /\ rules[key] # Suppression!NoRow
        /\ Suppression!Wrote([rules EXCEPT ![key].enabled = enabled])
  BY DEF Suppression!SetEnabled
<1>2. writes < MaxWrites
  BY DEF Suppression!SetEnabled
<1> DEFINE row == [rules[key] EXCEPT !.enabled = enabled]
<1>3. rules[key] \in Suppression!Row
  BY <1>1 DEF SuppressionInv, RuleTable
<1>4. row \in Suppression!Row /\ row.id = rules[key].id
  BY <1>3 DEF Suppression!Row
<1>5. rules' = [rules EXCEPT ![key] = row] /\ writes' = writes + 1
  BY <1>1 DEF Suppression!Wrote
<1>6. key \in Ruled
  BY <1>1 DEF Ruled
<1> HIDE DEF row
<1>7. FiltersKeep /\ ListsKeep /\ UNCHANGED ruled
  BY <1>1, WroteKeeps
<1>8. RuleTable'
  BY <1>2, <1>4, <1>5, <1>6, <1>7, RuleTableKept
<1> QED
  BY <1>7, <1>8 DEF SuppressionInv, FiltersKeep, ListsKeep

LEMMA AddedKeeps ==
  ASSUME SuppressionInv, NEW code \in RuleCode, Suppression!CreateStation(code)
  PROVE  SuppressionInv'
<1>1. ruled' = ruled \cup {code} /\ UNCHANGED <<rules, writes, filtering, kept>>
  BY DEF Suppression!CreateStation
<1>2. RuleTable'
  BY <1>1 DEF SuppressionInv, RuleTable, Ruled
<1>3. \A c \in Filterer : FilterOK(filtering[c])'
  <2> SUFFICES ASSUME NEW c \in Filterer PROVE FilterOK(filtering[c])'
    OBVIOUS
  <2>1. FilterOK(filtering[c]) /\ ruled \subseteq ruled' /\ filtering' = filtering
    BY <1>1 DEF SuppressionInv
  <2> QED
    BY <2>1 DEF FilterOK
<1> QED
  BY <1>1, <1>2, <1>3 DEF SuppressionInv, ListOK

LEMMA LoadRulesKeeps ==
  ASSUME SuppressionInv, NEW c \in Filterer, NEW events \in Batch,
         NEW hour \in Suppression!HourOfDay, Suppression!LoadRules(c, events, hour)
  PROVE  SuppressionInv'
<1> DEFINE now == Suppression!ActiveAmong(rules, events, hour)
           hits == {k \in Suppression!Key : /\ rules[k] # Suppression!NoRow /\ rules[k].enabled
                                            /\ Suppression!HourHits(rules[k], hour)}
           is == [pc |-> "stations", events |-> events, hour |-> hour, hits |-> hits,
                  ever |-> now, always |-> {e \in now : e.station \in ruled}]
<1>1. filtering' = [filtering EXCEPT ![c] = is] /\ UNCHANGED <<rules, ruled, writes, kept>>
  BY Zenon DEF Suppression!LoadRules
<1>2. events \in Seq(Detected) /\ Suppression!Range(events) \subseteq Detected
  BY SuppressionFacts, RangeOf
<1>3. now \subseteq Suppression!Range(events)
  BY ActiveIsListed
<1>4. is \in FilterCall
  BY <1>2, <1>3 DEF FilterCall
<1>5. ASSUME NEW e \in Suppression!Range(events), <<e.station, e.rule>> \in hits PROVE e \in now
  <2>1. e.station \in RuleCode /\ e.rule \in Rule
    BY <1>2 DEF Detected
  <2>2. PICK code \in RuleCode : e.station = Upper(code)
    BY <1>5, <2>1 DEF Suppression!Key
  <2>3. Upper(e.station) = e.station
    BY <2>2, SuppressionFacts
  <2> QED
    BY <1>5, <2>3 DEF Suppression!ActiveAmong, Suppression!Active, Suppression!HourHits
<1>6. ASSUME NEW e \in now, Upper(e.station) = e.station PROVE <<e.station, e.rule>> \in hits
  <2>1. e.station \in RuleCode /\ e.rule \in Rule
    BY <1>2, <1>3 DEF Detected
  <2>2. <<Upper(e.station), e.rule>> \in Suppression!Key
    BY <2>1 DEF Suppression!Key
  <2>3. Suppression!Active(rules, e.rule, e.station, hour)
    BY DEF Suppression!ActiveAmong
  <2> QED
    BY <1>6, <2>2, <2>3 DEF Suppression!Active, Suppression!HourHits
<1> HIDE DEF now, hits
<1>7. FilterOK(is)
  BY <1>3, <1>5, <1>6 DEF FilterOK
<1> HIDE DEF is
<1>8. filtering' \in [Filterer -> {Suppression!NoCall} \cup FilterCall]
  BY <1>1, <1>4 DEF SuppressionInv
<1>9. ASSUME NEW d \in Filterer PROVE FilterOK(filtering[d])'
  <2>1. FilterOK(filtering'[d])
    BY <1>1, <1>7 DEF SuppressionInv
  <2> QED
    BY <1>1, <2>1 DEF FilterOK
<1>10. RuleTable'
  BY <1>1 DEF SuppressionInv, RuleTable, Ruled
<1> QED
  BY <1>1, <1>8, <1>9, <1>10 DEF SuppressionInv, ListOK

LEMMA ReturnKeeps ==
  ASSUME SuppressionInv, NEW c \in Filterer, NEW list \in FilterList, ListOK(list),
         Suppression!Return(c, list.events, list.out, list.failed, list.ever, list.always)
  PROVE  SuppressionInv'
<1>1. /\ filtering' = [filtering EXCEPT ![c] = Suppression!NoCall]
      /\ kept' = [kept EXCEPT ![c] = list] /\ UNCHANGED <<rules, ruled, writes>>
  <2>1. list = [events |-> list.events, out |-> list.out, failed |-> list.failed,
                ever |-> list.ever, always |-> list.always]
    BY DEF FilterList
  <2> QED
    BY <2>1 DEF Suppression!Return
<1>2. filtering' \in [Filterer -> {Suppression!NoCall} \cup FilterCall]
  BY <1>1 DEF SuppressionInv
<1>3. \A d \in Filterer : FilterOK(filtering[d])'
  <2> SUFFICES ASSUME NEW d \in Filterer PROVE FilterOK(filtering[d])'
    OBVIOUS
  <2>1. FilterOK(filtering'[d])
    BY <1>1 DEF SuppressionInv, FilterOK
  <2> QED
    BY <1>1, <2>1 DEF FilterOK
<1>4. kept' \in [Filterer -> FilterList] /\ \A d \in Filterer : ListOK(kept'[d])
  BY <1>1 DEF SuppressionInv
<1>5. RuleTable'
  BY <1>1 DEF SuppressionInv, RuleTable, Ruled
<1>6. (\A d \in Filterer : ListOK(kept[d]))'
  BY <1>4 DEF ListOK
<1> QED
  BY <1>2, <1>3, <1>4, <1>5, <1>6 DEF SuppressionInv

\* A list that comes back as it was.
LEMMA WholeList ==
  ASSUME NEW list \in FilterList, list.failed, list.out = list.events
  PROVE  ListOK(list)
<1>1. list.events \in Seq(Detected)
  BY DEF FilterList
<1>2. Suppression!Among(list.events, Suppression!Range(list.events)) = list.events
  BY <1>1, AmongAll
<1> QED
  BY <1>2 DEF ListOK

LEMMA FailOpenKeeps ==
  ASSUME SuppressionInv, NEW c \in Filterer, Suppression!FailOpen(c)
  PROVE  SuppressionInv'
<1>1. ASSUME NEW events \in Seq(Detected), NEW ever \in SUBSET Detected, NEW always \in SUBSET Detected,
             Suppression!Return(c, events, events, TRUE, ever, always)
      PROVE  SuppressionInv'
  <2> DEFINE list == [events |-> events, out |-> events, failed |-> TRUE,
                      ever |-> ever, always |-> always]
  <2>1. /\ list \in FilterList /\ list.failed = TRUE /\ list.events = events /\ list.out = events
        /\ list.ever = ever /\ list.always = always
    BY DEF FilterList
  <2> HIDE DEF list
  <2>2. ListOK(list)
    BY <2>1, WholeList
  <2>3. Suppression!Return(c, list.events, list.out, list.failed, list.ever, list.always)
    BY <1>1, <2>1
  <2> QED
    BY <2>1, <2>2, <2>3, ReturnKeeps
<1>2. CASE /\ filtering[c].pc = "stations"
           /\ Suppression!Return(c, filtering[c].events, filtering[c].events, TRUE,
                                 filtering[c].ever, filtering[c].always)
  <2>1. filtering[c] # Suppression!NoCall
    BY <1>2 DEF Suppression!NoCall
  <2>2. filtering[c] \in FilterCall /\ filtering[c].events \in Seq(Detected)
    BY <2>1, FilterParts
  <2> QED
    BY <1>1, <1>2, <2>2 DEF FilterCall
<1>3. CASE \E events \in Batch : Suppression!Return(c, events, events, TRUE, {}, {})
  <2>1. PICK events \in Batch : Suppression!Return(c, events, events, TRUE, {}, {})
    BY <1>3
  <2>2. events \in Seq(Detected) /\ {} \in SUBSET Detected
    BY SuppressionFacts
  <2> QED
    BY <1>1, <2>1, <2>2, Zenon
<1> QED
  BY <1>2, <1>3, Zenon DEF Suppression!FailOpen

LEMMA FilterEventsKeeps ==
  ASSUME SuppressionInv, NEW c \in Filterer, Suppression!FilterEvents(c)
  PROVE  SuppressionInv'
<1>1. filtering[c] # Suppression!NoCall
  BY DEF Suppression!FilterEvents, Suppression!NoCall
<1>2. PICK now \in FilterCall : /\ now = filtering[c] /\ now.events \in Seq(Detected)
                                /\ Suppression!Range(now.events) \subseteq Detected /\ FilterOK(now)
  BY <1>1, FilterParts
<1> DEFINE Hit(e) == e.station \in ruled /\ <<e.station, e.rule>> \in now.hits
           stay == {e \in Suppression!Range(now.events) : ~Hit(e)}
           out == Suppression!Among(now.events, stay)
           list == [events |-> now.events, out |-> out, failed |-> FALSE,
                    ever |-> now.ever, always |-> now.always]
<1>3. Suppression!Return(c, now.events, out, FALSE, now.ever, now.always)
  BY <1>2, Zenon DEF Suppression!FilterEvents
<1>4. out \in Seq(Detected) /\ Suppression!Range(out) = stay
  <2>1. stay \subseteq Suppression!Range(now.events)
    OBVIOUS
  <2> HIDE DEF stay
  <2>2. out \in Seq(Detected) /\ Suppression!Range(out) = Suppression!Range(now.events) \cap stay
    BY <1>2, AmongFacts
  <2> QED
    BY <2>1, <2>2
<1> HIDE DEF out
<1>5. /\ list \in FilterList /\ list.failed = FALSE /\ list.events = now.events /\ list.out = out
      /\ list.ever = now.ever /\ list.always = now.always
  BY <1>2, <1>4 DEF FilterList, FilterCall
<1> HIDE DEF list
<1>6. /\ now.always \subseteq now.ever /\ now.ever \subseteq Suppression!Range(now.events)
      /\ \A e \in Suppression!Range(now.events) : <<e.station, e.rule>> \in now.hits => e \in now.ever
      /\ \A e \in now.always :
           e.station \in ruled /\ (<<e.station, e.rule>> \in now.hits \/ Upper(e.station) # e.station)
  BY <1>1, <1>2 DEF FilterOK
<1>7. Suppression!Range(now.events) \ now.ever \subseteq stay
  BY <1>6
<1>8. \A e \in now.always : e \in stay => Upper(e.station) # e.station
  BY <1>6
<1>9. stay \subseteq Suppression!Range(now.events)
  OBVIOUS
<1>10. out = Suppression!Among(now.events, stay)
  BY DEF out
<1> HIDE DEF stay
<1>11. ListOK(list)
  BY <1>4, <1>5, <1>7, <1>8, <1>9, <1>10 DEF ListOK
<1>12. Suppression!Return(c, list.events, list.out, list.failed, list.ever, list.always)
  BY <1>3, <1>5
<1> QED
  BY <1>5, <1>11, <1>12, ReturnKeeps

\* The filters and their lists stay what they are for every number of clients,
\* rules, stations and writes.
THEOREM SuppressionInvariance == Spec => []SuppressionInv
<1>1. Init => SuppressionInv
  <2> SUFFICES ASSUME Init PROVE SuppressionInv
    OBVIOUS
  <2>1. /\ rules = [k \in Suppression!Key |-> Suppression!NoRow] /\ ruled = {} /\ writes = 0
        /\ filtering = [c \in Filterer |-> Suppression!NoCall]
        /\ kept = [c \in Filterer |-> Suppression!NoList]
    BY DEF Init, Suppression!Init
  <2>2. Ruled = {}
    BY <2>1 DEF Ruled
  <2>3. RuleTable
    BY <2>1, <2>2, FS_EmptySet, SuppressionFacts DEF RuleTable
  <2>4. \A c \in Filterer : FilterOK(filtering[c])
    BY <2>1 DEF FilterOK
  <2> DEFINE list == Suppression!NoList
  <2>5. /\ list \in FilterList /\ list.out = <<>> /\ list.events = <<>> /\ list.failed = FALSE
        /\ list.ever = {} /\ list.always = {}
    BY DEF Suppression!NoList, FilterList
  <2> HIDE DEF list
  <2>6. Suppression!Range(<<>>) = {}
    BY DEF Suppression!Range
  <2>7. Suppression!Among(<<>>, Suppression!Range(<<>>)) = <<>>
    <3>1. <<>> \in Seq(Detected)
      OBVIOUS
    <3> QED
      BY <3>1, AmongAll, Zenon
  <2>8. ListOK(list)
    BY <2>5, <2>6, <2>7 DEF ListOK
  <2>9. kept \in [Filterer -> FilterList] /\ \A c \in Filterer : ListOK(kept[c])
    BY <2>1, <2>5, <2>8 DEF list
  <2> QED
    BY <2>1, <2>3, <2>4, <2>9 DEF SuppressionInv
<1>2. SuppressionInv /\ [Next]_vars => SuppressionInv'
  <2> SUFFICES ASSUME SuppressionInv, [Next]_vars PROVE SuppressionInv'
    OBVIOUS
  <2>1. CASE UNCHANGED suppressionVars
    BY <2>1 DEF suppressionVars, SuppressionInv, RuleTable, Ruled, FilterOK, ListOK
  <2>2. ASSUME NEW code \in RuleCode,
               \/ Suppression!CreateStation(code)
               \/ \E rule \in Rule, from \in Suppression!HourOfDay, to \in 1..MaxHour, enabled \in BOOLEAN :
                    Suppression!Upsert(code, rule, from, to, enabled)
        PROVE  SuppressionInv'
    BY <2>2, AddedKeeps, UpsertKeeps
  <2>3. ASSUME NEW id \in 1..MaxWrites, NEW enabled \in BOOLEAN, Suppression!SetEnabled(id, enabled)
        PROVE  SuppressionInv'
    BY <2>3, SetEnabledKeeps
  <2>4. ASSUME NEW c \in Filterer,
               \/ \E events \in Batch, hour \in Suppression!HourOfDay : Suppression!LoadRules(c, events, hour)
               \/ Suppression!FilterEvents(c) \/ Suppression!FailOpen(c)
        PROVE  SuppressionInv'
    BY <2>4, LoadRulesKeeps, FilterEventsKeeps, FailOpenKeeps
  <2>5. Suppression!Next \/ UNCHANGED suppressionVars
    BY DEF Next, vars
  <2> QED
    BY <2>1, <2>2, <2>3, <2>4, <2>5 DEF Suppression!Next
<1> QED
  BY <1>1, <1>2, PTL DEF Spec

\* The bulk filter agrees with the single question (suppression_rule.go:158),
\* whatever is written meanwhile, for every table of rules and list of events.
THEOREM FiltersAgree == Spec => []FilterAgreesWithActive
<1>1. SuppressionInv => FilterAgreesWithActive
  <2> SUFFICES ASSUME SuppressionInv PROVE Suppression!FilterAgreesWithActive
    BY DEF FilterAgreesWithActive
  <2>1. ASSUME NEW c \in Filterer, filtering[c] # Suppression!NoCall
        PROVE  /\ filtering[c].pc = "stations" /\ filtering[c].events \in Batch
               /\ filtering[c].hour \in Suppression!HourOfDay
               /\ filtering[c].hits \subseteq Suppression!Key
               /\ filtering[c].always \subseteq filtering[c].ever
               /\ filtering[c].ever \subseteq Suppression!Range(filtering[c].events)
    BY <2>1, FilterParts DEF FilterCall, FilterOK
  <2>2. \A k1, k2 \in Suppression!Key :
          (rules[k1] # Suppression!NoRow /\ rules[k1].id = rules[k2].id) => k1 = k2
    <3> SUFFICES ASSUME NEW k1 \in Suppression!Key, NEW k2 \in Suppression!Key,
                        rules[k1] # Suppression!NoRow, rules[k1].id = rules[k2].id
                 PROVE  k1 = k2
      OBVIOUS
    <3>1. rules[k1] \in Suppression!Row /\ rules[k1].id # 0
      BY DEF SuppressionInv, RuleTable, Suppression!Row
    <3>2. rules[k2] # Suppression!NoRow
      BY <3>1 DEF Suppression!NoRow
    <3> QED
      BY <3>2 DEF SuppressionInv, RuleTable, Ruled
  <2>3. Suppression!TypeOK
    BY <2>1, <2>2 DEF Suppression!TypeOK, SuppressionInv, RuleTable, ListOK
  <2>4. \A c \in Filterer :
          LET list == kept[c]
              out == Suppression!Range(list.out)
          IN  /\ Suppression!Range(list.events) \ list.ever \subseteq out
              /\ list.out = Suppression!Among(list.events, out)
              /\ list.failed => list.out = list.events
              /\ ~list.failed =>
                   \A e \in list.always : e \in out => Upper(e.station) # e.station
    BY DEF SuppressionInv, ListOK
  <2> QED
    BY <2>3, <2>4, Zenon DEF Suppression!FilterAgreesWithActive
<1> QED
  BY <1>1, SuppressionInvariance, PTL

-----------------------------------------------------------------------------
(* Frames and the walk through them. *)

\* A table of frames, with ids up to m.
Table(t, m) == DOMAIN t \subseteq 1..m /\ \A i \in DOMAIN t : t[i].start \in Nat

\* The rows of t that do not come after i; how many they are; the order.
NotAfter(t, i) ==
  {k \in DOMAIN t : k = i \/ t[k].start < t[i].start \/ (t[k].start = t[i].start /\ k < i)}

Number(t, i) == Cardinality(NotAfter(t, i))

OrderOf(t) == [n \in 1..Cardinality(DOMAIN t) |-> CHOOSE i \in DOMAIN t : Number(t, i) = n]

\* The numbers of the rows of t are those up to its size, one for each.
LEMMA TableNumbers ==
  ASSUME NEW m \in Nat, NEW t, Table(t, m)
  PROVE  /\ IsFiniteSet(DOMAIN t) /\ Cardinality(DOMAIN t) \in Nat
         /\ \E rank \in Bijection(DOMAIN t, 1..Cardinality(DOMAIN t)) :
              \A i \in DOMAIN t : rank[i] = Number(t, i)
<1> DEFINE K == DOMAIN t
           le == {ij \in K \X K : \/ ij[1] = ij[2] \/ t[ij[1]].start < t[ij[2]].start
                                  \/ t[ij[1]].start = t[ij[2]].start /\ ij[1] < ij[2]}
           r == [i \in K |-> Cardinality({j \in K : <<j, i>> \in le})]
<1>1. IsFiniteSet(K) /\ Cardinality(K) \in Nat
  <2>1. IsFiniteSet(1..m) /\ K \in SUBSET (1..m)
    BY FS_Interval DEF Table
  <2> QED
    BY <2>1, FS_Subset, FS_CardinalityType
<1>2. \A i \in K : i \in Nat /\ t[i].start \in Nat
  BY DEF Table
<1>3. \A i, j \in K : <<i, j>> \in le <=> \/ i = j \/ t[i].start < t[j].start
                                          \/ t[i].start = t[j].start /\ i < j
  OBVIOUS
<1>4. ASSUME NEW i \in K PROVE {j \in K : <<j, i>> \in le} = NotAfter(t, i)
  BY <1>3 DEF NotAfter
<1> HIDE DEF K, le
<1>5. /\ \A i \in K : <<i, i>> \in le
      /\ \A i, j \in K : <<i, j>> \in le \/ <<j, i>> \in le
      /\ \A i, j \in K : <<i, j>> \in le /\ <<j, i>> \in le => i = j
      /\ \A i, j, k \in K : <<i, j>> \in le /\ <<j, k>> \in le => <<i, k>> \in le
  BY <1>2, <1>3
<1>6. r \in Bijection(K, 1..Cardinality(K))
  BY <1>1, <1>5, RanksByCount
<1>7. \A i \in K : r[i] = Number(t, i)
  BY <1>4 DEF Number
<1> QED
  BY <1>1, <1>6, <1>7 DEF K

\* The same, row by row.
LEMMA NumberFacts ==
  ASSUME NEW m \in Nat, NEW t, Table(t, m)
  PROVE  /\ \A i \in DOMAIN t : Number(t, i) \in 1..Cardinality(DOMAIN t)
         /\ \A i, j \in DOMAIN t : Number(t, i) = Number(t, j) => i = j
         /\ \A n \in 1..Cardinality(DOMAIN t) :
              OrderOf(t)[n] \in DOMAIN t /\ Number(t, OrderOf(t)[n]) = n
<1>1. PICK rank \in Bijection(DOMAIN t, 1..Cardinality(DOMAIN t)) :
        \A i \in DOMAIN t : rank[i] = Number(t, i)
  BY TableNumbers
<1>2. /\ rank \in [DOMAIN t -> 1..Cardinality(DOMAIN t)]
      /\ \A i, j \in DOMAIN t : rank[i] = rank[j] => i = j
      /\ \A n \in 1..Cardinality(DOMAIN t) : \E i \in DOMAIN t : rank[i] = n
  BY <1>1 DEF Bijection, Injection, Surjection, IsInjective
<1>3. ASSUME NEW n \in 1..Cardinality(DOMAIN t)
      PROVE  OrderOf(t)[n] \in DOMAIN t /\ Number(t, OrderOf(t)[n]) = n
  <2>1. \E i \in DOMAIN t : Number(t, i) = n
    BY <1>1, <1>2
  <2>2. OrderOf(t)[n] = CHOOSE i \in DOMAIN t : Number(t, i) = n
    BY DEF OrderOf
  <2> QED
    BY <2>1, <2>2
<1> QED
  BY <1>1, <1>2, <1>3

\* At most d rows have a number above a and up to a + d.
LEMMA RowsInBand ==
  ASSUME NEW m \in Nat, NEW t, Table(t, m), NEW a \in Int, NEW d \in Nat,
         NEW S \in SUBSET DOMAIN t, \A i \in S : a < Number(t, i) /\ Number(t, i) <= a + d
  PROVE  IsFiniteSet(S) /\ Cardinality(S) <= d
<1>1. PICK n \in Nat : n = Cardinality(DOMAIN t)
  BY TableNumbers
<1>2. PICK rank \in Bijection(DOMAIN t, 1..n) : \A i \in DOMAIN t : rank[i] = Number(t, i)
  BY <1>1, TableNumbers
<1>3. rank \in [DOMAIN t -> 1..n] /\ \A i, j \in DOMAIN t : rank[i] = rank[j] => i = j
  BY <1>2 DEF Bijection, Injection, IsInjective
<1>4. \A i \in S : a < rank[i] /\ rank[i] <= a + d
  BY <1>2
<1> QED
  BY <1>3, <1>4, InBand

\* Rows that leave a table lower a number by one each at most.
LEMMA NumbersMove ==
  ASSUME NEW m \in Nat, NEW t, Table(t, m), NEW u, Table(u, m),
         \A i \in DOMAIN t \cap DOMAIN u : u[i] = t[i],
         NEW i \in DOMAIN t \cap DOMAIN u
  PROVE  Number(t, i) <= Number(u, i) + Cardinality(DOMAIN t \ DOMAIN u)
<1> DEFINE A == NotAfter(t, i)
           B == NotAfter(u, i)
           D == DOMAIN t \ DOMAIN u
<1>1. A \subseteq B \cup D
  BY DEF NotAfter
<1>2. IsFiniteSet(DOMAIN t) /\ IsFiniteSet(DOMAIN u)
  BY TableNumbers
<1>3. B \subseteq DOMAIN u /\ D \subseteq DOMAIN t
  BY DEF NotAfter
<1> HIDE DEF A, B, D
<1>4. IsFiniteSet(B) /\ IsFiniteSet(D)
  BY <1>2, <1>3, FS_Subset
<1>5. /\ Cardinality(B \cup D) = Cardinality(B) + Cardinality(D) - Cardinality(B \cap D)
      /\ IsFiniteSet(B \cup D)
  BY <1>4, FS_Union
<1>6. IsFiniteSet(A) /\ Cardinality(A) <= Cardinality(B \cup D) /\ IsFiniteSet(B \cap D)
  BY <1>1, <1>4, <1>5, FS_Subset
<1>7. {Cardinality(A), Cardinality(B), Cardinality(D), Cardinality(B \cup D), Cardinality(B \cap D)} \subseteq Nat
  BY <1>4, <1>5, <1>6, FS_CardinalityType
<1>8. Cardinality(A) <= Cardinality(B) + Cardinality(D)
  BY <1>5, <1>6, <1>7
<1> QED
  BY <1>8 DEF A, B, D, Number

\* The first l rows of t.
Front(t, l) == {i \in DOMAIN t : Number(t, i) <= l}

\* A walk that has gone l rows deep into t and been given the rows in seen: what
\* it has passed and not been given, and what it was given twice or has still to
\* pass again, is owed to what was deleted and inserted.
OnWay(t, l, seen, there, new, gone) ==
  /\ there \ gone \subseteq DOMAIN t /\ gone \cap DOMAIN t = {}
  /\ Cardinality(((there \ gone) \ seen) \cap Front(t, l)) <= Cardinality(gone)
  /\ (l - Cardinality(seen)) + Cardinality((seen \cap DOMAIN t) \ Front(t, l)) <= Cardinality(new)

\* The table changes behind the walk's back.
LEMMA WayShifts ==
  ASSUME NEW m \in Nat, NEW t, Table(t, m), NEW u, Table(u, m),
         \A i \in DOMAIN t \cap DOMAIN u : u[i] = t[i],
         NEW l \in Nat, NEW seen, NEW there, NEW new, NEW gone,
         OnWay(t, l, seen, there, new, gone),
         seen \cup there \cup new \cup gone \subseteq 1..m,
         (DOMAIN u \ DOMAIN t) \cap (seen \cup there \cup new \cup gone) = {},
         NEW more, more = new \cup (DOMAIN u \ DOMAIN t),
         NEW less, less = gone \cup (DOMAIN t \ DOMAIN u)
  PROVE  OnWay(u, l, seen, there, more, less)
<1> DEFINE A == DOMAIN u \ DOMAIN t
           D == DOMAIN t \ DOMAIN u
           X == ((there \ gone) \ seen) \cap Front(t, l)
           Y == ((there \ less) \ seen) \cap Front(u, l)
           P == (seen \cap DOMAIN t) \ Front(t, l)
           Q == (seen \cap DOMAIN u) \ Front(u, l)
           a == Cardinality(A)
           d == Cardinality(D)
<1>1. /\ there \ gone \subseteq DOMAIN t /\ gone \cap DOMAIN t = {}
      /\ Cardinality(X) <= Cardinality(gone)
      /\ (l - Cardinality(seen)) + Cardinality(P) <= Cardinality(new)
  BY DEF OnWay
<1>2. DOMAIN t \subseteq 1..m /\ DOMAIN u \subseteq 1..m
  BY DEF Table
<1>3. a \in Nat /\ d \in Nat
  BY <1>2, Small
<1>4. \A i \in DOMAIN t : Number(t, i) \in Int
  BY NumberFacts
<1>5. \A i \in DOMAIN u : Number(u, i) \in Int
  BY NumberFacts
<1>6. \A i \in DOMAIN t \cap DOMAIN u : Number(t, i) <= Number(u, i) + d
  BY NumbersMove
<1>7. \A i \in DOMAIN t \cap DOMAIN u : Number(u, i) <= Number(t, i) + a
  <2>1. \A i \in DOMAIN u \cap DOMAIN t : t[i] = u[i]
    OBVIOUS
  <2> QED
    BY <2>1, NumbersMove
<1>8. there \ less \subseteq DOMAIN u /\ less \cap DOMAIN u = {}
  BY <1>1
<1> DEFINE E == {i \in DOMAIN t \cap DOMAIN u : l < Number(t, i) /\ Number(t, i) <= l + d}
           F == {i \in DOMAIN t \cap DOMAIN u : l < Number(u, i) /\ Number(u, i) <= l + a}
<1>9. Cardinality(E) <= d
  <2>1. E \subseteq DOMAIN t /\ \A i \in E : l < Number(t, i) /\ Number(t, i) <= l + d
    OBVIOUS
  <2> HIDE DEF E, d
  <2> QED
    BY <1>3, <2>1, RowsInBand
<1>10. Cardinality(F) <= a
  <2>1. F \subseteq DOMAIN u /\ \A i \in F : l < Number(u, i) /\ Number(u, i) <= l + a
    OBVIOUS
  <2> HIDE DEF F, a
  <2> QED
    BY <1>3, <2>1, RowsInBand
<1> HIDE DEF a, d
<1>11. Y \subseteq X \cup E
  <2> SUFFICES ASSUME NEW i \in Y PROVE i \in X \cup E
    OBVIOUS
  <2>1. i \in DOMAIN t \cap DOMAIN u /\ i \in (there \ gone) \ seen /\ Number(u, i) <= l
    BY <1>1 DEF Front
  <2>2. Number(t, i) \in Int /\ Number(u, i) \in Int /\ Number(t, i) <= Number(u, i) + d
    BY <1>4, <1>5, <1>6, <2>1
  <2>3. CASE Number(t, i) <= l
    BY <2>1, <2>3 DEF Front
  <2>4. CASE l < Number(t, i)
    BY <1>3, <2>1, <2>2, <2>4
  <2> QED
    BY <2>2, <2>3, <2>4
<1>12. Q \subseteq P \cup F
  <2> SUFFICES ASSUME NEW i \in Q PROVE i \in P \cup F
    OBVIOUS
  <2>1. i \in DOMAIN t \cap DOMAIN u /\ i \in seen /\ ~(Number(u, i) <= l)
    BY DEF Front
  <2>2. Number(t, i) \in Int /\ Number(u, i) \in Int /\ Number(u, i) <= Number(t, i) + a
    BY <1>4, <1>5, <1>7, <2>1
  <2>3. CASE ~(Number(t, i) <= l)
    BY <2>1, <2>3 DEF Front
  <2>4. CASE Number(t, i) <= l
    BY <1>3, <2>1, <2>2, <2>4
  <2> QED
    BY <2>3, <2>4
<1>13. X \subseteq 1..m /\ Y \subseteq 1..m /\ P \subseteq 1..m /\ Q \subseteq 1..m /\ E \subseteq 1..m /\ F \subseteq 1..m
  BY <1>2
<1>14. A \subseteq 1..m /\ D \subseteq 1..m /\ new \cap A = {} /\ gone \cap D = {}
       /\ more = new \cup A /\ less = gone \cup D
  BY <1>1, <1>2
<1> HIDE DEF X, Y, P, Q, E, F, A, D
<1>15. Cardinality(Y) <= Cardinality(less)
  <2>1. Sizes(X, E)
    BY <1>13, SmallUnion
  <2>2. X \cup E \subseteq 1..m
    BY <1>13
  <2>3. Cardinality(Y) <= Cardinality(X \cup E) /\ Cardinality(Y) \in Nat
    BY <1>11, <1>13, <2>2, SmallParts, Small
  <2>4. Sizes(gone, D)
    BY <1>14, SmallUnion
  <2> QED
    <3>1. Cardinality(less) = Cardinality(gone) + d /\ Cardinality(gone) \in Nat
      <4>1. less = gone \cup D /\ Cardinality(gone \cap D) = 0
        BY <1>14, <2>4 DEF Sizes
      <4>2. /\ Cardinality(gone \cup D) + Cardinality(gone \cap D) = Cardinality(gone) + Cardinality(D)
            /\ {Cardinality(gone), Cardinality(D), Cardinality(gone \cup D)} \subseteq Nat
        BY <2>4 DEF Sizes
      <4>3. Cardinality(gone \cup D) = Cardinality(gone) + Cardinality(D)
        BY <4>1, <4>2
      <4> QED
        BY <4>1, <4>2, <4>3 DEF d
    <3>2. /\ Cardinality(X \cup E) <= Cardinality(X) + Cardinality(E)
          /\ {Cardinality(X \cup E), Cardinality(X), Cardinality(E)} \subseteq Nat
      BY <2>1 DEF Sizes
    <3> QED
      BY <1>1, <1>3, <1>9, <2>3, <3>1, <3>2
<1>16. (l - Cardinality(seen)) + Cardinality(Q) <= Cardinality(more)
  <2>1. Sizes(P, F)
    BY <1>13, SmallUnion
  <2>2. P \cup F \subseteq 1..m
    BY <1>13
  <2>3. Cardinality(Q) <= Cardinality(P \cup F) /\ Cardinality(Q) \in Nat
    BY <1>12, <1>13, <2>2, SmallParts, Small
  <2>4. Sizes(new, A)
    BY <1>14, SmallUnion
  <2>5. Cardinality(seen) \in Nat
    BY Small
  <2> QED
    <3>1. Cardinality(more) = Cardinality(new) + a /\ Cardinality(new) \in Nat
      BY <1>14, <2>4 DEF Sizes, a
    <3>2. /\ Cardinality(P \cup F) <= Cardinality(P) + Cardinality(F)
          /\ {Cardinality(P \cup F), Cardinality(P), Cardinality(F)} \subseteq Nat
      BY <2>1 DEF Sizes
    <3> QED
      BY <1>1, <1>3, <1>10, <2>3, <2>5, <3>1, <3>2
<1> QED
  BY <1>8, <1>15, <1>16 DEF OnWay, Y, Q

\* The walk goes on from row l to row k.
LEMMA WayGoesOn ==
  ASSUME NEW m \in Nat, NEW t, Table(t, m),
         NEW l \in Nat, NEW seen, NEW there, NEW new, NEW gone,
         OnWay(t, l, seen, there, new, gone),
         seen \cup there \cup new \cup gone \subseteq 1..m,
         NEW k \in Nat, l <= k, k <= Cardinality(DOMAIN t),
         NEW more, more = seen \cup {OrderOf(t)[n] : n \in (l + 1)..k}
  PROVE  OnWay(t, k, more, there, new, gone)
<1> DEFINE G == {OrderOf(t)[n] : n \in (l + 1)..k}
           X == ((there \ gone) \ seen) \cap Front(t, l)
           Y == ((there \ gone) \ more) \cap Front(t, k)
           P == (seen \cap DOMAIN t) \ Front(t, l)
           Q == (more \cap DOMAIN t) \ Front(t, k)
<1>1. /\ there \ gone \subseteq DOMAIN t /\ gone \cap DOMAIN t = {}
      /\ Cardinality(X) <= Cardinality(gone)
      /\ (l - Cardinality(seen)) + Cardinality(P) <= Cardinality(new)
  BY DEF OnWay
<1>2. DOMAIN t \subseteq 1..m /\ Cardinality(DOMAIN t) \in Nat
  BY TableNumbers DEF Table
<1>3. PICK c \in Nat : c = Cardinality(DOMAIN t)
  BY <1>2
<1>4. /\ \A i \in DOMAIN t : Number(t, i) \in 1..c
      /\ \A i, j \in DOMAIN t : Number(t, i) = Number(t, j) => i = j
      /\ \A n \in 1..c : OrderOf(t)[n] \in DOMAIN t /\ Number(t, OrderOf(t)[n]) = n
  BY <1>3, NumberFacts
<1>5. \A n \in (l + 1)..k : n \in 1..c /\ l < n /\ n <= k
  BY <1>3
<1>6. G \subseteq DOMAIN t /\ \A i \in G : l < Number(t, i) /\ Number(t, i) <= k
  BY <1>4, <1>5
<1>7. \A i \in DOMAIN t : l < Number(t, i) /\ Number(t, i) <= k => i \in G
  <2> SUFFICES ASSUME NEW i \in DOMAIN t, l < Number(t, i), Number(t, i) <= k
               PROVE  \E n \in (l + 1)..k : OrderOf(t)[n] = i
    OBVIOUS
  <2>1. PICK n \in 1..c : n = Number(t, i)
    BY <1>4
  <2>2. n \in (l + 1)..k
    BY <2>1
  <2>3. OrderOf(t)[n] = i
    BY <1>4, <2>1
  <2> QED
    BY <2>2, <2>3
<1>8. Cardinality(G) = k - l
  <2> DEFINE f == [n \in (l + 1)..k |-> OrderOf(t)[n]]
  <2>1. f \in [(l + 1)..k -> G] /\ \A i \in G : \E n \in (l + 1)..k : f[n] = i
    OBVIOUS
  <2>2. ASSUME NEW n \in (l + 1)..k, NEW h \in (l + 1)..k, f[n] = f[h] PROVE n = h
    <3>1. n \in 1..c /\ h \in 1..c /\ OrderOf(t)[n] = OrderOf(t)[h]
      BY <1>5, <2>2
    <3>2. Number(t, OrderOf(t)[n]) = n /\ Number(t, OrderOf(t)[h]) = h
      BY <1>4, <3>1
    <3> QED
      BY <3>1, <3>2
  <2>3. IsFiniteSet((l + 1)..k) /\ Cardinality((l + 1)..k) = k - l
    <3>1. l + 1 \in Int /\ k \in Int /\ (l + 1 > k <=> k - l = 0) /\ k - (l + 1) + 1 = k - l
      OBVIOUS
    <3> QED
      BY <3>1, FS_Interval
  <2> HIDE DEF f, G
  <2>4. f \in Bijection((l + 1)..k, G)
    BY <2>1, <2>2 DEF Bijection, Injection, Surjection, IsInjective
  <2>5. ExistsBijection((l + 1)..k, G)
    BY <2>4, Zenon DEF ExistsBijection
  <2> QED
    BY <2>3, <2>5, FS_Bijection
<1> HIDE DEF G
<1>9. more = seen \cup G
  BY DEF G
<1>10. Y \subseteq X
  <2> SUFFICES ASSUME NEW i \in Y PROVE i \in Front(t, l)
    BY <1>9
  <2>1. i \in DOMAIN t /\ Number(t, i) <= k /\ i \notin G /\ Number(t, i) \in Int
    BY <1>4, <1>9 DEF Front
  <2>2. ~(l < Number(t, i))
    BY <1>7, <2>1
  <2> QED
    BY <2>1, <2>2 DEF Front
<1>11. Q \subseteq P /\ Q \cap (seen \cap G) = {} /\ seen \cap G \subseteq P
  <2>1. ASSUME NEW i \in Q PROVE i \in P /\ i \notin G
    <3>1. i \in DOMAIN t /\ ~(Number(t, i) <= k) /\ Number(t, i) \in Int
      BY <1>4 DEF Front
    <3>2. i \notin G /\ ~(Number(t, i) <= l)
      BY <1>6, <3>1
    <3> QED
      BY <1>9, <3>1, <3>2 DEF Front
  <2>2. ASSUME NEW i \in seen \cap G PROVE i \in P
    <3>1. i \in DOMAIN t /\ l < Number(t, i) /\ Number(t, i) \in Int
      BY <1>4, <1>6
    <3> QED
      BY <3>1 DEF Front
  <2> QED
    BY <2>1, <2>2
<1>12. G \subseteq 1..m /\ seen \subseteq 1..m /\ X \subseteq 1..m /\ P \subseteq 1..m /\ Q \subseteq 1..m
  <2>1. G \subseteq 1..m /\ seen \subseteq 1..m /\ X \subseteq 1..m /\ P \subseteq 1..m
    BY <1>2, <1>6
  <2> QED
    BY <1>11, <2>1
<1> HIDE DEF X, Y, P, Q
<1>13. Cardinality(Y) <= Cardinality(gone)
  <2>1. Cardinality(Y) <= Cardinality(X) /\ Y \subseteq 1..m
    BY <1>10, <1>12, SmallParts
  <2>2. {Cardinality(X), Cardinality(Y), Cardinality(gone)} \subseteq Nat
    BY <1>12, <2>1, Small
  <2> QED
    BY <1>1, <2>1, <2>2
<1>14. (k - Cardinality(more)) + Cardinality(Q) <= Cardinality(new)
  <2>1. Sizes(seen, G)
    BY <1>12, SmallUnion
  <2>2. Q \cup (seen \cap G) \subseteq P /\ seen \cap G \subseteq 1..m
    BY <1>11, <1>12
  <2>3. Sizes(Q, seen \cap G)
    BY <1>11, <1>12, <2>2, SmallUnion
  <2>4. Cardinality(Q \cup (seen \cap G)) <= Cardinality(P) /\ Cardinality(P) \in Nat
    BY <1>12, <2>2, SmallParts, Small
  <2>5. Cardinality(new) \in Nat
    BY Small
  <2> QED
    <3> DEFINE twice == seen \cap G
    <3>1. /\ Cardinality(more) + Cardinality(twice) = Cardinality(seen) + (k - l)
          /\ {Cardinality(more), Cardinality(twice), Cardinality(seen)} \subseteq Nat
      BY <1>8, <1>9, <2>1 DEF Sizes
    <3>2. /\ Cardinality(Q) + Cardinality(twice) <= Cardinality(P)
          /\ {Cardinality(Q), Cardinality(P)} \subseteq Nat
      <4>1. Q \cap twice = {}
        BY <1>11
      <4>2. Cardinality(Q \cup twice) = Cardinality(Q) + Cardinality(twice) /\ Cardinality(Q) \in Nat
        BY <2>3, <4>1 DEF Sizes
      <4> QED
        BY <2>4, <4>2
    <3> HIDE DEF twice
    <3> QED
      BY <1>1, <2>5, <3>1, <3>2
<1> QED
  BY <1>1, <1>13, <1>14 DEF OnWay, Y, Q

-----------------------------------------------------------------------------
(* The history of a channel. *)

Rows == DOMAIN frames

Seen == History!Range(walk.seen)

\* Ids below nextId are all there is.
HistoryTypes ==
  /\ nextId \in Nat \ {0}
  /\ Rows \subseteq 1..(nextId - 1) /\ \A i \in Rows : frames[i] \in Span
  /\ walk \in [on : BOOLEAN, limit : Nat \ {0}, seen : Seq(Nat)]
  /\ Seen \cup begun \cup inserted \cup deleted \subseteq 1..(nextId - 1)

\* What the walk passed and was not given was deleted, what it was given twice
\* was inserted, and so for what it has still to pass.
HistoryInv ==
  /\ HistoryTypes
  /\ walk.on => OnWay(frames, Len(walk.seen), Seen, begun, inserted, deleted)
  /\ ~walk.on => Cardinality((begun \ deleted) \ Seen) <= Cardinality(deleted)
  /\ Len(walk.seen) - Cardinality(Seen) <= Cardinality(inserted)
  /\ (walk.on /\ inserted \cup deleted = {}) =>
       /\ Len(walk.seen) <= Cardinality(Rows)
       /\ \A n \in 1..Len(walk.seen) : walk.seen[n] = OrderOf(frames)[n]

LEMMA HistoryCardinality == \A S : History!Cardinality(S) = Cardinality(S)
BY Zenon DEF History!Cardinality, Cardinality

LEMMA HistoryConstants ==
  /\ \A f \in Span : f.start \in Nat
  /\ {DefaultPageLimit, MaxPageLimit} \subseteq Nat \ {0} /\ AskedLimit \subseteq Nat
BY DeskAssumption DEF History!HistoryParameters

LEMMA FramesTable ==
  ASSUME HistoryTypes
  PROVE  nextId - 1 \in Nat /\ Table(frames, nextId - 1) /\ Table(frames, nextId)
<1>1. nextId - 1 \in Nat /\ 1..(nextId - 1) \subseteq 1..nextId
  BY DEF HistoryTypes
<1> QED
  BY <1>1, HistoryConstants DEF HistoryTypes, Rows, Table

LEMMA OrderedIs ==
  /\ History!Ordered = OrderOf(frames)
  /\ History!Ids = DOMAIN frames /\ History!Cardinality(History!Ids) = Cardinality(DOMAIN frames)
<1>1. \A i : History!Place(i) = Number(frames, i)
  <2> SUFFICES ASSUME NEW i PROVE History!Place(i) = Number(frames, i)
    OBVIOUS
  <2>1. {k \in History!Ids : k = i \/ History!Before(k, i)} = NotAfter(frames, i)
    BY DEF History!Ids, History!Before, NotAfter
  <2>2. History!Place(i) = History!Cardinality({k \in History!Ids : k = i \/ History!Before(k, i)})
    BY Zenon DEF History!Place
  <2> QED
    BY <2>1, <2>2, HistoryCardinality, Zenon DEF Number
<1>2. History!Ids = DOMAIN frames
  BY DEF History!Ids
<1>3. History!Cardinality(History!Ids) = Cardinality(DOMAIN frames)
  BY <1>2, HistoryCardinality, Zenon
<1> DEFINE At(n) == CHOOSE i \in History!Ids : History!Place(i) = n
           At2(n) == CHOOSE i \in DOMAIN frames : Number(frames, i) = n
<1>4. History!Ordered = [n \in 1..History!Cardinality(History!Ids) |-> At(n)]
  BY Zenon DEF History!Ordered
<1>5. OrderOf(frames) = [n \in 1..Cardinality(DOMAIN frames) |-> At2(n)]
  BY Zenon DEF OrderOf
<1>6. \A n : At(n) = At2(n)
  BY <1>1, <1>2
<1> HIDE DEF At, At2
<1>7. History!Ordered = OrderOf(frames)
  BY <1>3, <1>4, <1>5, <1>6
<1> QED
  BY <1>2, <1>3, <1>7

LEMMA SeenFacts ==
  ASSUME NEW s \in Seq(Nat)
  PROVE  History!Range(s) = {s[i] : i \in 1..Len(s)} /\ Len(s) \in Nat /\ DOMAIN s = 1..Len(s)
BY DEF History!Range

\* The table changes, during a walk or not.
LEMMA TableChanges ==
  ASSUME HistoryInv, nextId' \in {nextId, nextId + 1}, UNCHANGED <<walk, begun>>,
         Rows' \subseteq 1..(nextId' - 1), \A i \in Rows' : frames'[i] \in Span,
         \A i \in Rows \cap Rows' : frames'[i] = frames[i],
         (Rows' \ Rows) \cap (1..(nextId - 1)) = {},
         inserted' = IF walk.on THEN inserted \cup (Rows' \ Rows) ELSE inserted,
         deleted' = IF walk.on THEN deleted \cup (Rows \ Rows') ELSE deleted,
         Rows' # Rows
  PROVE  HistoryInv'
<1> DEFINE m == nextId
           l == Len(walk.seen)
<1>1. HistoryTypes /\ m \in Nat /\ Table(frames, m) /\ nextId - 1 \in Nat
  BY FramesTable DEF HistoryInv, HistoryTypes
<1>2. 1..(nextId - 1) \subseteq 1..m /\ 1..(nextId' - 1) \subseteq 1..m
      /\ 1..(nextId - 1) \subseteq 1..(nextId' - 1)
  <2>1. PICK k \in Nat : k = nextId
    BY <1>1
  <2>2. 1..(k - 1) \subseteq 1..k /\ (k + 1) - 1 = k
    OBVIOUS
  <2> QED
    BY <2>1, <2>2
<1>3. Table(frames', m)
  BY <1>2, HistoryConstants DEF Table, Rows
<1>4. l \in Nat /\ walk.seen \in Seq(Nat)
  BY <1>1 DEF HistoryTypes
<1>5. Seen' = Seen
  BY DEF Seen, History!Range
<1>6. Seen \cup begun \cup inserted \cup deleted \subseteq 1..(nextId - 1)
  BY <1>1 DEF HistoryTypes
<1>7. HistoryTypes'
  <2>1. inserted' \subseteq inserted \cup Rows' /\ deleted' \subseteq deleted \cup Rows
    OBVIOUS
  <2>2. Rows \subseteq 1..(nextId - 1)
    BY <1>1 DEF HistoryTypes
  <2>3. (Seen \cup begun \cup inserted \cup deleted)' \subseteq 1..(nextId' - 1)
    BY <1>2, <1>5, <1>6, <2>1, <2>2
  <2>4. nextId' \in Nat \ {0}
    BY <1>1
  <2> QED
    BY <1>1, <2>3, <2>4 DEF HistoryTypes
<1>8. ASSUME walk.on
      PROVE  OnWay(frames', l, Seen, begun, inserted', deleted')
  <2>1. OnWay(frames, l, Seen, begun, inserted, deleted)
    BY <1>8 DEF HistoryInv
  <2>2. Seen \cup begun \cup inserted \cup deleted \subseteq 1..m
    BY <1>2, <1>6
  <2>3. (DOMAIN frames' \ DOMAIN frames) \cap (Seen \cup begun \cup inserted \cup deleted) = {}
    BY <1>6 DEF Rows
  <2>4. \A i \in DOMAIN frames \cap DOMAIN frames' : frames'[i] = frames[i]
    BY DEF Rows
  <2>5. /\ inserted' = inserted \cup (DOMAIN frames' \ DOMAIN frames)
        /\ deleted' = deleted \cup (DOMAIN frames \ DOMAIN frames')
    BY <1>8 DEF Rows
  <2> HIDE DEF m, l
  <2> QED
    BY <1>1, <1>3, <1>4, <2>1, <2>2, <2>3, <2>4, <2>5, WayShifts
<1>9. ASSUME ~walk.on PROVE Cardinality((begun \ deleted') \ Seen) <= Cardinality(deleted')
  BY <1>9 DEF HistoryInv
<1>10. l - Cardinality(Seen) <= Cardinality(inserted')
  <2>1. inserted' \subseteq 1..m
    BY <1>2, <1>7 DEF HistoryTypes
  <2>2. Cardinality(inserted) <= Cardinality(inserted')
    BY <1>1, <2>1, SmallParts
  <2>3. Cardinality(inserted) \in Nat /\ Cardinality(inserted') \in Nat /\ Cardinality(Seen) \in Nat
    <3>1. inserted \subseteq 1..m /\ Seen \subseteq 1..m
      BY <1>2, <1>6
    <3> QED
      BY <1>1, <2>1, <3>1, Small
  <2>4. l - Cardinality(Seen) <= Cardinality(inserted)
    BY DEF HistoryInv
  <2> QED
    BY <1>4, <2>2, <2>3, <2>4
<1>11. walk.on => inserted' \cup deleted' # {}
  OBVIOUS
<1> QED
  BY <1>5, <1>7, <1>8, <1>9, <1>10, <1>11 DEF HistoryInv

LEMMA FrameInserted ==
  ASSUME HistoryInv, NEW f \in Span, History!Insert(f)
  PROVE  HistoryInv'
<1>1. /\ nextId' = nextId + 1
      /\ frames' = [i \in Rows \cup {nextId} |-> IF i = nextId THEN f ELSE frames[i]]
      /\ inserted' = IF walk.on THEN inserted \cup {nextId} ELSE inserted
      /\ UNCHANGED <<walk, begun, deleted>>
  BY DEF History!Insert, History!Ids, Rows
<1>2. nextId \in Nat \ {0} /\ Rows \subseteq 1..(nextId - 1) /\ \A i \in Rows : frames[i] \in Span
  BY DEF HistoryInv, HistoryTypes
<1>3. Rows' = Rows \cup {nextId} /\ nextId \notin Rows /\ nextId \notin 1..(nextId - 1)
  BY <1>1, <1>2 DEF Rows
<1>4. Rows' \ Rows = {nextId} /\ Rows \ Rows' = {} /\ Rows' # Rows
  BY <1>3
<1>5. \A i \in Rows' : frames'[i] = IF i = nextId THEN f ELSE frames[i]
  BY <1>1, <1>3
<1>6. Rows' \subseteq 1..(nextId' - 1)
  BY <1>1, <1>2, <1>3
<1> QED
  BY <1>1, <1>2, <1>3, <1>4, <1>5, <1>6, TableChanges

LEMMA FramesDeleted ==
  ASSUME HistoryInv, NEW old, old \subseteq Rows, History!Delete(old)
  PROVE  HistoryInv'
<1>1. /\ old # {} /\ frames' = [i \in Rows \ old |-> frames[i]]
      /\ deleted' = IF walk.on THEN deleted \cup old ELSE deleted
      /\ UNCHANGED <<nextId, walk, begun, inserted>>
  BY DEF History!Delete, History!Ids, Rows
<1>2. nextId \in Nat \ {0} /\ Rows \subseteq 1..(nextId - 1) /\ \A i \in Rows : frames[i] \in Span
  BY DEF HistoryInv, HistoryTypes
<1>3. Rows' = Rows \ old
  BY <1>1 DEF Rows
<1>4. Rows' \ Rows = {} /\ Rows \ Rows' = old /\ Rows' # Rows
  BY <1>1, <1>3
<1>5. \A i \in Rows' : i \in Rows /\ frames'[i] = frames[i]
  BY <1>1, <1>3
<1>6. inserted' = IF walk.on THEN inserted \cup (Rows' \ Rows) ELSE inserted
  BY <1>1, <1>4
<1>7. Rows' \subseteq 1..(nextId' - 1) /\ \A i \in Rows' : frames'[i] \in Span
  BY <1>1, <1>2, <1>5
<1>8. (Rows' \ Rows) \cap (1..(nextId - 1)) = {}
  BY <1>4
<1> QED
  BY <1>1, <1>2, <1>4, <1>5, <1>6, <1>7, <1>8, TableChanges

LEMMA WalkBegins ==
  ASSUME HistoryInv, NEW limit \in AskedLimit, History!BeginWalk(limit)
  PROVE  HistoryInv'
<1>1. /\ walk' = [on |-> TRUE, limit |-> History!ParsePage(limit), seen |-> <<>>]
      /\ begun' = Rows /\ inserted' = {} /\ deleted' = {} /\ UNCHANGED <<frames, nextId>>
  BY DEF History!BeginWalk, History!Ids, Rows
<1>2. History!ParsePage(limit) \in Nat \ {0}
  BY HistoryConstants DEF History!ParsePage
<1>3. walk'.seen = <<>> /\ Len(walk'.seen) = 0 /\ walk'.on
  BY <1>1
<1>4. Seen' = {}
  BY <1>3 DEF Seen, History!Range
<1>5. Rows' = Rows
  BY <1>1 DEF Rows
<1>6. HistoryTypes'
  BY <1>1, <1>2, <1>4, <1>5 DEF HistoryInv, HistoryTypes
<1>7. HistoryTypes /\ Table(frames, nextId) /\ nextId \in Nat
  BY FramesTable DEF HistoryInv, HistoryTypes
<1>8. Front(frames, 0) = {}
  BY <1>7, NumberFacts DEF Front
<1>9. Cardinality({}) = 0
  BY FS_EmptySet
<1>10. OnWay(frames, 0, {}, Rows, {}, {})
  <2>1. ((Rows \ {}) \ {}) \cap Front(frames, 0) = {} /\ ({} \cap DOMAIN frames) \ Front(frames, 0) = {}
    BY <1>8
  <2> QED
    BY <1>9, <2>1 DEF OnWay, Rows
<1>11. OnWay(frames, Len(walk.seen), Seen, begun, inserted, deleted)'
  BY <1>1, <1>3, <1>4, <1>10
<1>12. 0 <= Cardinality(Rows)
  BY <1>7, TableNumbers DEF Rows
<1> QED
  BY <1>1, <1>3, <1>4, <1>5, <1>6, <1>9, <1>11, <1>12 DEF HistoryInv

LEMMA MinOfBoth ==
  ASSUME NEW a \in Nat, NEW b \in Nat
  PROVE  History!Min({a, b}) = IF a <= b THEN a ELSE b
BY DEF History!Min

\* A page is the rows after those the walk has gone past, up to the limit.
LEMMA PageFacts ==
  ASSUME HistoryTypes, NEW l \in Nat, NEW limit \in Nat \ {0}
  PROVE  \E k \in Nat :
           /\ k <= Cardinality(Rows) /\ History!Page(l, limit) \in Seq(Nat)
           /\ \/ /\ l < Cardinality(Rows) /\ l < k /\ Len(History!Page(l, limit)) = k - l
                 /\ \A n \in 1..(k - l) : History!Page(l, limit)[n] = OrderOf(frames)[l + n]
              \/ Cardinality(Rows) <= l /\ History!Page(l, limit) = <<>>
<1>1. PICK c \in Nat : c = Cardinality(Rows) /\ c = Cardinality(DOMAIN frames)
  BY FramesTable, TableNumbers DEF Rows
<1>9. PICK from \in Nat, k \in Nat :
        from = (IF l <= c THEN l ELSE c) /\ k = IF l + limit <= c THEN l + limit ELSE c
  OBVIOUS
<1> DEFINE order == OrderOf(frames)
<1>2. History!Page(l, limit) = SubSeq(order, from + 1, k)
  <2>1. History!Min({l, c}) = from /\ History!Min({l + limit, c}) = k
    <3>1. l + limit \in Nat
      OBVIOUS
    <3> QED
      BY <1>9, <3>1, MinOfBoth
  <2>2. History!Cardinality(History!Ids) = c /\ History!Ordered = order
    BY <1>1, OrderedIs
  <2>3. History!Clamp(l, limit, c).from = from /\ History!Clamp(l, limit, c).to = k
    BY <2>1 DEF History!Clamp
  <2> HIDE DEF order
  <2> QED
    BY <2>2, <2>3 DEF History!Page
<1>3. order \in Seq(Nat) /\ Len(order) = c
  <2>1. \A n \in 1..c : order[n] \in Nat
    <3>1. \A n \in 1..c : order[n] \in DOMAIN frames
      BY <1>1, FramesTable, NumberFacts
    <3>2. DOMAIN frames \subseteq Nat
      BY DEF HistoryTypes, Rows
    <3> QED
      BY <3>1, <3>2
  <2>2. order = [n \in 1..c |-> order[n]]
    BY <1>1 DEF OrderOf
  <2> HIDE DEF order
  <2>3. order \in [1..c -> Nat]
    BY <2>1, <2>2
  <2> QED
    BY <2>3
<1>4. k \in Nat /\ k <= c /\ from \in Nat /\ from <= k
  BY <1>9
<1>5. from + 1 \in Nat \ {0} /\ from + 1 <= k + 1 /\ k <= Len(order) /\ k - (from + 1) + 1 = k - from
  BY <1>3, <1>4
<1> HIDE DEF order
<1>6. /\ SubSeq(order, from + 1, k) \in Seq(Nat) /\ Len(SubSeq(order, from + 1, k)) = k - from
      /\ \A n \in 1..(k - from) : SubSeq(order, from + 1, k)[n] = order[from + n]
  <2>1. PICK a \in Nat \ {0} : a = from + 1
    BY <1>4
  <2>2. a <= k + 1 /\ k - a + 1 = k - from /\ \A n \in Nat : a + n - 1 = from + n
    BY <1>4, <2>1
  <2>3. /\ SubSeq(order, a, k) \in Seq(Nat) /\ Len(SubSeq(order, a, k)) = k - a + 1
        /\ \A n \in 1..(k - a + 1) : SubSeq(order, a, k)[n] = order[a + n - 1]
    BY <1>3, <1>4, <2>2, SubSeqFacts
  <2> QED
    BY <2>1, <2>2, <2>3
<1>7. CASE l < c
  <2>1. from = l /\ l < k
    BY <1>7, <1>9
  <2> QED
    BY <1>1, <1>2, <1>4, <1>6, <1>7, <2>1 DEF order
<1>8. CASE c <= l
  <2>1. from = c /\ k = c
    BY <1>8, <1>9
  <2>2. Len(SubSeq(order, from + 1, k)) = 0
    BY <1>6, <2>1
  <2>3. SubSeq(order, from + 1, k) = <<>>
    BY <1>6, <2>2
  <2> QED
    BY <1>1, <1>2, <1>4, <1>6, <1>8, <2>3
<1> QED
  BY <1>7, <1>8

LEMMA WalkEnds ==
  ASSUME HistoryInv, walk.on, Cardinality(Rows) <= Len(walk.seen),
         walk' = [walk EXCEPT !.on = FALSE], UNCHANGED <<frames, nextId, begun, inserted, deleted>>
  PROVE  HistoryInv'
<1>1. HistoryTypes /\ walk \in [on : BOOLEAN, limit : Nat \ {0}, seen : Seq(Nat)]
  BY DEF HistoryInv, HistoryTypes
<1>2. walk'.seen = walk.seen /\ walk'.on = FALSE
      /\ walk' \in [on : BOOLEAN, limit : Nat \ {0}, seen : Seq(Nat)]
  BY <1>1
<1>3. Seen' = Seen /\ Rows' = Rows
  BY <1>2 DEF Seen, Rows
<1>4. HistoryTypes'
  BY <1>1, <1>2, <1>3 DEF HistoryTypes
<1>5. OnWay(frames, Len(walk.seen), Seen, begun, inserted, deleted)
  BY DEF HistoryInv
<1>6. PICK l \in Nat : l = Len(walk.seen)
  BY <1>1
<1>7. Front(frames, l) = DOMAIN frames
  <2>1. \A i \in DOMAIN frames : Number(frames, i) \in 1..Cardinality(DOMAIN frames)
    BY <1>1, FramesTable, NumberFacts
  <2>2. Cardinality(DOMAIN frames) \in Nat /\ Cardinality(DOMAIN frames) <= l
    BY <1>1, <1>6, FramesTable, TableNumbers DEF Rows
  <2>3. \A i \in DOMAIN frames : Number(frames, i) <= l
    BY <2>1, <2>2
  <2> QED
    BY <2>3 DEF Front
<1>8. ((begun \ deleted) \ Seen) \cap Front(frames, l) = (begun \ deleted) \ Seen
  BY <1>5, <1>7 DEF OnWay
<1>9. Cardinality((begun \ deleted) \ Seen) <= Cardinality(deleted)
  BY <1>5, <1>6, <1>8 DEF OnWay
<1> QED
  BY <1>2, <1>3, <1>4, <1>9 DEF HistoryInv

LEMMA PageGiven ==
  ASSUME HistoryInv, History!NextPage
  PROVE  HistoryInv'
<1>1. HistoryTypes /\ walk \in [on : BOOLEAN, limit : Nat \ {0}, seen : Seq(Nat)] /\ nextId \in Nat
  BY DEF HistoryInv, HistoryTypes
<1>2. PICK l \in Nat : l = Len(walk.seen) /\ walk.limit \in Nat \ {0} /\ walk.seen \in Seq(Nat)
  BY <1>1
<1>3. PICK page : page = History!Page(l, walk.limit)
  OBVIOUS
<1>4. /\ walk.on /\ walk' = [walk EXCEPT !.seen = @ \o page, !.on = page # <<>>]
      /\ UNCHANGED <<frames, nextId, begun, inserted, deleted>>
  BY <1>2, <1>3 DEF History!NextPage
<1>5. PICK k \in Nat :
        /\ k <= Cardinality(Rows) /\ page \in Seq(Nat)
        /\ \/ /\ l < Cardinality(Rows) /\ l < k /\ Len(page) = k - l
              /\ \A n \in 1..(k - l) : page[n] = OrderOf(frames)[l + n]
           \/ Cardinality(Rows) <= l /\ page = <<>>
  BY <1>1, <1>2, <1>3, PageFacts
<1>6. CASE Cardinality(Rows) <= l /\ page = <<>>
  <2>1. walk.seen \o page = walk.seen
    BY <1>2, <1>6
  <2>2. walk' = [walk EXCEPT !.on = FALSE]
    BY <1>1, <1>4, <1>6, <2>1
  <2> QED
    BY <1>2, <1>4, <1>6, <2>2, WalkEnds
<1>7. CASE /\ l < k /\ Len(page) = k - l
           /\ \A n \in 1..(k - l) : page[n] = OrderOf(frames)[l + n]
  <2> DEFINE seen == walk.seen \o page
             G == {OrderOf(frames)[n] : n \in (l + 1)..k}
  <2>1. /\ seen \in Seq(Nat) /\ Len(seen) = k
        /\ \A n \in 1..l : seen[n] = walk.seen[n]
        /\ \A n \in 1..(k - l) : seen[l + n] = page[n]
    <3>1. /\ seen \in Seq(Nat) /\ Len(seen) = l + (k - l)
          /\ \A n \in 1..l : seen[n] = walk.seen[n]
          /\ \A n \in 1..(k - l) : seen[l + n] = page[n]
      BY <1>2, <1>5, <1>7, Joined
    <3>2. l + (k - l) = k
      OBVIOUS
    <3> QED
      BY <3>1, <3>2
  <2>2. page # <<>>
    BY <1>5, <1>7
  <2>3. walk'.seen = seen /\ walk'.on = TRUE /\ walk' \in [on : BOOLEAN, limit : Nat \ {0}, seen : Seq(Nat)]
    BY <1>1, <1>4, <2>1, <2>2
  <2> HIDE DEF seen
  <2>4. \A n \in (l + 1)..k : seen[n] = OrderOf(frames)[n]
    <3> SUFFICES ASSUME NEW n \in (l + 1)..k PROVE seen[n] = OrderOf(frames)[n]
      OBVIOUS
    <3>1. PICK h \in 1..(k - l) : n = l + h
      <4>1. n - l \in 1..(k - l) /\ n = l + (n - l)
        OBVIOUS
      <4> QED
        BY <4>1
    <3> QED
      BY <1>7, <2>1, <3>1
  <2>5. Seen' = Seen \cup G
    <3>1. Seen' = {seen[n] : n \in 1..k} /\ Seen = {walk.seen[n] : n \in 1..l}
      BY <1>2, <2>1, <2>3, SeenFacts DEF Seen
    <3>2. \A n \in Nat : n \in 1..k <=> n \in 1..l \/ n \in (l + 1)..k
      BY <1>7
    <3>3. {seen[n] : n \in 1..k} = {seen[n] : n \in 1..l} \cup {seen[n] : n \in (l + 1)..k}
      BY <3>2
    <3>4. {seen[n] : n \in 1..l} = {walk.seen[n] : n \in 1..l}
      BY <2>1
    <3>5. {seen[n] : n \in (l + 1)..k} = G
      BY <2>4
    <3> HIDE DEF G
    <3> QED
      BY <3>1, <3>3, <3>4, <3>5
  <2>6. PICK m \in Nat : m = nextId - 1 /\ Table(frames, m)
    BY <1>1, FramesTable
  <2>7. Cardinality(DOMAIN frames) = Cardinality(Rows) /\ Rows' = Rows /\ Rows = DOMAIN frames
        /\ Cardinality(Rows) \in Nat
    BY <1>4, <2>6, TableNumbers DEF Rows
  <2>8. Seen \cup begun \cup inserted \cup deleted \subseteq 1..m
    BY <1>1, <2>6 DEF HistoryTypes
  <2>9. OnWay(frames, l, Seen, begun, inserted, deleted)
    BY <1>2, <1>4 DEF HistoryInv
  <2>10. OnWay(frames, k, Seen', begun, inserted, deleted)
    BY <1>5, <1>7, <2>5, <2>6, <2>7, <2>8, <2>9, WayGoesOn
  <2>11. G \subseteq Rows
    <3>1. \A n \in (l + 1)..k : n \in 1..Cardinality(DOMAIN frames)
      BY <1>5, <2>7
    <3>2. \A n \in 1..Cardinality(DOMAIN frames) : OrderOf(frames)[n] \in DOMAIN frames
      BY <2>6, NumberFacts
    <3> QED
      BY <2>7, <3>1, <3>2
  <2> HIDE DEF G
  <2>12. HistoryTypes'
    <3>1. Seen' \subseteq 1..m
      BY <1>1, <2>5, <2>6, <2>8, <2>11 DEF HistoryTypes
    <3> QED
      BY <1>1, <1>4, <2>3, <2>6, <2>7, <2>8, <3>1 DEF HistoryTypes
  <2>13. k - Cardinality(Seen') <= Cardinality(inserted)
    <3> DEFINE left == (Seen' \cap DOMAIN frames) \ Front(frames, k)
    <3>1. (k - Cardinality(Seen')) + Cardinality(left) <= Cardinality(inserted)
      BY <2>10 DEF OnWay
    <3>2. Seen' \subseteq 1..m /\ left \subseteq 1..m /\ inserted \subseteq 1..m
      BY <1>4, <2>6, <2>8, <2>12 DEF HistoryTypes
    <3> HIDE DEF left
    <3>3. Cardinality(Seen') \in Nat /\ Cardinality(left) \in Nat /\ Cardinality(inserted) \in Nat
      BY <3>2, Small
    <3> QED
      BY <3>1, <3>3
  <2>14. ASSUME inserted \cup deleted = {}
         PROVE  \A n \in 1..k : seen[n] = OrderOf(frames)[n]
    <3>1. \A n \in 1..l : walk.seen[n] = OrderOf(frames)[n]
      BY <1>2, <1>4, <2>14 DEF HistoryInv
    <3>2. \A n \in 1..k : n \in 1..l \/ n \in (l + 1)..k
      BY <1>7
    <3> QED
      BY <2>1, <2>4, <3>1, <3>2
  <2>15. k <= Cardinality(Rows)
    BY <1>5
  <2>16. Len(walk'.seen) = k
    BY <2>1, <2>3
  <2> QED
    BY <1>4, <2>3, <2>7, <2>10, <2>12, <2>13, <2>14, <2>15, <2>16 DEF HistoryInv
<1> QED
  BY <1>5, <1>6, <1>7

\* What was inserted and deleted accounts for what a walk repeats and misses, for
\* every history, limit and purge.
THEOREM HistoryInvariance == Spec => []HistoryInv
<1>1. Init => HistoryInv
  <2> SUFFICES ASSUME Init PROVE HistoryInv
    OBVIOUS
  <2>1. /\ frames = <<>> /\ nextId = 1 /\ walk = [on |-> FALSE, limit |-> 1, seen |-> <<>>]
        /\ begun = {} /\ inserted = {} /\ deleted = {}
    BY DEF Init, History!Init, History!NoWalk
  <2>2. Seen = {} /\ Rows = {} /\ walk.seen = <<>> /\ walk.on = FALSE
    BY <2>1 DEF Seen, Rows, History!Range
  <2>3. HistoryTypes
    BY <2>1, <2>2 DEF HistoryTypes
  <2>4. (begun \ deleted) \ Seen = {}
    BY <2>1
  <2> QED
    BY <2>1, <2>2, <2>3, <2>4, FS_EmptySet DEF HistoryInv
<1>2. HistoryInv /\ [Next]_vars => HistoryInv'
  <2> SUFFICES ASSUME HistoryInv, [Next]_vars PROVE HistoryInv'
    OBVIOUS
  <2>1. CASE UNCHANGED historyVars
    BY <2>1 DEF historyVars, HistoryInv, HistoryTypes, Seen, Rows
  <2>2. ASSUME NEW f \in Span, History!Insert(f) \/ History!PurgeFramesBefore(f.start) PROVE HistoryInv'
    BY <2>2, FrameInserted, FramesDeleted DEF History!PurgeFramesBefore, History!Ids, Rows
  <2>3. ASSUME NEW id \in 2..MaxFrames, History!DeleteBefore(id) PROVE HistoryInv'
    BY <2>3, FramesDeleted DEF History!DeleteBefore, History!Ids, Rows
  <2>4. ASSUME NEW limit \in AskedLimit, History!BeginWalk(limit) PROVE HistoryInv'
    BY <2>4, WalkBegins
  <2>5. History!Next \/ UNCHANGED historyVars
    BY DEF Next, vars
  <2> QED
    BY <2>1, <2>2, <2>3, <2>4, <2>5, PageGiven DEF History!Next
<1> QED
  BY <1>1, <1>2, PTL DEF Spec

\* A walk through the pages (frame_query.go:103) misses no more than was deleted
\* and repeats no more than was inserted meanwhile, for every history and limit.
THEOREM WalkIsComplete == Spec => []WalkSeesEachOnce
<1>1. HistoryInv => WalkSeesEachOnce
  <2> SUFFICES ASSUME HistoryInv PROVE History!WalkSeesEachOnce
    BY DEF WalkSeesEachOnce
  <2> DEFINE missed == {i \in begun \ deleted : History!Times(i) = 0}
             again == Len(walk.seen) - History!Cardinality(History!Range(walk.seen))
  <2>1. PICK l \in Nat : l = Len(walk.seen) /\ walk.seen \in Seq(Nat)
    BY DEF HistoryInv, HistoryTypes
  <2>2. missed = (begun \ deleted) \ Seen
    <3> SUFFICES ASSUME NEW i PROVE History!Times(i) = 0 <=> i \notin Seen
      OBVIOUS
    <3> DEFINE at == {k \in 1..l : walk.seen[k] = i}
    <3>1. History!Times(i) = Cardinality(at)
      BY <2>1, HistoryCardinality, Zenon DEF History!Times
    <3>2. IsFiniteSet(at)
      <4>1. IsFiniteSet(1..l) /\ at \in SUBSET (1..l)
        BY FS_Interval
      <4> QED
        BY <4>1, FS_Subset
    <3>3. Cardinality(at) = 0 <=> at = {}
      BY <3>2, FS_EmptySet
    <3>4. at = {} <=> i \notin Seen
      BY <2>1, SeenFacts DEF Seen
    <3> QED
      BY <3>1, <3>3, <3>4
  <2>3. ~walk.on => History!Cardinality(missed) <= History!Cardinality(deleted)
    <3>1. ~walk.on => Cardinality((begun \ deleted) \ Seen) <= Cardinality(deleted)
      BY DEF HistoryInv
    <3>2. History!Cardinality(missed) = Cardinality((begun \ deleted) \ Seen)
      BY <2>2, HistoryCardinality, Zenon
    <3>3. History!Cardinality(deleted) = Cardinality(deleted)
      BY HistoryCardinality, Zenon
    <3> HIDE DEF missed
    <3> QED
      BY <3>1, <3>2, <3>3
  <2>4. again <= History!Cardinality(inserted)
    <3>1. Len(walk.seen) - Cardinality(Seen) <= Cardinality(inserted)
      BY DEF HistoryInv
    <3>2. History!Cardinality(History!Range(walk.seen)) = Cardinality(Seen)
      BY HistoryCardinality, Zenon DEF Seen
    <3>3. History!Cardinality(inserted) = Cardinality(inserted)
      BY HistoryCardinality, Zenon
    <3> QED
      BY <3>1, <3>2, <3>3
  <2>5. (walk.on /\ inserted \cup deleted = {}) =>
           walk.seen = SubSeq(History!Ordered, 1, Len(walk.seen))
    <3> SUFFICES ASSUME walk.on, inserted \cup deleted = {}
                 PROVE  walk.seen = SubSeq(OrderOf(frames), 1, l)
      BY <2>1, OrderedIs
    <3>1. l <= Cardinality(Rows) /\ \A n \in 1..l : walk.seen[n] = OrderOf(frames)[n]
      BY <2>1 DEF HistoryInv
    <3>2. PICK c \in Nat : c = Cardinality(DOMAIN frames) /\ l <= c
      BY <3>1, FramesTable, TableNumbers DEF HistoryInv, Rows
    <3> DEFINE order == OrderOf(frames)
    <3>3. order \in Seq(Nat) /\ Len(order) = c
      <4>1. \A n \in 1..c : order[n] \in DOMAIN frames
        BY <3>2, FramesTable, NumberFacts DEF HistoryInv
      <4>2. DOMAIN frames \subseteq Nat
        BY DEF HistoryInv, HistoryTypes, Rows
      <4>3. order = [n \in 1..c |-> order[n]]
        BY <3>2 DEF OrderOf
      <4> HIDE DEF order
      <4>4. order \in [1..c -> Nat]
        BY <4>1, <4>2, <4>3
      <4> QED
        BY <4>4
    <3> HIDE DEF order
    <3>4. /\ SubSeq(order, 1, l) \in Seq(Nat) /\ Len(SubSeq(order, 1, l)) = l - 1 + 1
          /\ \A n \in 1..(l - 1 + 1) : SubSeq(order, 1, l)[n] = order[1 + n - 1]
      <4>1. 1 \in Nat \ {0} /\ 1 <= l + 1 /\ l <= Len(order)
        BY <3>2, <3>3
      <4> QED
        BY <3>3, <4>1, SubSeqFacts
    <3>5. \A n \in 1..l : n \in 1..(l - 1 + 1) /\ order[1 + n - 1] = order[n]
      OBVIOUS
    <3>6. l - 1 + 1 = l
      OBVIOUS
    <3>7. \A n \in 1..l : walk.seen[n] = SubSeq(order, 1, l)[n]
      BY <3>1, <3>4, <3>5 DEF order
    <3>8. Len(SubSeq(order, 1, l)) = Len(walk.seen)
      BY <2>1, <3>4, <3>6
    <3> QED
      BY <2>1, <3>4, <3>7, <3>8, SameSeq DEF order
  <2> QED
    BY <2>3, <2>4, <2>5, Zenon DEF History!WalkSeesEachOnce
<1> QED
  BY <1>1, HistoryInvariance, PTL
=============================================================================
