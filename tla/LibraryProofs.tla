---------------------------- MODULE LibraryProofs ----------------------------
(***************************************************************************)
(* What holds of the parts of ServiceLibrary for every value of their      *)
(* constants.                                                              *)
(***************************************************************************)
EXTENDS ServiceLibrary, CountingLemmas
-----------------------------------------------------------------------------
(* The tuned rules. *)

Known == Profile \cup {Tuning!Default, Tuning!Plain}

Wrap == [profile : Known, suppress : BOOLEAN]

\* One profile for all rules; without one nothing is suppressed.
Uniform(wraps) ==
  /\ wraps \in [1..5 -> Wrap]
  /\ \A k \in 1..5 : /\ wraps[k].profile = wraps[1].profile
                     /\ wraps[k].profile = Tuning!Plain => ~wraps[k].suppress

\* What an Evaluate has found among the rules it has come to.
JudgedSoFar(now, done) ==
  LET kept == {r \in done : /\ Tuning!Fires(r, now.fc)
                            /\ now.profile # Tuning!Plain => ~Tuning!Below(r, now.profile, now.fc)}
      warns == {r \in done : Tuning!Severity[r] = "warn"}
  IN  /\ now.found \subseteq kept /\ kept \ warns \subseteq now.found
      /\ TRUE \notin now.values \/ now.profile = Tuning!Plain => now.found = kept
      /\ FALSE \notin now.values => now.found \cap warns = {}

Toggling == [next : 1..5, to : BOOLEAN]

Judging == [next : 1..5, fc : Context, found : SUBSET Tuning!Range(Tuning!Rules),
            old : {<<>>} \cup [1..5 -> Wrap], profile : Known, values : SUBSET BOOLEAN]

Verdict == [fc : Context, found : SUBSET Tuning!Range(Tuning!Rules), profile : Known,
            values : SUBSET BOOLEAN]

RulesUniform ==
  /\ stored \in [Station -> Profile \cup {Tuning!Plain}] /\ Uniform(rules)
  /\ toggling \in {Tuning!NoJob} \cup Toggling

\* The slice an Evaluate ranges over is of the profile it began with, and the
\* values its rules have, or are about to get, are noted.
Ranged == IF judging.old = <<>> THEN rules ELSE judging.old

Done == {Tuning!Rules[k] : k \in 1..(judging.next - 1)}

JudgingHolds ==
  judging # Tuning!NoJob =>
    /\ judging \in Judging /\ Uniform(Ranged) /\ judging.profile = Ranged[1].profile
    /\ \A k \in 1..5 : Ranged[k].suppress \in judging.values
    /\ judging.old = <<>> /\ toggling # Tuning!NoJob => toggling.to \in judging.values
    /\ JudgedSoFar(judging, Done)

VerdictHolds ==
  verdict # Tuning!NoJob =>
    verdict \in Verdict /\ JudgedSoFar(verdict, Tuning!Range(Tuning!Rules))

TuningInv == RulesUniform /\ JudgingHolds /\ VerdictHolds

LEMMA RulesFacts ==
  /\ Len(Tuning!Rules) = 5 /\ \A k \in 1..5 : Tuning!Rules[k] \in Tuning!Range(Tuning!Rules)
  /\ Tuning!Range(Tuning!Rules) = {Tuning!Rules[k] : k \in 1..5}
BY DEF Tuning!Rules, Tuning!Range

LEMMA FindsOne ==
  ASSUME NEW rule, NEW wrap \in Wrap, NEW fc
  PROVE  Tuning!Finds(rule, wrap, fc) <=>
           /\ Tuning!Fires(rule, fc)
           /\ wrap.profile # Tuning!Plain =>
                ~Tuning!Below(rule, wrap.profile, fc)
                /\ ~(Tuning!Severity[rule] = "warn" /\ wrap.suppress)
BY Zenon DEF Tuning!Finds

\* One turn of the loop keeps what was found so far right.
LEMMA JudgeOne ==
  ASSUME NEW now, NEW later, NEW done, NEW rule, NEW wrap \in Wrap, JudgedSoFar(now, done),
         wrap.profile = now.profile, wrap.profile = Tuning!Plain => ~wrap.suppress,
         wrap.suppress \in now.values,
         later.fc = now.fc, later.profile = now.profile, later.values = now.values,
         later.found = now.found \cup
                         IF Tuning!Finds(rule, wrap, now.fc) THEN {rule} ELSE {}
  PROVE  JudgedSoFar(later, done \cup {rule})
<1> DEFINE keeps(r) == /\ Tuning!Fires(r, now.fc)
                       /\ now.profile # Tuning!Plain => ~Tuning!Below(r, now.profile, now.fc)
           kept(D) == {r \in D : keeps(r)}
           warns(D) == {r \in D : Tuning!Severity[r] = "warn"}
           found == IF Tuning!Finds(rule, wrap, now.fc) THEN {rule} ELSE {}
<1>1. /\ now.found \subseteq kept(done) /\ kept(done) \ warns(done) \subseteq now.found
      /\ TRUE \notin now.values \/ now.profile = Tuning!Plain => now.found = kept(done)
      /\ FALSE \notin now.values => now.found \cap warns(done) = {}
  BY DEF JudgedSoFar
<1>2. wrap.suppress \in BOOLEAN
  BY DEF Wrap
<1>3. Tuning!Finds(rule, wrap, now.fc) => keeps(rule)
  BY FindsOne
<1>4. keeps(rule) /\ Tuning!Severity[rule] # "warn" => Tuning!Finds(rule, wrap, now.fc)
  BY FindsOne
<1>5. keeps(rule) /\ (TRUE \notin now.values \/ now.profile = Tuning!Plain)
        => Tuning!Finds(rule, wrap, now.fc)
  BY <1>2, FindsOne
<1>6. FALSE \notin now.values /\ Tuning!Severity[rule] = "warn" => ~Tuning!Finds(rule, wrap, now.fc)
  BY <1>2, FindsOne
<1> HIDE DEF keeps
<1>7. /\ later.found \subseteq kept(done \cup {rule})
      /\ kept(done \cup {rule}) \ warns(done \cup {rule}) \subseteq later.found
  BY <1>1, <1>3, <1>4
<1>8. TRUE \notin later.values \/ later.profile = Tuning!Plain =>
        later.found = kept(done \cup {rule})
  BY <1>1, <1>3, <1>5
<1>9. FALSE \notin later.values => later.found \cap warns(done \cup {rule}) = {}
  BY <1>1, <1>6
<1> QED
  BY <1>7, <1>8, <1>9 DEF JudgedSoFar, keeps

\* Nothing but what was found, judged with, and noted matters.
LEMMA JudgedSame ==
  ASSUME NEW now, NEW later, NEW done, JudgedSoFar(now, done), later.fc = now.fc,
         later.found = now.found, later.profile = now.profile, now.values \subseteq later.values
  PROVE  JudgedSoFar(later, done)
BY DEF JudgedSoFar

LEMMA UniformFacts ==
  ASSUME NEW wraps, Uniform(wraps)
  PROVE  wraps # <<>> /\ DOMAIN wraps = 1..5 /\ \A k \in 1..5 : wraps[k] \in Wrap
<1>1. DOMAIN wraps = 1..5 /\ 1 \in 1..5
  BY DEF Uniform
<1>2. DOMAIN <<>> = {}
  OBVIOUS
<1> QED
  BY <1>1, <1>2 DEF Uniform

LEMMA JudgingFacts ==
  ASSUME NEW now \in Judging
  PROVE  /\ now.next \in 1..5 /\ now.fc \in Context /\ now.found \subseteq Tuning!Range(Tuning!Rules)
         /\ now.old = <<>> \/ now.old \in [1..5 -> Wrap]
         /\ now.profile \in Known /\ now.values \subseteq BOOLEAN
BY DEF Judging

LEMMA TuningInitial == Tuning!Init => TuningInv
<1> SUFFICES ASSUME Tuning!Init PROVE TuningInv
  OBVIOUS
<1>1. rules = [k \in 1..5 |-> Tuning!Unwrapped]
  BY RulesFacts DEF Tuning!Init
<1>2. Tuning!Unwrapped \in Wrap /\ ~Tuning!Unwrapped.suppress
  BY DEF Tuning!Unwrapped, Wrap, Known
<1>3. Uniform(rules)
  BY <1>1, <1>2 DEF Uniform
<1> QED
  BY <1>3 DEF Tuning!Init, TuningInv, RulesUniform, JudgingHolds, VerdictHolds

LEMMA TuningUpsert ==
  ASSUME TuningInv, NEW s \in Station, NEW p \in Profile, Tuning!UpsertThresholdProfile(s, p)
  PROVE  TuningInv'
<1>1. RulesUniform'
  BY DEF TuningInv, RulesUniform, Tuning!UpsertThresholdProfile, Uniform
<1>2. UNCHANGED <<rules, toggling, judging, verdict>>
  BY DEF Tuning!UpsertThresholdProfile
<1>3. Ranged' = Ranged /\ Done' = Done
  BY <1>2 DEF Ranged, Done
<1>4. JudgingHolds'
  BY <1>2, <1>3 DEF TuningInv, JudgingHolds, Uniform, JudgedSoFar
<1> QED
  BY <1>1, <1>2, <1>4 DEF TuningInv, VerdictHolds, JudgedSoFar

LEMMA TuningApply ==
  ASSUME TuningInv, NEW p \in Profile \cup {Tuning!Plain, Tuning!Default}, Tuning!Apply(p)
  PROVE  TuningInv'
<1>1. Uniform(rules)
  BY DEF TuningInv, RulesUniform
<1>2. Uniform(rules')
  <2> DEFINE wrap == IF p = Tuning!Plain THEN Tuning!Unwrapped ELSE [profile |-> p, suppress |-> FALSE]
  <2>1. rules' = [k \in 1..5 |-> wrap]
    BY <1>1, UniformFacts DEF Tuning!Apply
  <2>2. wrap \in Wrap /\ ~wrap.suppress
    BY DEF Tuning!Unwrapped, Wrap, Known
  <2> HIDE DEF wrap
  <2> QED
    BY <2>1, <2>2 DEF Uniform
<1>3. UNCHANGED <<stored, toggling, verdict>> /\ toggling = Tuning!NoJob
  BY DEF Tuning!Apply
<1>4. ASSUME judging' # Tuning!NoJob
      PROVE  JudgingHolds'
  <2>1. judging # Tuning!NoJob
    BY <1>4 DEF Tuning!Apply
  <2>2. judging \in Judging /\ JudgedSoFar(judging, Done)
    BY <2>1 DEF TuningInv, JudgingHolds
  <2>3. /\ judging' \in Judging /\ judging'.next = judging.next /\ judging'.fc = judging.fc
        /\ judging'.found = judging.found /\ judging'.profile = judging.profile
        /\ judging'.values = judging.values /\ judging'.old = Ranged /\ Ranged # <<>>
    <3>1. CASE judging.old = <<>>
      <4>1. judging' = [judging EXCEPT !.old = rules]
        BY <2>1, <3>1 DEF Tuning!Apply
      <4> QED
        BY <1>1, <2>2, <3>1, <4>1, UniformFacts DEF Judging, Ranged, Uniform
    <3>2. CASE judging.old # <<>>
      BY <2>2, <3>2 DEF Tuning!Apply, Ranged
    <3> QED
      BY <3>1, <3>2
  <2>4. Ranged' = Ranged /\ Done' = Done
    BY <2>3 DEF Ranged, Done
  <2>5. JudgedSoFar(judging', Done)
    BY <2>2, <2>3, JudgedSame
  <2>6. JudgedSoFar(judging, Done)'
    BY <2>4, <2>5 DEF JudgedSoFar
  <2> QED
    BY <1>3, <2>1, <2>3, <2>4, <2>6 DEF TuningInv, JudgingHolds, Uniform
<1> QED
  BY <1>2, <1>3, <1>4 DEF TuningInv, RulesUniform, JudgingHolds, VerdictHolds, JudgedSoFar, Uniform

LEMMA TuningSetSuppress ==
  ASSUME TuningInv, NEW b \in BOOLEAN, Tuning!SetEngineSuppressWarn(b)
  PROVE  TuningInv'
<1>1. UNCHANGED <<stored, rules, verdict>> /\ toggling = Tuning!NoJob
      /\ toggling' = [next |-> 1, to |-> b]
  BY DEF Tuning!SetEngineSuppressWarn
<1>2. toggling' \in Toggling /\ toggling'.to = b
  BY <1>1 DEF Toggling
<1>3. ASSUME judging' # Tuning!NoJob
      PROVE  JudgingHolds'
  <2>1. judging # Tuning!NoJob
    BY <1>3 DEF Tuning!SetEngineSuppressWarn
  <2>2. judging \in Judging /\ JudgedSoFar(judging, Done)
    BY <2>1 DEF TuningInv, JudgingHolds
  <2>3. /\ judging' \in Judging /\ judging'.next = judging.next /\ judging'.fc = judging.fc
        /\ judging'.found = judging.found /\ judging'.profile = judging.profile
        /\ judging.values \subseteq judging'.values /\ judging'.old = judging.old
        /\ judging.old = <<>> => b \in judging'.values
    <3>1. CASE judging.old = <<>>
      <4>1. judging' = [judging EXCEPT !.values = @ \cup {b}]
        BY <2>1, <3>1 DEF Tuning!SetEngineSuppressWarn
      <4> QED
        BY <2>2, <4>1 DEF Judging
    <3>2. CASE judging.old # <<>>
      BY <2>2, <3>2 DEF Tuning!SetEngineSuppressWarn
    <3> QED
      BY <3>1, <3>2
  <2>4. Ranged' = Ranged /\ Done' = Done
    BY <1>1, <2>3 DEF Ranged, Done
  <2>5. JudgedSoFar(judging', Done)
    BY <2>2, <2>3, JudgedSame
  <2>6. JudgedSoFar(judging, Done)'
    BY <2>4, <2>5 DEF JudgedSoFar
  <2> QED
    BY <1>2, <2>1, <2>3, <2>4, <2>6 DEF TuningInv, JudgingHolds, Uniform
<1> QED
  BY <1>1, <1>2, <1>3 DEF TuningInv, RulesUniform, JudgingHolds, VerdictHolds, JudgedSoFar, Uniform

LEMMA TuningToggle ==
  ASSUME TuningInv, Tuning!Toggle
  PROVE  TuningInv'
<1> DEFINE k == toggling.next
<1>1. toggling \in Toggling /\ Uniform(rules) /\ toggling # Tuning!NoJob
  BY DEF TuningInv, RulesUniform, Tuning!Toggle
<1>2. k \in 1..5 /\ toggling.to \in BOOLEAN
  BY <1>1 DEF Toggling
<1>3. UNCHANGED <<stored, judging, verdict>>
  BY DEF Tuning!Toggle
<1>4. toggling' = Tuning!NoJob \/ (toggling' \in Toggling /\ toggling'.to = toggling.to)
  <2>1. \/ k = 5 /\ toggling' = Tuning!NoJob
        \/ k # 5 /\ toggling' = [toggling EXCEPT !.next = k + 1]
    BY RulesFacts DEF Tuning!Toggle
  <2> QED
    BY <1>1, <1>2, <2>1 DEF Toggling
<1>5. /\ rules' \in [1..5 -> Wrap] /\ \A j \in 1..5 : rules'[j].profile = rules[j].profile
      /\ \A j \in 1..5 : rules'[j].suppress \in {rules[j].suppress, toggling.to}
      /\ \A j \in 1..5 : rules[j].profile = Tuning!Plain => rules'[j] = rules[j]
  <2>1. CASE rules[k].profile = Tuning!Plain
    BY <1>1, <2>1 DEF Tuning!Toggle, Uniform
  <2>2. CASE rules[k].profile # Tuning!Plain
    <3>1. rules' = [rules EXCEPT ![k].suppress = toggling.to]
      BY <2>2 DEF Tuning!Toggle
    <3> QED
      BY <1>1, <1>2, <2>2, <3>1 DEF Uniform, Wrap
  <2> QED
    BY <2>1, <2>2
<1>6. Uniform(rules')
  BY <1>1, <1>5 DEF Uniform
<1>7. ASSUME judging' # Tuning!NoJob
      PROVE  JudgingHolds'
  <2>1. judging # Tuning!NoJob
    BY <1>3, <1>7
  <2>2. Uniform(Ranged') /\ Ranged'[1].profile = Ranged[1].profile
    BY <1>3, <1>5, <1>6, <2>1 DEF Ranged, TuningInv, JudgingHolds
  <2>3. \A j \in 1..5 : Ranged'[j].suppress \in judging.values
    BY <1>1, <1>3, <1>5, <2>1 DEF Ranged, TuningInv, JudgingHolds
  <2> QED
    BY <1>3, <1>4, <1>1, <2>1, <2>2, <2>3 DEF TuningInv, JudgingHolds, JudgedSoFar, Done, Uniform
<1> QED
  BY <1>3, <1>4, <1>6, <1>7 DEF TuningInv, RulesUniform, JudgingHolds, VerdictHolds, JudgedSoFar, Uniform

LEMMA TuningBegin ==
  ASSUME TuningInv, NEW fc \in Context, Tuning!Begin(fc)
  PROVE  TuningInv'
<1>1. UNCHANGED <<stored, rules, toggling>> /\ verdict' = Tuning!NoJob
  BY DEF Tuning!Begin
<1>2. Uniform(rules) /\ toggling \in {Tuning!NoJob} \cup Toggling
  BY DEF TuningInv, RulesUniform
<1>3. DOMAIN rules = 1..5 /\ \A k \in 1..5 : rules[k] \in Wrap
  BY <1>2, UniformFacts
<1>4. PICK values : values = {rules[k].suppress : k \in DOMAIN rules}
                              \cup IF toggling = Tuning!NoJob THEN {} ELSE {toggling.to}
  OBVIOUS
<1>5. /\ values \subseteq BOOLEAN /\ \A k \in 1..5 : rules[k].suppress \in values
      /\ toggling # Tuning!NoJob => toggling.to \in values
  BY <1>2, <1>3, <1>4 DEF Wrap, Toggling
<1>6. judging' = [next |-> 1, fc |-> fc, found |-> {}, old |-> <<>>,
                  profile |-> rules[1].profile, values |-> values]
  BY <1>4 DEF Tuning!Begin
<1>7. /\ judging' \in Judging /\ judging'.next = 1 /\ judging'.fc = fc /\ judging'.found = {}
      /\ judging'.old = <<>> /\ judging'.profile = rules[1].profile /\ judging'.values = values
  BY <1>3, <1>5, <1>6 DEF Judging, Wrap
<1>8. Ranged' = rules' /\ Done' = {}
  BY <1>7 DEF Ranged, Done
<1>9. JudgedSoFar(judging, Done)'
  BY <1>7, <1>8 DEF JudgedSoFar
<1>10. JudgingHolds'
  BY <1>1, <1>2, <1>5, <1>7, <1>8, <1>9 DEF JudgingHolds, Uniform
<1> QED
  BY <1>1, <1>10 DEF TuningInv, RulesUniform, VerdictHolds, Uniform

LEMMA TuningJudge ==
  ASSUME TuningInv, Tuning!Judge
  PROVE  TuningInv'
<1> DEFINE k == judging.next
           wrap == Ranged[k]
           found == judging.found \cup IF Tuning!Finds(Tuning!Rules[k], wrap, judging.fc)
                                      THEN {Tuning!Rules[k]} ELSE {}
           later == [judging EXCEPT !.next = k + 1, !.found = found]
<1>1. /\ judging # Tuning!NoJob /\ judging \in Judging /\ Uniform(Ranged)
      /\ judging.profile = Ranged[1].profile
      /\ \A j \in 1..5 : Ranged[j].suppress \in judging.values
      /\ JudgedSoFar(judging, Done)
  BY DEF TuningInv, JudgingHolds, Tuning!Judge
<1>2. /\ k \in 1..5 /\ judging.fc \in Context /\ judging.found \subseteq Tuning!Range(Tuning!Rules)
      /\ judging.profile \in Known /\ judging.values \subseteq BOOLEAN
  BY <1>1, JudgingFacts
<1>3. /\ wrap \in Wrap /\ wrap.profile = judging.profile /\ wrap.suppress \in judging.values
      /\ wrap.profile = Tuning!Plain => ~wrap.suppress
  BY <1>1, <1>2 DEF Uniform
<1>4. UNCHANGED <<stored, rules, toggling>>
  BY DEF Tuning!Judge
<1>5. \/ k < 5 /\ judging' = later /\ UNCHANGED verdict
      \/ /\ k = 5 /\ judging' = Tuning!NoJob
         /\ verdict' = [fc |-> judging.fc, found |-> found, profile |-> judging.profile,
                        values |-> judging.values]
  BY <1>2, RulesFacts DEF Tuning!Judge, Ranged
<1>6. found \subseteq Tuning!Range(Tuning!Rules)
  BY <1>2, RulesFacts
<1>7. Done \cup {Tuning!Rules[k]} = {Tuning!Rules[j] : j \in 1..k}
  BY <1>2 DEF Done
<1> HIDE DEF wrap
<1>8. CASE k < 5
  <2>1. judging' = later /\ UNCHANGED verdict
    BY <1>5, <1>8
  <2> HIDE DEF found
  <2>2. /\ judging' \in Judging /\ judging'.next = k + 1 /\ judging'.fc = judging.fc
        /\ judging'.found = found /\ judging'.profile = judging.profile
        /\ judging'.values = judging.values /\ judging'.old = judging.old
    <3>1. k + 1 \in 1..5 /\ found \in SUBSET Tuning!Range(Tuning!Rules)
      BY <1>2, <1>6, <1>8
    <3>2. PICK n : n = k + 1
      OBVIOUS
    <3>3. judging' = [judging EXCEPT !.next = n, !.found = found]
      BY <2>1, <3>2
    <3> QED
      BY <1>1, <3>1, <3>2, <3>3 DEF Judging
  <2>3. JudgedSoFar(judging', Done \cup {Tuning!Rules[k]})
    BY <1>1, <1>3, <2>2, JudgeOne DEF found
  <2>4. Ranged' = Ranged /\ Done' = Done \cup {Tuning!Rules[k]}
    BY <1>2, <1>4, <1>7, <2>2 DEF Ranged, Done
  <2>5. JudgedSoFar(judging, Done)'
    BY <2>3, <2>4 DEF JudgedSoFar
  <2>6. JudgingHolds'
    BY <1>1, <1>4, <2>2, <2>4, <2>5 DEF TuningInv, JudgingHolds, Uniform
  <2> QED
    BY <1>4, <2>1, <2>6 DEF TuningInv, RulesUniform, VerdictHolds, JudgedSoFar, Uniform
<1>9. CASE k = 5
  <2>1. /\ judging' = Tuning!NoJob
        /\ verdict' = [fc |-> judging.fc, found |-> found, profile |-> judging.profile,
                       values |-> judging.values]
    BY <1>5, <1>9
  <2> HIDE DEF found
  <2>2. /\ verdict' \in Verdict /\ verdict'.fc = judging.fc /\ verdict'.found = found
        /\ verdict'.profile = judging.profile /\ verdict'.values = judging.values
    BY <1>2, <1>6, <2>1 DEF Verdict
  <2>3. JudgedSoFar(verdict', Done \cup {Tuning!Rules[k]})
    BY <1>1, <1>3, <2>2, JudgeOne DEF found
  <2>4. JudgedSoFar(verdict, Tuning!Range(Tuning!Rules))'
    BY <1>7, <1>9, <2>3, RulesFacts DEF JudgedSoFar
  <2> QED
    BY <1>4, <2>1, <2>2, <2>4 DEF TuningInv, RulesUniform, JudgingHolds, VerdictHolds, Uniform
<1> QED
  BY <1>2, <1>8, <1>9

LEMMA TuningStep == TuningInv /\ [LibraryNext]_libraryVars => TuningInv'
<1> SUFFICES ASSUME TuningInv, [LibraryNext]_libraryVars PROVE TuningInv'
  OBVIOUS
<1>1. Tuning!Next \/ UNCHANGED tuningVars
  BY DEF LibraryNext, libraryVars
<1>2. CASE UNCHANGED tuningVars
  BY <1>2 DEF tuningVars, TuningInv, RulesUniform, JudgingHolds, VerdictHolds, Uniform, JudgedSoFar,
              Ranged, Done
<1>3. ASSUME NEW s \in Station, NEW p \in Profile, Tuning!UpsertThresholdProfile(s, p) PROVE TuningInv'
  BY <1>3, TuningUpsert
<1>4. ASSUME Tuning!ApplyProfile PROVE TuningInv'
  <2>1. \A s \in Station : Tuning!Effective(s) \in Profile \cup {Tuning!Plain, Tuning!Default}
    BY DEF Tuning!Effective, TuningInv, RulesUniform
  <2> QED
    BY <1>4, <2>1, TuningApply DEF Tuning!ApplyProfile
<1>5. ASSUME NEW b \in BOOLEAN, Tuning!SetEngineSuppressWarn(b) PROVE TuningInv'
  BY <1>5, TuningSetSuppress
<1>6. ASSUME NEW fc \in Context, Tuning!Begin(fc) PROVE TuningInv'
  BY <1>6, TuningBegin
<1> QED
  BY <1>1, <1>2, <1>3, <1>4, <1>5, <1>6, TuningToggle, TuningJudge DEF Tuning!Next

\* An Evaluate ranges over rules of the one profile it began with, and what it
\* has found so far is right for it, whatever is tuned meanwhile.
THEOREM TuningInvariance == LibrarySpec => []TuningInv
<1>1. LibraryInit => TuningInv
  BY TuningInitial DEF LibraryInit
<1> QED
  BY <1>1, TuningStep, PTL DEF LibrarySpec

LEMMA EmptySeq ==
  ASSUME NEW S, NEW s \in Seq(S), Len(s) = 0
  PROVE  s = <<>>
OBVIOUS

LEMMA SumRMSType ==
  ASSUME NEW history \in Seq([rms : Nat])
  PROVE  Tuning!SumRMS(history) \in Int
<1> DEFINE N == Len(history)
           sum[i \in 0..N] == IF i = 0 THEN 0 ELSE sum[i - 1] + history[i].rms
           step == [i \in 1..N |-> [x \in Int |-> x + history[i].rms]]
<1>1. N \in Nat /\ \A i \in 1..N : history[i].rms \in Nat
  <2>1. N \in Nat /\ \A i \in 1..N : history[i] \in [rms : Nat]
    BY SeqElements
  <2> QED
    BY <2>1
<1>2. step \in [1..N -> [Int -> Int]]
  BY <1>1
<1> HIDE DEF N, step, sum
<1>0. 0 \in Int
  OBVIOUS
<1>3. PICK f : Solves(f, N, Int, 0, step)
  BY <1>0, <1>1, <1>2, Recursion
<1>4. f = [i \in 0..N |-> IF i = 0 THEN 0 ELSE f[i - 1] + history[i].rms]
  <2>1. \A i \in 1..N : step[i][f[i - 1]] = f[i - 1] + history[i].rms
    <3> TAKE i \in 1..N
    <3>1. i - 1 \in 0..N /\ f[i - 1] \in Int
      BY <1>1, <1>3 DEF Solves
    <3>2. step[i] = [x \in Int |-> x + history[i].rms]
      BY DEF step
    <3> QED
      BY <3>1, <3>2
  <2>2. \A i \in 0..N : i # 0 => i \in 1..N
    BY <1>1
  <2> QED
    BY <1>3, <2>1, <2>2 DEF Solves
<1>5. sum = [i \in 0..N |-> IF i = 0 THEN 0 ELSE sum[i - 1] + history[i].rms]
  BY <1>4, Zenon DEF sum
<1> DEFINE A == {i \in Nat : i <= N => sum[i] \in Int}
<1>6. 0 \in A
  BY <1>1, <1>5
<1>7. ASSUME NEW i \in Nat, i \in A, i + 1 <= N PROVE sum[i + 1] \in Int
  <2>1. sum[i + 1] = sum[i] + history[i + 1].rms /\ i + 1 \in 1..N /\ sum[i] \in Int
    BY <1>1, <1>5, <1>7
  <2> QED
    BY <1>1, <2>1
<1>8. \A i \in Nat : i \in A => i + 1 \in A
  BY <1>7
<1> HIDE DEF A
<1>9. N \in A
  BY <1>1, <1>6, <1>8, Induction
<1> QED
  BY <1>1, <1>9 DEF A, N, Tuning!SumRMS, sum

LEMMA RMSDriftAboveDefault ==
  ASSUME NEW rms \in Int, NEW n \in Nat, NEW sum \in Int, n >= 10, sum > 0, rms * n > 3 * sum
  PROVE  rms > 0 /\ ~(rms * n < 3 * sum)
<1>1. ASSUME rms <= 0 PROVE rms * n <= 0
  BY <1>1
<1>2. rms * n \in Int
  OBVIOUS
<1> QED
  BY <1>1, <1>2

\* The default profile has the thresholds the rules have.
LEMMA DefaultTakesNothing ==
  ASSUME LibraryAssumption, NEW r \in Tuning!Range(Tuning!Rules), NEW fc \in Context, Tuning!Fires(r, fc)
  PROVE  ~Tuning!Below(r, Tuning!Default, fc)
<1>1. /\ fc.frame.max \in Int /\ fc.frame.min \in Int /\ fc.frame.rms \in Int /\ fc.gap \in Int
      /\ fc.history \in Seq([rms : Nat])
  BY DEF LibraryAssumption, Tuning!TuningParameters
<1>2. /\ Tuning!Default.spike = 1000000 /\ Tuning!Default.clipping = 900000
      /\ Tuning!Default.gap = 5000 /\ Tuning!Default.ratio = 3
  BY DEF Tuning!Default
<1>3. CASE r = "SPIKE"
  BY <1>1, <1>2, <1>3 DEF Tuning!Fires, Tuning!SpikeFires, Tuning!Below
<1>4. CASE r = "CLIPPING"
  BY <1>1, <1>2, <1>4 DEF Tuning!Fires, Tuning!ClippingFires, Tuning!Below, Tuning!Abs
<1>5. CASE r = "GAP"
  BY <1>1, <1>2, <1>5 DEF Tuning!Fires, Tuning!GapFires, Tuning!Below
<1>6. CASE r = "RMS_DRIFT"
  <2> DEFINE n == Len(fc.history)
             sum == Tuning!SumRMS(fc.history)
             h == fc.history
  <2>1. n \in Nat /\ sum \in Int
    BY <1>1, SeqElements, SumRMSType
  <2>2. n >= 10 /\ sum > 0 /\ fc.frame.rms * n > 3 * sum
    BY <1>6 DEF Tuning!Fires, Tuning!RMSDriftFires
  <2>3. h # <<>>
    <3>1. Len(<<>>) = 0
      OBVIOUS
    <3> QED
      BY <2>1, <2>2, <3>1
  <2>4. Tuning!Below(r, Tuning!Default, fc) <=>
          h = <<>> \/ fc.frame.rms <= 0 \/ sum <= 0 \/ fc.frame.rms * n < 3 * sum
    BY <1>2, <1>6 DEF Tuning!Below, Tuning!RMSDriftBelow
  <2> HIDE DEF n, sum, h
  <2>5. fc.frame.rms > 0 /\ ~(fc.frame.rms * n < 3 * sum)
    BY <1>1, <2>1, <2>2, RMSDriftAboveDefault
  <2> QED
    BY <1>1, <2>1, <2>2, <2>3, <2>4, <2>5
<1>7. CASE r = "SENSITIVITY_DRIFT"
  BY <1>7 DEF Tuning!Below
<1> QED
  BY <1>3, <1>4, <1>5, <1>6, <1>7 DEF Tuning!Range, Tuning!Rules

\* A frame is judged by the one profile that was in force when its judgement
\* began: tuning takes away what that profile says and no more, and the default
\* profile nothing (qc_rule_tuning.go:96), for every profile and frame.
THEOREM OneProfileJudges == LibrarySpec => []JudgedByOneProfile
<1>1. ASSUME TuningInv PROVE JudgedByOneProfile
  <2> SUFFICES ASSUME verdict # Tuning!NoJob
               PROVE  JudgedByOneProfile
    BY DEF JudgedByOneProfile, Tuning!JudgedByOneProfile
  <2> DEFINE R == Tuning!Range(Tuning!Rules)
             fires == {r \in R : Tuning!Fires(r, verdict.fc)}
             kept == {r \in R : /\ Tuning!Fires(r, verdict.fc)
                                /\ verdict.profile # Tuning!Plain
                                     => ~Tuning!Below(r, verdict.profile, verdict.fc)}
             warns == {r \in R : Tuning!Severity[r] = "warn"}
  <2>1. verdict.fc \in Context
    BY <1>1 DEF TuningInv, VerdictHolds, Verdict
  <2>2. /\ verdict.found \subseteq kept /\ kept \ warns \subseteq verdict.found
        /\ TRUE \notin verdict.values \/ verdict.profile = Tuning!Plain => verdict.found = kept
        /\ FALSE \notin verdict.values => verdict.found \cap warns = {}
    BY <1>1 DEF TuningInv, VerdictHolds, JudgedSoFar
  <2>3. kept = IF verdict.profile = Tuning!Plain THEN fires
               ELSE {r \in fires : ~Tuning!Below(r, verdict.profile, verdict.fc)}
    OBVIOUS
  <2>4. verdict.profile = Tuning!Default => kept = fires
    BY <2>1, DefaultTakesNothing, LibraryAssumption
  <2>5. warns \cap fires = {r \in fires : Tuning!Severity[r] = "warn"}
    OBVIOUS
  <2>6. kept \subseteq fires
    OBVIOUS
  <2> HIDE DEF kept, fires, warns
  <2>7. /\ kept \ (warns \cap fires) \subseteq verdict.found
        /\ FALSE \notin verdict.values => verdict.found \cap (warns \cap fires) = {}
    BY <2>2, <2>6
  <2> QED
    BY <2>2, <2>3, <2>4, <2>5, <2>7 DEF JudgedByOneProfile, Tuning!JudgedByOneProfile, fires
<1> QED
  BY <1>1, TuningInvariance, PTL

-----------------------------------------------------------------------------
(* The batch of frames. *)

\* The frames submitted, the offsets they begin at, and with them the offset
\* the walk has come to.
Pieces == Batch!Range(queued) \cup refused

Starts == {p[1] : p \in Pieces}

Chain == Starts \cup {offset}

BatchTypes ==
  /\ body \in Seq(Int) /\ offset \in 0..Len(body) /\ walk \in {"on", "over"}
  /\ queued \in Seq(Nat \X Nat) /\ refused \subseteq Nat \X Nat /\ IsFiniteSet(refused)
  /\ IsFiniteSet(Starts) /\ Len(queued) + Cardinality(refused) = Cardinality(Starts)
  /\ failed = Cardinality(refused) + IF walk = "over" /\ offset # Len(body) THEN 1 ELSE 0

\* Each piece is one frame, from one place of the chain to the next.
PiecesHold ==
  \A p \in Pieces :
    /\ p[1] + Batch!HeaderSize <= p[2] /\ Batch!Header(p[1]) /\ p[2] = Batch!FrameEnd(p[1])
    /\ p[2] <= offset /\ p[2] \in Chain /\ \A d \in Chain : d <= p[1] \/ p[2] <= d

ChainHolds ==
  /\ 0 \in Chain /\ \A c \in Chain \ {0} : \E p \in Pieces : p[2] = c
  /\ \A k \in 2..Len(queued) : queued[k - 1][2] <= queued[k][1]

\* A walk that ends within the body ends where no frame begins.
EndHolds ==
  walk = "over" /\ offset # Len(body) =>
    Len(body) - offset < Batch!HeaderSize \/ ~Batch!Header(offset) \/ Batch!Truncated(offset)

BatchInv == BatchTypes /\ PiecesHold /\ ChainHolds /\ EndHolds

LEMMA AppendFacts ==
  ASSUME NEW S, NEW s \in Seq(S), NEW x \in S
  PROVE  LET t == Append(s, x)
         IN  /\ t \in Seq(S) /\ Len(s) \in Nat /\ Len(t) = Len(s) + 1 /\ t[Len(s) + 1] = x
             /\ \A i \in 1..Len(s) : t[i] = s[i]
OBVIOUS

LEMMA AppendRange ==
  ASSUME NEW S, NEW s \in Seq(S), NEW x \in S
  PROVE  Batch!Range(Append(s, x)) = Batch!Range(s) \cup {x}
<1> DEFINE t == Append(s, x)
<1>1. /\ t \in Seq(S) /\ Len(s) \in Nat /\ Len(t) = Len(s) + 1 /\ t[Len(s) + 1] = x
      /\ \A i \in 1..Len(s) : t[i] = s[i]
  BY AppendFacts
<1>2. DOMAIN s = 1..Len(s) /\ DOMAIN t = 1..Len(t)
  BY <1>1
<1> HIDE DEF t
<1>3. \A i \in 1..(Len(s) + 1) : i \in 1..Len(s) \/ i = Len(s) + 1
  BY <1>1
<1>4. 1..Len(s) \subseteq 1..(Len(s) + 1) /\ Len(s) + 1 \in 1..(Len(s) + 1)
  BY <1>1
<1>5. Batch!Range(t) = Batch!Range(s) \cup {x}
  BY <1>1, <1>2, <1>3, <1>4 DEF Batch!Range
<1> QED
  BY <1>5 DEF t

LEMMA BatchCardinality == \A S : Batch!Cardinality(S) = Cardinality(S)
BY Zenon DEF Batch!Cardinality, Cardinality

LEMMA PieceFacts ==
  ASSUME BatchTypes
  PROVE  \A p \in Pieces : p \in Nat \X Nat /\ p[1] \in Nat /\ p[2] \in Nat
<1>1. \A i \in DOMAIN queued : queued[i] \in Nat \X Nat
  BY DEF BatchTypes
<1> QED
  BY <1>1 DEF BatchTypes, Pieces, Batch!Range

\* The place the walk has come to is behind all pieces.
LEMMA OffsetNew ==
  ASSUME BatchTypes, PiecesHold
  PROVE  /\ offset \in Nat /\ offset \notin Starts /\ Starts \subseteq Nat
         /\ \A d \in Starts : d < offset
<1>1. offset \in Nat
  BY DEF BatchTypes
<1>2. \A p \in Pieces : p[1] \in Nat /\ p[2] \in Nat /\ p[1] + 2 <= p[2] /\ p[2] <= offset
  BY PieceFacts DEF PiecesHold, Batch!HeaderSize
<1>3. \A p \in Pieces : p[1] < offset
  BY <1>1, <1>2
<1> QED
  BY <1>1, <1>2, <1>3 DEF Starts

LEMMA BatchInitial == LibraryInit => BatchInv
<1> SUFFICES ASSUME LibraryInit PROVE BatchInv
  OBVIOUS
<1>1. /\ \E size \in 0..MaxBody : body \in [1..size -> Cell]
      /\ offset = 0 /\ walk = "on" /\ queued = <<>> /\ refused = {} /\ failed = 0
  BY DEF LibraryInit, Batch!Init
<1>2. body \in Seq(Int)
  <2>1. PICK m \in 0..MaxBody : body \in [1..m -> Cell]
    BY <1>1
  <2>2. Cell \subseteq Int /\ MaxBody \in Nat
    BY LibraryAssumption DEF LibraryAssumption, Batch!BatchParameters
  <2>3. m \in Nat
    BY <2>1, <2>2
  <2>4. body = [i \in 1..m |-> body[i]] /\ \A i \in 1..m : body[i] \in Int
    BY <2>1, <2>2
  <2>5. body \in [1..m -> Int]
    BY <2>4
  <2> QED
    BY <2>3, <2>5
<1>3. Pieces = {} /\ Starts = {} /\ Chain = {0} /\ Len(queued) = 0
  BY <1>1 DEF Pieces, Starts, Chain, Batch!Range
<1>4. BatchTypes
  <2>1. IsFiniteSet(refused) /\ Cardinality(refused) = 0 /\ IsFiniteSet(Starts) /\ Cardinality(Starts) = 0
    BY <1>1, <1>3, FS_EmptySet
  <2>2. queued \in Seq(Nat \X Nat)
    BY <1>1
  <2>3. offset \in 0..Len(body)
    BY <1>1, <1>2
  <2> QED
    BY <1>1, <1>2, <1>3, <2>1, <2>2, <2>3 DEF BatchTypes
<1>5. PiecesHold
  BY <1>3 DEF PiecesHold
<1>6. ChainHolds
  BY <1>1, <1>3 DEF ChainHolds
<1> QED
  BY <1>1, <1>4, <1>5, <1>6 DEF BatchInv, EndHolds

LEMMA BatchSubmitNext ==
  ASSUME BatchInv, Batch!SubmitNext
  PROVE  BatchInv'
<1> DEFINE end == Batch!FrameEnd(offset)
           piece == <<offset, end>>
<1>1. /\ walk = "on" /\ offset < Len(body) /\ Batch!Header(offset) /\ ~Batch!Truncated(offset)
      /\ Len(body) - offset >= 2 /\ offset' = end /\ body' = body /\ walk' = walk
  BY DEF Batch!SubmitNext, Batch!More, Batch!HeaderSize
<1>2. \/ queued' = Append(queued, piece) /\ refused' = refused /\ failed' = failed
      \/ queued' = queued /\ refused' = refused \cup {piece} /\ failed' = failed + 1
  BY DEF Batch!SubmitNext
<1>3. BatchTypes /\ PiecesHold /\ ChainHolds
  BY DEF BatchInv
<1>4. /\ offset \in Nat /\ offset \notin Starts /\ Starts \subseteq Nat /\ \A d \in Starts : d < offset
      /\ Len(body) \in Nat
  BY <1>3, OffsetNew DEF BatchTypes
<1>5. end \in Nat /\ offset + 2 <= end /\ end <= Len(body)
  <2>1. MaxSampleCount \in Nat
    BY LibraryAssumption DEF LibraryAssumption, Batch!BatchParameters
  <2>2. body[offset + 2] \in 0..MaxSampleCount
    BY <1>1 DEF Batch!Header
  <2>3. end = offset + 2 + body[offset + 2] /\ ~(end > Len(body))
    BY <1>1 DEF Batch!FrameEnd, Batch!HeaderSize, Batch!Truncated
  <2> QED
    BY <1>4, <2>1, <2>2, <2>3
<1>6. piece \in Nat \X Nat /\ piece[1] = offset /\ piece[2] = end
  BY <1>4, <1>5
<1> HIDE DEF end, piece
<1>7. LET t == Append(queued, piece)
       IN  /\ t \in Seq(Nat \X Nat) /\ Len(queued) \in Nat /\ Len(t) = Len(queued) + 1
           /\ t[Len(queued) + 1] = piece /\ \A i \in 1..Len(queued) : t[i] = queued[i]
           /\ Batch!Range(t) = Batch!Range(queued) \cup {piece}
  <2> DEFINE S == Nat \X Nat
  <2>1. queued \in Seq(S) /\ piece \in S
    BY <1>3, <1>6 DEF BatchTypes
  <2> HIDE DEF S
  <2>2. LET t == Append(queued, piece)
        IN  /\ t \in Seq(S) /\ Len(queued) \in Nat /\ Len(t) = Len(queued) + 1
            /\ t[Len(queued) + 1] = piece /\ \A i \in 1..Len(queued) : t[i] = queued[i]
    BY <2>1, AppendFacts
  <2>3. Batch!Range(Append(queued, piece)) = Batch!Range(queued) \cup {piece}
    BY <2>1, AppendRange
  <2> QED
    BY <2>2, <2>3 DEF S
<1>8. Pieces' = Pieces \cup {piece}
  BY <1>2, <1>7 DEF Pieces
<1>9. Starts' = Starts \cup {offset} /\ Chain' = Chain \cup {end}
  BY <1>1, <1>6, <1>8 DEF Starts, Chain
<1>10. BatchTypes'
  <2>1. /\ queued' \in Seq(Nat \X Nat) /\ refused' \subseteq Nat \X Nat
    BY <1>2, <1>3, <1>6, <1>7 DEF BatchTypes
  <2>2. IsFiniteSet(Starts') /\ Cardinality(Starts') = Cardinality(Starts) + 1
    BY <1>3, <1>4, <1>9, FS_AddElement DEF BatchTypes
  <2>3. piece \notin refused
    BY <1>4, <1>6 DEF Starts, Pieces
  <2>4. IsFiniteSet(refused) /\ Cardinality(refused) \in Nat /\ Cardinality(Starts) \in Nat /\ Len(queued) \in Nat
    BY <1>3, FS_CardinalityType DEF BatchTypes
  <2>5. Len(queued) + Cardinality(refused) = Cardinality(Starts) /\ failed = Cardinality(refused)
    BY <1>1, <1>3, <2>4 DEF BatchTypes
  <2>6. /\ IsFiniteSet(refused') /\ Len(queued') + Cardinality(refused') = Cardinality(Starts')
        /\ failed' = Cardinality(refused')
    <3>1. CASE queued' = Append(queued, piece) /\ refused' = refused /\ failed' = failed
      <4>1. Len(queued') = Len(queued) + 1
        BY <1>7, <3>1
      <4> QED
        BY <2>2, <2>4, <2>5, <3>1, <4>1
    <3>2. CASE queued' = queued /\ refused' = refused \cup {piece} /\ failed' = failed + 1
      <4>1. IsFiniteSet(refused') /\ Cardinality(refused') = Cardinality(refused) + 1
        BY <2>3, <2>4, <3>2, FS_AddElement
      <4> QED
        BY <2>2, <2>4, <2>5, <3>2, <4>1
    <3> QED
      BY <1>2, <3>1, <3>2
  <2>7. walk' # "over" /\ Cardinality(refused') \in Nat
    BY <1>1, <2>6, FS_CardinalityType
  <2>8. offset' \in 0..Len(body') /\ body' \in Seq(Int) /\ walk' \in {"on", "over"}
    BY <1>1, <1>3, <1>4, <1>5 DEF BatchTypes, end
  <2>9. failed' = Cardinality(refused') + IF walk' = "over" /\ offset' # Len(body') THEN 1 ELSE 0
    BY <2>6, <2>7
  <2> QED
    BY <2>1, <2>2, <2>6, <2>8, <2>9 DEF BatchTypes
<1>11. \A at : (Batch!Header(at)' <=> Batch!Header(at)) /\ Batch!FrameEnd(at)' = Batch!FrameEnd(at)
  BY <1>1 DEF Batch!Header, Batch!FrameEnd
<1>12. PiecesHold'
  <2> SUFFICES ASSUME NEW p \in Pieces'
               PROVE  /\ p[1] + Batch!HeaderSize <= p[2] /\ Batch!Header(p[1]) /\ p[2] = Batch!FrameEnd(p[1])
                      /\ p[2] <= offset' /\ p[2] \in Chain'
                      /\ \A d \in Chain' : d <= p[1] \/ p[2] <= d
    BY <1>11 DEF PiecesHold
  <2>1. CASE p \in Pieces
    <3>1. /\ p[1] + Batch!HeaderSize <= p[2] /\ Batch!Header(p[1]) /\ p[2] = Batch!FrameEnd(p[1])
          /\ p[2] <= offset /\ p[2] \in Chain /\ \A d \in Chain : d <= p[1] \/ p[2] <= d
      BY <1>3, <2>1 DEF PiecesHold
    <3>2. p[1] \in Nat /\ p[2] \in Nat
      BY <1>3, <2>1, PieceFacts
    <3>3. p[2] <= end
      BY <1>4, <1>5, <3>1, <3>2
    <3> QED
      BY <1>1, <1>9, <3>1, <3>3 DEF end
  <2>2. CASE p = piece
    <3>1. \A d \in Chain : d <= offset
      BY <1>4 DEF Chain
    <3>2. p[1] = offset /\ p[2] = end
      BY <1>6, <2>2
    <3> QED
      BY <1>1, <1>4, <1>5, <1>9, <3>1, <3>2 DEF end, Batch!HeaderSize
  <2> QED
    BY <1>8, <2>1, <2>2
<1>13. ChainHolds'
  <2>1. 0 \in Chain'
    BY <1>3, <1>9 DEF ChainHolds
  <2>2. \A c \in Chain' \ {0} : \E p \in Pieces' : p[2] = c
    BY <1>3, <1>6, <1>8, <1>9 DEF ChainHolds
  <2>3. \A k \in 2..Len(queued') : queued'[k - 1][2] <= queued'[k][1]
    <3>1. CASE queued' = queued
      BY <1>3, <3>1 DEF ChainHolds
    <3>2. CASE queued' = Append(queued, piece)
      <4>1. /\ Len(queued) \in Nat /\ Len(queued') = Len(queued) + 1 /\ queued'[Len(queued) + 1] = piece
            /\ \A i \in 1..Len(queued) : queued'[i] = queued[i]
        BY <1>7, <3>2
      <4> SUFFICES ASSUME NEW k \in 2..Len(queued') PROVE queued'[k - 1][2] <= queued'[k][1]
        OBVIOUS
      <4>2. k - 1 \in 1..Len(queued) /\ queued'[k - 1] = queued[k - 1]
        BY <4>1
      <4>3. CASE k = Len(queued) + 1
        <5>1. queued[k - 1] \in Pieces
          BY <1>3, <4>2 DEF Pieces, Batch!Range, BatchTypes
        <5> QED
          BY <1>3, <1>6, <4>1, <4>2, <4>3, <5>1 DEF PiecesHold
      <4>4. CASE k # Len(queued) + 1
        <5>1. k \in 2..Len(queued) /\ k \in 1..Len(queued)
          BY <4>1, <4>4
        <5> QED
          BY <1>3, <4>1, <4>2, <5>1 DEF ChainHolds
      <4> QED
        BY <4>3, <4>4
    <3> QED
      BY <1>2, <3>1, <3>2
  <2> QED
    BY <2>1, <2>2, <2>3 DEF ChainHolds
<1> QED
  BY <1>1, <1>10, <1>12, <1>13 DEF BatchInv, EndHolds

\* Steps that submit nothing.
LEMMA BatchElsewhere ==
  ASSUME BatchInv, UNCHANGED <<body, offset, queued, refused>>, walk' \in {"on", "over"},
         failed' = Cardinality(refused) + IF walk' = "over" /\ offset # Len(body) THEN 1 ELSE 0,
         EndHolds'
  PROVE  BatchInv'
<1>1. UNCHANGED <<Pieces, Starts, Chain>>
  BY DEF Pieces, Starts, Chain
<1>2. \A at : (Batch!Header(at)' <=> Batch!Header(at)) /\ Batch!FrameEnd(at)' = Batch!FrameEnd(at)
  BY DEF Batch!Header, Batch!FrameEnd
<1>3. PiecesHold'
  BY <1>1, <1>2 DEF BatchInv, PiecesHold
<1>4. ChainHolds'
  BY <1>1 DEF BatchInv, ChainHolds
<1>5. BatchTypes'
  BY <1>1 DEF BatchInv, BatchTypes
<1> QED
  BY <1>3, <1>4, <1>5 DEF BatchInv

LEMMA BatchCounts ==
  ASSUME BatchInv
  PROVE  /\ Cardinality(refused) \in Nat /\ offset \in 0..Len(body) /\ Len(body) \in Nat
         /\ walk = "on" => failed = Cardinality(refused)
<1>1. Cardinality(refused) \in Nat
  BY FS_CardinalityType DEF BatchInv, BatchTypes
<1> QED
  BY <1>1 DEF BatchInv, BatchTypes

LEMMA BatchStep == BatchInv /\ [LibraryNext]_libraryVars => BatchInv'
<1> SUFFICES ASSUME BatchInv, [LibraryNext]_libraryVars PROVE BatchInv'
  OBVIOUS
<1>1. Batch!Next \/ UNCHANGED batchVars
  BY DEF LibraryNext, libraryVars
<1>2. ASSUME UNCHANGED <<body, offset, walk, queued, refused, failed>> PROVE BatchInv'
  <2>1. EndHolds'
    <3>1. (Batch!Header(offset)' <=> Batch!Header(offset)) /\ (Batch!Truncated(offset)' <=> Batch!Truncated(offset))
      BY <1>2 DEF Batch!Header, Batch!Truncated, Batch!FrameEnd
    <3> QED
      BY <1>2, <3>1 DEF BatchInv, EndHolds
  <2> QED
    BY <1>2, <2>1, BatchElsewhere DEF BatchInv, BatchTypes
<1>3. ASSUME Batch!GiveUp PROVE BatchInv'
  <2>1. /\ walk = "on" /\ offset < Len(body) /\ walk' = "over" /\ failed' = failed + 1
        /\ UNCHANGED <<body, offset, queued, refused>>
        /\ Len(body) - offset < Batch!HeaderSize \/ ~Batch!Header(offset) \/ Batch!Truncated(offset)
    BY <1>3 DEF Batch!GiveUp, Batch!More
  <2>2. (Batch!Header(offset)' <=> Batch!Header(offset)) /\ (Batch!Truncated(offset)' <=> Batch!Truncated(offset))
    BY <2>1 DEF Batch!Header, Batch!Truncated, Batch!FrameEnd
  <2>3. EndHolds'
    BY <2>1, <2>2 DEF EndHolds
  <2>4. failed' = Cardinality(refused) + IF walk' = "over" /\ offset # Len(body) THEN 1 ELSE 0
    BY <2>1, BatchCounts
  <2> QED
    BY <2>1, <2>3, <2>4, BatchElsewhere
<1>4. ASSUME Batch!Finish PROVE BatchInv'
  <2>1. /\ walk = "on" /\ offset >= Len(body) /\ walk' = "over" /\ failed' = failed
        /\ UNCHANGED <<body, offset, queued, refused>>
    BY <1>4 DEF Batch!Finish
  <2>2. offset = Len(body) /\ failed = Cardinality(refused) /\ Cardinality(refused) \in Nat
    BY <2>1, BatchCounts
  <2>3. EndHolds'
    BY <2>1, <2>2 DEF EndHolds
  <2> QED
    BY <2>1, <2>2, <2>3, BatchElsewhere
<1>5. ASSUME Batch!QueueMoves PROVE BatchInv'
  BY <1>2, <1>5 DEF Batch!QueueMoves
<1> QED
  BY <1>1, <1>2, <1>3, <1>4, <1>5, BatchSubmitNext DEF Batch!Next, batchVars

\* The frames submitted so far are a chain from the start of the body to the
\* place the walk has come to.
THEOREM BatchInvariance == LibrarySpec => []BatchInv
BY BatchInitial, BatchStep, PTL DEF LibrarySpec

\* A chain of complete frames is a beginning of the walk's, once that is over.
LEMMA ChainLongest ==
  ASSUME BatchInv, walk = "over", NEW cuts \in SUBSET (0..Len(body)), Batch!Frames(cuts)
  PROVE  cuts \subseteq Chain
<1>1. BatchTypes /\ PiecesHold /\ ChainHolds /\ EndHolds /\ Len(body) \in Nat /\ offset \in 0..Len(body)
  BY BatchCounts DEF BatchInv
<1>2. ASSUME cuts \ Chain # {} PROVE FALSE
  <2>1. PICK c \in cuts \ Chain : \A d \in cuts \ Chain : c <= d
    <3> DEFINE rest == cuts \ Chain
    <3>1. 0..Len(body) \subseteq Nat
      BY <1>1
    <3>2. rest \in SUBSET Nat /\ rest # {}
      BY <1>2, <3>1
    <3> HIDE DEF rest
    <3>3. PICK c \in rest : \A d \in rest : c <= d
      BY <3>2, LeastNatural
    <3> QED
      BY <3>3 DEF rest
  <2>2. c # 0 /\ c \in 0..Len(body)
    BY <1>1, <2>1 DEF ChainHolds
  <2>3. PICK b \in cuts : b + Batch!HeaderSize <= c /\ Batch!Header(b) /\ c = b + Batch!HeaderSize + body[b + 2]
    BY <2>1, <2>2 DEF Batch!Frames
  <2>4. b \in 0..Len(body) /\ b < c /\ b + 2 <= c
    BY <1>1, <2>2, <2>3 DEF Batch!HeaderSize
  <2>5. b \in Chain
    BY <2>1, <2>2, <2>3, <2>4
  <2>6. c = Batch!FrameEnd(b)
    BY <2>3 DEF Batch!FrameEnd
  <2>7. CASE b = offset
    <3>1. offset # Len(body) /\ ~(Len(body) - offset < 2)
      BY <1>1, <2>2, <2>4, <2>7
    <3>2. ~Batch!Truncated(offset)
      BY <1>1, <2>2, <2>6, <2>7 DEF Batch!Truncated
    <3> QED
      BY <1>1, <2>3, <2>7, <3>1, <3>2 DEF EndHolds, Batch!HeaderSize
  <2>8. CASE b # offset
    <3>1. PICK p \in Pieces : p[1] = b
      BY <2>5, <2>8 DEF Chain, Starts
    <3>2. p[2] = c /\ p[2] \in Chain
      BY <1>1, <2>6, <3>1 DEF PiecesHold
    <3> QED
      BY <2>1, <3>2
  <2> QED
    BY <2>7, <2>8
<1> QED
  BY <1>2

LEMMA ChainFrames ==
  ASSUME BatchInv
  PROVE  Chain \in SUBSET (0..Len(body)) /\ Batch!Frames(Chain)
<1>1. BatchTypes /\ PiecesHold /\ ChainHolds /\ Len(body) \in Nat /\ offset \in 0..Len(body)
  BY BatchCounts DEF BatchInv
<1>2. offset \in Nat /\ Starts \subseteq Nat /\ \A d \in Starts : d < offset
  BY <1>1, OffsetNew
<1>3. Chain \in SUBSET (0..Len(body))
  BY <1>1, <1>2 DEF Chain
<1>4. ASSUME NEW c \in Chain \ {0}
      PROVE  \E b \in Chain : /\ b + Batch!HeaderSize <= c /\ \A d \in Chain : d <= b \/ c <= d
                             /\ Batch!Header(b) /\ c = b + Batch!HeaderSize + body[b + 2]
  <2>1. PICK p \in Pieces : p[2] = c
    BY <1>1 DEF ChainHolds
  <2>2. p[1] \in Chain
    BY DEF Chain, Starts
  <2> QED
    BY <1>1, <2>1, <2>2 DEF PiecesHold, Batch!FrameEnd
<1> QED
  BY <1>1, <1>3, <1>4 DEF Batch!Frames, ChainHolds

\* Once a batch is answered, the frames of the longest chain of complete frames
\* it begins with were submitted, whole, once and in order, whatever the queue
\* did meanwhile, and the answer's counts are true
\* (ingest_admin_handler.go:71), for every body, queue size and frame size.
THEOREM BatchIsWhole == LibrarySpec => []BatchIsItsFrames
<1>1. ASSUME BatchInv PROVE BatchIsItsFrames
  <2> SUFFICES ASSUME walk = "over" PROVE BatchIsItsFrames
    BY DEF BatchIsItsFrames, Batch!BatchIsItsFrames
  <2>1. BatchTypes /\ PiecesHold /\ ChainHolds /\ Len(body) \in Nat /\ offset \in 0..Len(body)
    BY <1>1, BatchCounts DEF BatchInv
  <2>2. offset \in Nat /\ offset \notin Starts /\ Starts \subseteq Nat /\ \A d \in Starts : d < offset
    BY <2>1, OffsetNew
  <2>3. Batch!Cuts = Chain
    BY <1>1, ChainFrames, ChainLongest DEF Batch!Cuts
  <2>4. Batch!Max(Chain) = offset
    <3>1. offset \in Chain /\ \A d \in Chain : offset >= d
      BY <2>2 DEF Chain
    <3>2. Chain \subseteq Nat
      BY <2>2 DEF Chain
    <3>3. \A x \in Chain : (\A y \in Chain : x >= y) => x = offset
      BY <3>1, <3>2
    <3> QED
      BY <3>1, <3>3 DEF Batch!Max
  <2>5. Starts = Chain \ {offset}
    BY <2>2 DEF Chain
  <2>6. ASSUME NEW p \in Pieces PROVE p[1] \in Chain /\ p[2] = Batch!Min({c \in Chain : c > p[1]})
    <3> DEFINE above == {c \in Chain : c > p[1]}
    <3>1. p[1] \in Nat /\ p[2] \in Nat /\ p[1] \in Chain
      BY <2>1, PieceFacts DEF Chain, Starts
    <3>2. p[1] + 2 <= p[2] /\ p[2] \in Chain /\ \A d \in Chain : d <= p[1] \/ p[2] <= d
      BY <2>1 DEF PiecesHold, Batch!HeaderSize
    <3>3. Chain \subseteq Nat
      BY <2>2 DEF Chain
    <3>4. above \subseteq Nat /\ p[2] \in above
      <4>1. p[2] > p[1]
        BY <3>1, <3>2
      <4> QED
        BY <3>2, <3>3, <4>1
    <3>5. ASSUME NEW d \in above PROVE p[2] <= d
      <4>1. d \in Nat /\ d \in Chain /\ d > p[1]
        BY <3>3, <3>5
      <4>2. ~(d <= p[1])
        BY <3>1, <4>1
      <4> QED
        BY <3>2, <4>1, <4>2
    <3> HIDE DEF above
    <3>6. ASSUME NEW x \in above, \A y \in above : x <= y PROVE x = p[2]
      <4>1. x \in Nat /\ p[2] \in Nat /\ x <= p[2] /\ p[2] <= x
        BY <3>4, <3>6, <3>5
      <4> QED
        BY <4>1
    <3>7. p[2] = Batch!Min(above)
      BY <3>4, <3>6, <3>5 DEF Batch!Min
    <3> QED
      BY <3>1, <3>7 DEF above
  <2>7. /\ IsFiniteSet(Starts) /\ Cardinality(Starts) \in Nat /\ Cardinality(Chain) = Cardinality(Starts) + 1
        /\ Len(queued) + Cardinality(refused) = Cardinality(Starts)
    BY <2>1, <2>2, FS_AddElement, FS_CardinalityType DEF BatchTypes, Chain
  <2>8. Len(queued) + Cardinality(refused) = Cardinality(Chain) - 1
    BY <2>7
  <2>9. failed = Cardinality(refused) + IF offset = Len(body) THEN 0 ELSE 1
    BY <2>1 DEF BatchTypes
  <2>10. Batch!Accepted <=> (queued # <<>> \/ body = <<>>)
    <3>1. Cardinality(refused) \in Nat /\ IsFiniteSet(refused) /\ body \in Seq(Int)
      BY <1>1, BatchCounts DEF BatchInv, BatchTypes
    <3>2. failed > 0 <=> refused # {} \/ offset # Len(body)
      BY <2>9, <3>1, FS_EmptySet
    <3>3. ASSUME queued = <<>>, refused = {}, offset = Len(body) PROVE body = <<>>
      <4>1. Pieces = {}
        BY <3>3 DEF Pieces, Batch!Range
      <4>2. offset = 0
        BY <2>1, <4>1 DEF ChainHolds, Chain, Starts
      <4> QED
        BY <3>1, <3>3, <4>2, EmptySeq
    <3>4. ASSUME body = <<>> PROVE refused = {} /\ offset = Len(body)
      <4>1. Len(body) = 0 /\ offset = 0
        BY <2>1, <3>4
      <4>2. Starts = {}
        BY <2>2, <4>1
      <4> QED
        BY <4>1, <4>2 DEF Starts, Pieces
    <3> QED
      BY <3>2, <3>3, <3>4 DEF Batch!Accepted
  <2>11. \A k \in 2..Len(queued) : queued[k - 1][2] <= queued[k][1]
    BY <2>1 DEF ChainHolds
  <2>12. {p[1] : p \in Pieces} = Chain \ {offset}
    BY <2>5 DEF Starts
  <2> QED
    BY <2>3, <2>4, <2>6, <2>8, <2>9, <2>10, <2>11, <2>12, BatchCardinality
    DEF BatchIsItsFrames, Batch!BatchIsItsFrames, Pieces
<1> QED
  BY <1>1, BatchInvariance, PTL

-----------------------------------------------------------------------------
(* The retry queue. *)

LEMMA RetryNames ==
  /\ \A S : Retry!IsFiniteSet(S) <=> IsFiniteSet(S)
  /\ \A S : Retry!Cardinality(S) = Cardinality(S)
<1>1. \A S : Retry!IsFiniteSet(S) <=> IsFiniteSet(S)
  BY Zenon DEF Retry!IsFiniteSet, IsFiniteSet
<1>2. \A S : Retry!Cardinality(S) = Cardinality(S)
  BY Zenon DEF Retry!Cardinality, Cardinality
<1> QED
  BY <1>1, <1>2

\* The sum over all payloads that EveryPushCounted speaks of, before and after a step.
LEMMA HandedOutSums ==
  ASSUME IsFiniteSet(Payload), NEW h \in [Payload -> Nat]
  PROVE  \E g : /\ SumsUp(g, h, Payload)
                /\ handed = h => Retry!HandedOut = g[Payload]
                /\ handed' = h => Retry!HandedOut' = g[Payload]
<1> DEFINE g == CHOOSE g : SumsUp(g, h, Payload)
<1>1. SumsUp(g, h, Payload)
  BY SumExists, Zenon
<1>2. handed = h => Retry!HandedOut = g[Payload]
  BY Zenon DEF Retry!HandedOut, Retry!MapThenSumSet, Retry!MapThenFoldSet, SumsUp
<1>3. handed' = h => Retry!HandedOut' = g[Payload]
  BY Zenon DEF Retry!HandedOut, Retry!MapThenSumSet, Retry!MapThenFoldSet, SumsUp
<1> HIDE DEF g
<1> QED
  BY <1>1, <1>2, <1>3

LEMMA WithoutIs ==
  ASSUME NEW S, items \in Seq(S), NEW gone \in SUBSET (1..Len(items))
  PROVE  LET m == Len(items) - Cardinality(gone)
         IN  /\ m \in Nat
             /\ \E pos \in Bijection(1..m, (1..Len(items)) \ gone) :
                  Retry!Without(gone) = [k \in 1..m |-> items[pos[k]]]
<1> DEFINE n == Len(items)
           K == (1..n) \ gone
           Place(i) == Cardinality({j \in K : j <= i})
           pos == [k \in 1..Cardinality(K) |-> CHOOSE i \in K : Place(i) = k]
<1>1. n \in Nat /\ K \in SUBSET (1..n)
  OBVIOUS
<1>2. pos \in Bijection(1..Cardinality(K), K) /\ Cardinality(K) \in Nat
  BY <1>1, Places
<1>3. Cardinality(K) = n - Cardinality(gone)
  <2>1. IsFiniteSet(1..n) /\ Cardinality(1..n) = n
    BY <1>1, FS_Interval
  <2>2. (1..n) \cap gone = gone
    OBVIOUS
  <2>3. Cardinality((1..n) \ gone) = Cardinality(1..n) - Cardinality((1..n) \cap gone)
    BY <2>1, FS_Difference, Zenon
  <2> HIDE DEF n
  <2> QED
    BY <2>1, <2>2, <2>3
<1>4. Retry!Without(gone) = [k \in 1..Cardinality(K) |-> items[CHOOSE i \in K : Place(i) = k]]
  <2> DEFINE At(k) == CHOOSE i \in K : Place(i) = k
             Place1(i) == Retry!Cardinality({j \in K : j <= i})
             At1(k) == CHOOSE i \in K : Place1(i) = k
  <2>1. Retry!Without(gone) = [k \in 1..Retry!Cardinality(K) |-> items[At1(k)]]
    BY Zenon DEF Retry!Without, Retry!Items
  <2>2. \A i : Place1(i) = Place(i)
    BY RetryNames, Zenon
  <2>3. Retry!Cardinality(K) = Cardinality(K)
    BY RetryNames, Zenon
  <2> HIDE DEF Place, Place1
  <2>4. \A k : At1(k) = At(k)
    BY <2>2
  <2> HIDE DEF At, At1
  <2>5. Retry!Without(gone) = [k \in 1..Cardinality(K) |-> items[At(k)]]
    BY <2>1, <2>3, <2>4
  <2> QED
    BY <2>5, Zenon DEF At
<1>5. Retry!Without(gone) = [k \in 1..Cardinality(K) |-> items[pos[k]]]
  BY <1>4
<1> HIDE DEF pos, Place
<1> QED
  BY <1>2, <1>3, <1>5

RetryItem == [payload : Payload, attempts : Nat \ {0}, nextAt : Int]

\* The items s wait, each with a payload of its own, pushed n[p] times without
\* leaving and the last time at l[p].
Waits(s, n, l) ==
  /\ s \in Seq(RetryItem) /\ n \in [Payload -> Nat]
  /\ \A i, k \in 1..Len(s) : s[i].payload = s[k].payload => i = k
  /\ \A i \in 1..Len(s) : /\ s[i].attempts = n[s[i].payload]
                          /\ s[i].nextAt = l[s[i].payload] + Retry!Delay(s[i].attempts - 1)
  /\ \A p \in Payload : n[p] > 0 => \E i \in 1..Len(s) : s[i].payload = p

RetryTypes ==
  /\ {clock, dropped, pushes, replaced} \subseteq Nat
  /\ handed \in [Payload -> Nat] /\ last \in [Payload -> Nat]

RetryCounts ==
  /\ pushes = Len(items) + replaced + Retry!HandedOut + dropped
  /\ Len(items) <= Capacity

RetryInv == RetryTypes /\ Waits(items, streak, last) /\ RetryCounts

LEMMA RetryConstants ==
  /\ IsFiniteSet(Payload) /\ Capacity \in Nat \ {0} /\ BaseDelay \in Nat \ {0}
  /\ DelayBits \in Nat \ {0} /\ 4 * BaseDelay < 2 ^ (DelayBits - 1)
<1>1. Retry!RetryParameters
  BY LibraryAssumption
<1>2. Retry!IsFiniteSet(Payload) /\ {Capacity, BaseDelay, DelayBits} \subseteq Nat \ {0}
      /\ 4 * BaseDelay < 2 ^ (DelayBits - 1)
  BY <1>1, Zenon DEF Retry!RetryParameters
<1>3. IsFiniteSet(Payload)
  BY <1>2, RetryNames, Zenon
<1> QED
  BY <1>2, <1>3

\* Half of the range of a delay, the highest of which it never reaches for two pushes.
LEMMA HalfRange ==
  \E half \in Nat \ {0} : /\ 4 * BaseDelay < half
                          /\ \A n \in Int : Retry!Wrapped(n) = ((n + half) % (2 * half)) - half
<1> DEFINE half == 2 ^ (DelayBits - 1)
<1>1. DelayBits - 1 \in Nat /\ (DelayBits - 1) + 1 = DelayBits
  BY RetryConstants
<1>2. half \in Nat \ {0} /\ 2 ^ ((DelayBits - 1) + 1) = 2 * half
  BY <1>1, Powers
<1>3. 2 ^ DelayBits = 2 * half
  BY <1>1, <1>2
<1>4. \A n \in Int : Retry!Wrapped(n) = ((n + half) % 2 ^ DelayBits) - half
  BY Zenon DEF Retry!Wrapped
<1> QED
  BY <1>2, <1>3, <1>4, RetryConstants

LEMMA DelayFacts ==
  /\ \A a \in Nat : Retry!Delay(a) \in Int
  /\ Retry!Delay(0) = BaseDelay /\ Retry!Delay(1) = 2 * BaseDelay
<1>1. PICK half \in Nat \ {0} :
        /\ 4 * BaseDelay < half
        /\ \A n \in Int : Retry!Wrapped(n) = ((n + half) % (2 * half)) - half
  BY HalfRange
<1> BaseDelay \in Nat \ {0}
  BY RetryConstants
<1>2. 2 * half \in Nat \ {0}
  OBVIOUS
<1>3. ASSUME NEW n \in Int PROVE Retry!Wrapped(n) \in Int
  <2>1. (n + half) % (2 * half) \in Int
    BY <1>2
  <2> QED
    BY <1>1, <2>1
<1>4. ASSUME NEW n \in Nat, n < half PROVE Retry!Wrapped(n) = n
  <2> DEFINE h == 2 * half
  <2>1. h \in Nat \ {0} /\ n + half \in Int /\ 0 <= n + half /\ n + half < h
    BY <1>4
  <2> HIDE DEF h
  <2>2. (n + half) % h = n + half
    BY <2>1
  <2> QED
    BY <1>1, <2>2 DEF h
<1>5. ASSUME NEW a \in Nat PROVE Retry!Delay(a) \in Int
  <2>1. 2 ^ a \in Nat
    BY Powers
  <2>2. BaseDelay * 2 ^ a \in Int
    BY <2>1
  <2>3. Retry!Wrapped(BaseDelay * 2 ^ a) \in Int
    BY <1>3, <2>2
  <2> DEFINE w == Retry!Wrapped(BaseDelay * 2 ^ a)
  <2>4. Retry!Delay(a) = IF w < BaseDelay THEN BaseDelay ELSE w
    BY Zenon DEF Retry!Delay
  <2> HIDE DEF w
  <2> QED
    BY <2>3, <2>4 DEF w
<1>6. 2 ^ 0 = 1 /\ 2 ^ 1 = 2
  OBVIOUS
<1>7. Retry!Wrapped(BaseDelay) = BaseDelay /\ Retry!Wrapped(2 * BaseDelay) = 2 * BaseDelay
  BY <1>1, <1>4
<1>8. BaseDelay * 2 ^ 0 = BaseDelay /\ BaseDelay * 2 ^ 1 = 2 * BaseDelay
  BY <1>6
<1>9. ~(BaseDelay < BaseDelay) /\ ~(2 * BaseDelay < BaseDelay)
  OBVIOUS
<1>10. Retry!Delay(0) = BaseDelay /\ Retry!Delay(1) = 2 * BaseDelay
  BY <1>7, <1>8, <1>9, Zenon DEF Retry!Delay
<1> QED
  BY <1>5, <1>10

\* What stays still waits.
LEMMA SomeLeave ==
  ASSUME NEW s, NEW n, NEW l, Waits(s, n, l), NEW gone \in SUBSET (1..Len(s)),
         NEW m \in Nat, NEW pos \in Bijection(1..m, (1..Len(s)) \ gone),
         NEW t, t = [k \in 1..m |-> s[pos[k]]],
         NEW left, left = [p \in Payload |->
                             IF \E i \in gone : s[i].payload = p THEN 0 ELSE n[p]]
  PROVE  Waits(t, left, l) /\ Len(t) = m
<1>1. /\ \A k \in 1..m : pos[k] \in (1..Len(s)) \ gone
      /\ \A i \in (1..Len(s)) \ gone : \E k \in 1..m : pos[k] = i
      /\ \A i, k \in 1..m : pos[i] = pos[k] => i = k
  BY DEF Bijection, Injection, Surjection, IsInjective
<1>2. s \in Seq(RetryItem) /\ n \in [Payload -> Nat]
  BY DEF Waits
<1>3. /\ \A i, k \in 1..Len(s) : s[i].payload = s[k].payload => i = k
      /\ \A i \in 1..Len(s) : /\ s[i].attempts = n[s[i].payload]
                              /\ s[i].nextAt = l[s[i].payload] + Retry!Delay(s[i].attempts - 1)
      /\ \A p \in Payload : n[p] > 0 => \E i \in 1..Len(s) : s[i].payload = p
  BY DEF Waits
<1>4. \A i \in 1..Len(s) : s[i] \in RetryItem
  BY <1>2, SeqElements
<1>5. \A i \in 1..Len(s) : s[i].payload \in Payload
  BY <1>4 DEF RetryItem
<1> HIDE DEF RetryItem
<1>6. t \in Seq(RetryItem) /\ Len(t) = m /\ \A k \in 1..m : t[k] = s[pos[k]]
  BY <1>1, <1>4
<1>7. left \in [Payload -> Nat]
  BY <1>2
<1>8. \A k \in 1..m : ~ \E i \in gone : s[i].payload = t[k].payload
  BY <1>1, <1>3, <1>6
<1>9. \A k \in 1..m : left[t[k].payload] = n[t[k].payload]
  BY <1>1, <1>5, <1>6, <1>8
<1>10. \A i, k \in 1..Len(t) : t[i].payload = t[k].payload => i = k
  BY <1>1, <1>3, <1>6
<1>11. ASSUME NEW k \in 1..Len(t)
       PROVE  /\ t[k].attempts = left[t[k].payload]
              /\ t[k].nextAt = l[t[k].payload] + Retry!Delay(t[k].attempts - 1)
  <2>1. t[k] = s[pos[k]] /\ pos[k] \in 1..Len(s) /\ left[t[k].payload] = n[t[k].payload]
    BY <1>1, <1>6, <1>9
  <2> QED
    BY <1>3, <2>1
<1>12. ASSUME NEW p \in Payload, left[p] > 0
       PROVE  \E k \in 1..Len(t) : t[k].payload = p
  <2>1. n[p] > 0 /\ ~ \E i \in gone : s[i].payload = p
    BY <1>2, <1>12
  <2>2. PICK i \in (1..Len(s)) \ gone : s[i].payload = p
    BY <1>3, <2>1
  <2>3. PICK k \in 1..m : pos[k] = i
    BY <1>1, <2>2
  <2> QED
    BY <1>6, <2>2, <2>3
<1>13. Waits(t, left, l)
  BY <1>6, <1>7, <1>10, <1>11, <1>12 DEF Waits
<1> QED
  BY <1>6, <1>13

\* A payload that does not wait joins at the end.
LEMMA OneJoins ==
  ASSUME NEW s, NEW n, NEW l, Waits(s, n, l), NEW p \in Payload, n[p] = 0,
         l \in [Payload -> Nat], NEW a \in Nat, NEW at \in Nat
  PROVE  Waits(Append(s, [payload |-> p, attempts |-> a + 1, nextAt |-> at + Retry!Delay(a)]),
               [n EXCEPT ![p] = a + 1], [l EXCEPT ![p] = at])
<1> DEFINE new == [payload |-> p, attempts |-> a + 1, nextAt |-> at + Retry!Delay(a)]
           t == Append(s, new)
           n1 == [n EXCEPT ![p] = a + 1]
           l1 == [l EXCEPT ![p] = at]
<1>1. s \in Seq(RetryItem) /\ n \in [Payload -> Nat]
  BY DEF Waits
<1>2. /\ \A i, k \in 1..Len(s) : s[i].payload = s[k].payload => i = k
      /\ \A i \in 1..Len(s) : /\ s[i].attempts = n[s[i].payload]
                              /\ s[i].nextAt = l[s[i].payload] + Retry!Delay(s[i].attempts - 1)
      /\ \A q \in Payload : n[q] > 0 => \E i \in 1..Len(s) : s[i].payload = q
  BY DEF Waits
<1>3. \A i \in 1..Len(s) : s[i] \in RetryItem
  BY <1>1, SeqElements
<1>4. \A i \in 1..Len(s) : s[i].payload \in Payload /\ s[i].attempts \in Nat \ {0}
  BY <1>3 DEF RetryItem
<1>5. Retry!Delay(a) \in Int
  BY DelayFacts
<1>6. new \in RetryItem
  BY <1>5 DEF RetryItem
<1>7. /\ new.payload = p /\ new.attempts = a + 1
      /\ new.nextAt = at + Retry!Delay(new.attempts - 1)
  OBVIOUS
<1> HIDE DEF RetryItem, new
<1>8. /\ t \in Seq(RetryItem) /\ Len(t) = Len(s) + 1 /\ Len(s) \in Nat
      /\ \A i \in 1..Len(s) : t[i] = s[i]
      /\ t[Len(s) + 1] = new
  BY <1>1, <1>6
<1>9. \A i \in 1..Len(s) : s[i].payload # p
  BY <1>2, <1>4
<1>10. n1 \in [Payload -> Nat] /\ n1[p] = a + 1 /\ l1[p] = at
       /\ \A q \in Payload : q # p => n1[q] = n[q] /\ l1[q] = l[q]
  BY <1>1
<1> HIDE DEF t, n1, l1
<1>11. \A i \in 1..Len(t) : i \in 1..Len(s) \/ i = Len(s) + 1
  BY <1>8
<1>12. ASSUME NEW i \in 1..Len(t), NEW k \in 1..Len(t), t[i].payload = t[k].payload
       PROVE  i = k
  <2>1. CASE i \in 1..Len(s) /\ k \in 1..Len(s)
    <3>1. t[i] = s[i] /\ t[k] = s[k]
      BY <1>8, <2>1
    <3> QED
      BY <1>2, <1>12, <2>1, <3>1
  <2>2. CASE i \in 1..Len(s) /\ k = Len(s) + 1
    <3>1. t[i] = s[i] /\ t[k] = new
      BY <1>8, <2>2
    <3> QED
      BY <1>7, <1>9, <1>12, <2>2, <3>1
  <2>3. CASE k \in 1..Len(s) /\ i = Len(s) + 1
    <3>1. t[k] = s[k] /\ t[i] = new
      BY <1>8, <2>3
    <3> QED
      BY <1>7, <1>9, <1>12, <2>3, <3>1
  <2> QED
    BY <1>11, <2>1, <2>2, <2>3
<1>13. ASSUME NEW i \in 1..Len(t)
       PROVE  /\ t[i].attempts = n1[t[i].payload]
              /\ t[i].nextAt = l1[t[i].payload] + Retry!Delay(t[i].attempts - 1)
  <2>1. CASE i \in 1..Len(s)
    <3>1. t[i] = s[i]
      BY <1>8, <2>1
    <3>2. PICK q \in Payload : q = s[i].payload /\ q # p
      BY <1>4, <1>9, <2>1
    <3>3. n1[q] = n[q] /\ l1[q] = l[q]
      BY <1>10, <3>2
    <3>4. s[i].attempts = n[q] /\ s[i].nextAt = l[q] + Retry!Delay(s[i].attempts - 1)
      BY <1>2, <2>1, <3>2
    <3> QED
      BY <3>1, <3>2, <3>3, <3>4
  <2>2. CASE i = Len(s) + 1
    <3>1. t[i] = new
      BY <1>8, <2>2
    <3> QED
      BY <1>7, <1>10, <3>1
  <2> QED
    BY <1>11, <2>1, <2>2
<1>14. ASSUME NEW q \in Payload, n1[q] > 0
       PROVE  \E i \in 1..Len(t) : t[i].payload = q
  <2>1. CASE q = p
    BY <1>7, <1>8, <2>1
  <2>2. CASE q # p
    BY <1>2, <1>8, <1>10, <1>14, <2>2
  <2> QED
    BY <2>1, <2>2
<1>15. Waits(t, n1, l1)
  BY <1>8, <1>10, <1>12, <1>13, <1>14 DEF Waits
<1> QED
  BY <1>15 DEF t, new, n1, l1

LEMMA WaitsFacts ==
  ASSUME Waits(items, streak, last)
  PROVE  /\ items \in Seq(RetryItem) /\ Len(items) \in Nat /\ streak \in [Payload -> Nat]
         /\ \A i \in 1..Len(items) : /\ items[i].payload \in Payload
                                     /\ items[i].attempts \in Nat \ {0}
                                     /\ items[i].attempts = streak[items[i].payload]
         /\ \A i, k \in 1..Len(items) : items[i].payload = items[k].payload => i = k
         /\ \A p \in Payload : streak[p] > 0 => \E i \in 1..Len(items) : items[i].payload = p
<1>1. items \in Seq(RetryItem)
  BY DEF Waits
<1>2. \A i \in 1..Len(items) : items[i] \in RetryItem
  BY <1>1, SeqElements
<1>3. \A i \in 1..Len(items) : items[i].payload \in Payload /\ items[i].attempts \in Nat \ {0}
  BY <1>2 DEF RetryItem
<1> HIDE DEF RetryItem
<1> QED
  BY <1>1, <1>3 DEF Waits

\* At most one item has the payload, and its attempts are the pushes noted.
LEMMA MatchingFacts ==
  ASSUME Waits(items, streak, last), NEW p \in Payload
  PROVE  /\ Retry!Matching(p) \in SUBSET (1..Len(items))
         /\ (IF Retry!Matching(p) = {} THEN {} ELSE {Retry!Min(Retry!Matching(p))}) = Retry!Matching(p)
         /\ Cardinality(Retry!Matching(p)) = IF Retry!Matching(p) = {} THEN 0 ELSE 1
         /\ Retry!Attempts(p) = streak[p]
         /\ \A i \in 1..Len(items) : i \in Retry!Matching(p) <=> items[i].payload = p
         /\ streak[p] > 0 <=> Retry!Matching(p) # {}
<1> DEFINE M == Retry!Matching(p)
<1>1. M = {i \in 1..Len(items) : items[i].payload = p}
  BY DEF Retry!Matching, Retry!Items
<1>2. \A i, k \in M : i = k
  BY <1>1, WaitsFacts
<1>3. M \in SUBSET (1..Len(items))
  BY <1>1
<1>4. streak[p] \in Nat /\ (streak[p] > 0 => M # {})
  BY <1>1, WaitsFacts
<1>5. CASE M = {}
  <2>1. Retry!Attempts(p) = 0
    BY <1>5 DEF Retry!Attempts
  <2>2. \A i \in 1..Len(items) : i \in M <=> items[i].payload = p
    BY <1>1
  <2>3. Cardinality(M) = 0
    BY <1>5, FS_EmptySet
  <2>4. streak[p] = 0
    BY <1>4, <1>5
  <2> HIDE DEF M
  <2> QED
    BY <1>3, <1>5, <2>1, <2>2, <2>3, <2>4 DEF M
<1>6. CASE M # {}
  <2>1. PICK i \in M : M = {i}
    BY <1>2, <1>6
  <2>2. i \in Int /\ i \in 1..Len(items) /\ items[i].payload = p
    BY <1>1
  <2>3. Retry!Min(M) = i
    BY <2>1, <2>2 DEF Retry!Min
  <2>4. Retry!Attempts(p) = items[i].attempts
    BY <1>6, <2>3 DEF Retry!Attempts
  <2>5. Retry!Attempts(p) = streak[p] /\ streak[p] > 0
    BY <2>2, <2>4, WaitsFacts
  <2>6. Cardinality(M) = 1
    BY <2>1, FS_Singleton
  <2>7. \A k \in 1..Len(items) : k \in M <=> items[k].payload = p
    BY <1>1
  <2> HIDE DEF M
  <2>8. (IF M = {} THEN {} ELSE {Retry!Min(M)}) = M
    BY <2>1, <2>3
  <2>9. Cardinality(M) = IF M = {} THEN 0 ELSE 1
    BY <1>6, <2>6
  <2> QED
    BY <1>3, <1>6, <2>5, <2>7, <2>8, <2>9 DEF M
<1> QED
  BY <1>5, <1>6

LEMMA HeadLeaves ==
  ASSUME NEW s, NEW n, NEW l, Waits(s, n, l), Len(s) > 0
  PROVE  /\ Waits(Tail(s), [p \in Payload |-> IF Head(s).payload = p THEN 0 ELSE n[p]], l)
         /\ Len(Tail(s)) = Len(s) - 1
<1> DEFINE m == Len(s) - 1
           pos == [k \in 1..m |-> k + 1]
           gone == {1}
           t == [k \in 1..m |-> s[pos[k]]]
           left == [p \in Payload |-> IF \E i \in gone : s[i].payload = p THEN 0 ELSE n[p]]
<1>1. s \in Seq(RetryItem)
  BY DEF Waits
<1>2. Len(s) \in Nat /\ m \in Nat /\ {1} \in SUBSET (1..Len(s))
  BY <1>1
<1>3. pos \in Bijection(1..m, (1..Len(s)) \ gone)
  <2>1. pos \in [1..m -> (1..Len(s)) \ {1}] /\ \A k \in 1..m : pos[k] = k + 1
    BY <1>2
  <2>2. \A i \in (1..Len(s)) \ {1} : i - 1 \in 1..m /\ pos[i - 1] = i
    BY <1>2
  <2> HIDE DEF pos
  <2>3. \A i, k \in 1..m : pos[i] = pos[k] => i = k
    BY <2>1
  <2> QED
    BY <2>1, <2>2, <2>3 DEF Bijection, Injection, Surjection, IsInjective
<1> HIDE DEF pos
<1>4. Waits(t, left, l) /\ Len(t) = m
  <2>1. m \in Nat /\ gone \in SUBSET (1..Len(s))
    BY <1>2
  <2> HIDE DEF m, gone
  <2> QED
    BY <2>1, <1>3, SomeLeave
<1>5. Tail(s) = t
  <2>1. \A k \in 1..m : pos[k] = k + 1
    BY DEF pos
  <2>2. Tail(s) = [k \in 1..m |-> s[k + 1]]
    <3>1. Tail(s) \in Seq(RetryItem) /\ Len(Tail(s)) = m /\ \A k \in 1..m : Tail(s)[k] = s[k + 1]
      BY <1>1, <1>2
    <3>2. Tail(s) \in [1..m -> RetryItem]
      BY <3>1, SeqIsFunction
    <3> QED
      BY <3>1, <3>2
  <2>3. t = [k \in 1..m |-> s[k + 1]]
    BY <2>1
  <2> QED
    BY <2>2, <2>3
<1>6. left = [p \in Payload |-> IF Head(s).payload = p THEN 0 ELSE n[p]]
  BY <1>1, <1>2
<1> QED
  BY <1>4, <1>5, <1>6

LEMMA HandedType ==
  ASSUME RetryTypes, NEW p \in Payload
  PROVE  Retry!HandedOut \in Nat
<1>1. IsFiniteSet(Payload) /\ handed \in [Payload -> Nat]
  BY RetryConstants DEF RetryTypes
<1>2. PICK g : SumsUp(g, handed, Payload) /\ (handed = handed => Retry!HandedOut = g[Payload])
  BY <1>1, HandedOutSums
<1>3. [handed EXCEPT ![p] = handed[p] + 1] \in [Payload -> Nat]
  BY <1>1
<1>4. PICK k : SumsUp(k, [handed EXCEPT ![p] = handed[p] + 1], Payload)
  BY <1>1, <1>3, SumExists
<1>5. Retry!HandedOut = g[Payload]
  BY <1>2
<1>7. \A x \in Payload : [handed EXCEPT ![p] = handed[p] + 1][x] =
                          IF x = p THEN handed[x] + 1 ELSE handed[x]
  BY <1>1
<1>6. g[Payload] \in Nat
  BY <1>1, <1>2, <1>3, <1>4, <1>7, SumBumps
<1> QED
  BY <1>5, <1>6

LEMMA RetryPush ==
  ASSUME RetryInv, NEW p \in Payload, Retry!Push(p)
  PROVE  RetryInv'
<1> DEFINE M == Retry!Matching(p)
           rest == Retry!WithoutMatch(p)
           full == Len(rest) >= Capacity
           n1 == [q \in Payload |-> IF \E i \in M : items[i].payload = q THEN 0 ELSE streak[q]]
           s2 == IF full THEN Tail(rest) ELSE rest
           n2 == [q \in Payload |-> IF full /\ Head(rest).payload = q THEN 0 ELSE n1[q]]
<1>1. Waits(items, streak, last) /\ RetryTypes /\ RetryCounts
  BY DEF RetryInv
<1>2. /\ items \in Seq(RetryItem) /\ Len(items) \in Nat /\ streak \in [Payload -> Nat]
      /\ streak[p] \in Nat
  BY <1>1, WaitsFacts
<1>3. /\ M \in SUBSET (1..Len(items)) /\ rest = Retry!Without(M)
      /\ Cardinality(M) = IF M = {} THEN 0 ELSE 1
      /\ Retry!Attempts(p) = streak[p]
      /\ \A i \in 1..Len(items) : i \in M <=> items[i].payload = p
      /\ streak[p] > 0 <=> M # {}
  BY <1>1, MatchingFacts DEF Retry!WithoutMatch
<1> HIDE DEF M
<1>4. Waits(rest, n1, last) /\ Len(rest) = Len(items) - Cardinality(M)
  <2> DEFINE m == Len(items) - Cardinality(M)
  <2>1. /\ m \in Nat
        /\ \E pos \in Bijection(1..m, (1..Len(items)) \ M) :
             Retry!Without(M) = [k \in 1..m |-> items[pos[k]]]
    BY <1>2, <1>3, WithoutIs
  <2> HIDE DEF m
  <2>2. PICK pos \in Bijection(1..m, (1..Len(items)) \ M) :
          Retry!Without(M) = [k \in 1..m |-> items[pos[k]]]
    BY <2>1
  <2>3. rest = [k \in 1..m |-> items[pos[k]]]
    BY <1>3, <2>2
  <2> HIDE DEF rest, n1
  <2>4. n1 = [q \in Payload |-> IF \E i \in M : items[i].payload = q THEN 0 ELSE streak[q]]
    BY DEF n1
  <2>6. Waits(items, streak, last) /\ M \in SUBSET (1..Len(items)) /\ m \in Nat
    BY <1>1, <1>3, <2>1
  <2>5. Waits(rest, n1, last) /\ Len(rest) = m
    BY <2>3, <2>4, <2>6, SomeLeave
  <2> QED
    BY <2>5 DEF m
<1>5. n1[p] = 0 /\ \A q \in Payload : q # p => n1[q] = streak[q]
  BY <1>1, <1>2, <1>3, WaitsFacts
<1>6. rest \in Seq(RetryItem) /\ Len(rest) \in Nat
  BY <1>4 DEF Waits
<1> HIDE DEF rest, n1
<1>7. Capacity \in Nat \ {0} /\ clock \in Nat /\ last \in [Payload -> Nat]
  BY <1>1, RetryConstants DEF RetryTypes
<1>8. Waits(s2, n2, last) /\ Len(s2) = Len(rest) - (IF full THEN 1 ELSE 0)
  <2>1. CASE full
    <3>1. Len(rest) > 0
      BY <1>6, <1>7, <2>1
    <3>2. /\ Waits(Tail(rest), [q \in Payload |-> IF Head(rest).payload = q THEN 0 ELSE n1[q]], last)
          /\ Len(Tail(rest)) = Len(rest) - 1
      BY <1>4, <3>1, HeadLeaves
    <3>3. n2 = [q \in Payload |-> IF Head(rest).payload = q THEN 0 ELSE n1[q]]
      BY <2>1
    <3> QED
      BY <2>1, <3>2, <3>3
  <2>2. CASE ~full
    <3>1. n1 \in [Payload -> Nat]
      BY <1>4 DEF Waits
    <3>2. n2 = n1 /\ s2 = rest
      BY <2>2, <3>1
    <3> QED
      BY <1>4, <1>6, <2>2, <3>2
  <2> QED
    BY <2>1, <2>2
<1>9. n2[p] = 0
  BY <1>5
<1> DEFINE new == [payload |-> p, attempts |-> streak[p] + 1, nextAt |-> clock + Retry!Delay(streak[p])]
<1>10. Retry!Enqueue(p)
  BY DEF Retry!Push
<1>11. /\ items' = Append(s2, Retry!NewItem(p))
       /\ streak' = [q \in Payload |->
            IF q = p THEN streak[p] + 1
            ELSE IF full /\ Head(rest).payload = q THEN 0 ELSE streak[q]]
       /\ dropped' = dropped + IF full THEN 1 ELSE 0
  BY <1>10, Zenon DEF Retry!Enqueue, Retry!Joined, rest
<1>12. Retry!NewItem(p) = new
  BY <1>3 DEF Retry!NewItem
<1>13. /\ pushes' = pushes + 1 /\ replaced' = replaced + (IF M = {} THEN 0 ELSE 1)
       /\ last' = [last EXCEPT ![p] = clock] /\ UNCHANGED <<clock, handed>>
  BY DEF Retry!Push, M
<1>14. streak' = [n2 EXCEPT ![p] = streak[p] + 1]
  <2>1. \A q \in Payload : q # p =>
          n2[q] = IF full /\ Head(rest).payload = q THEN 0 ELSE streak[q]
    BY <1>5
  <2> HIDE DEF full
  <2> QED
    BY <1>11, <2>1
<1> HIDE DEF s2, n2, full
<1>15. Waits(Append(s2, new), [n2 EXCEPT ![p] = streak[p] + 1], [last EXCEPT ![p] = clock])
  BY <1>2, <1>7, <1>8, <1>9, OneJoins
<1>16. Waits(items', streak', last')
  BY <1>11, <1>12, <1>13, <1>14, <1>15
<1>17. Waits(items, streak, last)'
  BY <1>16 DEF Waits, Retry!Delay, Retry!Wrapped
<1>18. RetryTypes'
  BY <1>1, <1>7, <1>11, <1>13 DEF RetryTypes
<1>19. Len(items') = Len(s2) + 1
  <2>1. s2 \in Seq(RetryItem)
    BY <1>8 DEF Waits
  <2> HIDE DEF new
  <2>2. new \in RetryItem
    BY <1>2, <1>7, DelayFacts DEF RetryItem, new
  <2> QED
    BY <1>11, <1>12, <2>1
<1>20. Retry!HandedOut' = Retry!HandedOut
  BY <1>13, Zenon DEF Retry!HandedOut, Retry!MapThenSumSet, Retry!MapThenFoldSet
<1>21. Retry!HandedOut \in Nat
  BY <1>1, HandedType
<1>22. RetryCounts'
  <2> DEFINE f == IF full THEN 1 ELSE 0
             c == Cardinality(M)
  <2>1. c \in {0, 1} /\ f \in {0, 1}
    BY <1>3
  <2>2. replaced' = replaced + c
    BY <1>3, <1>13
  <2>3. dropped' = dropped + f
    BY <1>11 DEF full
  <2>4. Len(rest) = Len(items) - c /\ Len(s2) = Len(rest) - f /\ (f = 0 => Len(rest) < Capacity)
    BY <1>4, <1>6, <1>7, <1>8 DEF full
  <2> HIDE DEF f, c
  <2>5. pushes \in Nat /\ replaced \in Nat /\ dropped \in Nat
    BY <1>1 DEF RetryTypes
  <2>6. pushes = Len(items) + replaced + Retry!HandedOut + dropped /\ Len(items) <= Capacity
    BY <1>1 DEF RetryCounts
  <2>7. Len(items') = Len(items) - c - f + 1
    BY <1>2, <1>19, <2>1, <2>4
  <2>8. Len(items') <= Capacity
    <3>1. CASE f = 0
      BY <1>2, <1>6, <1>7, <1>19, <2>4, <3>1
    <3>2. CASE f = 1
      BY <1>2, <1>7, <2>1, <2>6, <2>7, <3>2
    <3> QED
      BY <2>1, <3>1, <3>2
  <2>9. pushes' = Len(items') + replaced' + Retry!HandedOut + dropped'
    BY <1>2, <1>13, <1>21, <2>1, <2>2, <2>3, <2>5, <2>6, <2>7
  <2> QED
    BY <1>20, <2>8, <2>9 DEF RetryCounts
<1> QED
  BY <1>17, <1>18, <1>22 DEF RetryInv

\* What a PopDue does that hands out the items out and discards disc.
Pops(out, disc) ==
  /\ out \cap disc = {} /\ disc \cup out # {}
  /\ items' = Retry!Without(disc \cup out)
  /\ streak' = [p \in Payload |->
       IF \E i \in disc \cup out : items[i].payload = p THEN 0 ELSE streak[p]]
  /\ dropped' = dropped + Cardinality(disc)
  /\ \/ out = {} /\ handed' = handed
     \/ \E i \in 1..Len(items) :
          /\ out = {i} /\ items[i].nextAt <= clock /\ items[i].attempts < 3
          /\ handed' = [handed EXCEPT ![items[i].payload] = handed[items[i].payload] + 1]
  /\ UNCHANGED <<clock, pushes, replaced, last>>

\* The items that a PopDue takes out, and the one it hands out.
LEMMA PopFacts ==
  ASSUME RetryInv, Retry!PopDue
  PROVE  \E out \in SUBSET (1..Len(items)), disc \in SUBSET (1..Len(items)) :
           Pops(out, disc)
<1> DEFINE D == Retry!Deliverable
           disc == Retry!Discarded
           out == IF D = {} THEN {} ELSE {Retry!Min(D)}
<1>1. Waits(items, streak, last) /\ handed \in [Payload -> Nat]
  BY DEF RetryInv, RetryTypes
<1>10. disc \cup D # {}
  BY DEF Retry!PopDue
<1>2. /\ Len(items) \in Nat
      /\ \A i \in 1..Len(items) : items[i].payload \in Payload /\ items[i].attempts \in Nat
  BY <1>1, WaitsFacts
<1>3. /\ D = {i \in 1..Len(items) : items[i].nextAt <= clock /\ ~(items[i].attempts >= 3)}
      /\ \A i \in disc : i \in 1..Len(items) /\ items[i].attempts >= 3
  BY DEF Retry!Deliverable, Retry!Discarded, Retry!Due, Retry!Items, Retry!Exhausted, Retry!MaxAttempts
<1>4. /\ items' = Retry!Without(disc \cup out)
      /\ handed' = [p \in Payload |->
           IF \E i \in out : items[i].payload = p THEN handed[p] + 1 ELSE handed[p]]
      /\ streak' = Retry!LeftQueue(disc \cup out)
      /\ dropped' = dropped + Retry!Cardinality(disc)
      /\ UNCHANGED <<clock, pushes, replaced, last>>
  BY Zenon DEF Retry!PopDue
<1>5. Retry!Cardinality(disc) = Cardinality(disc)
  BY RetryNames, Zenon
<1>6. streak' = [p \in Payload |->
        IF \E i \in disc \cup out : items[i].payload = p THEN 0 ELSE streak[p]]
  BY <1>4, Zenon DEF Retry!LeftQueue
<1>7. disc \in SUBSET (1..Len(items))
  BY <1>3
<1> HIDE DEF D, disc
<1>8. CASE D = {}
  <2>1. out = {} /\ handed' = handed /\ disc \cup out # {}
    BY <1>1, <1>4, <1>8, <1>10
  <2> HIDE DEF out
  <2>2. Pops(out, disc) /\ out \in SUBSET (1..Len(items))
    BY <1>4, <1>5, <1>6, <2>1 DEF Pops
  <2> QED
    BY <1>7, <2>2
<1>9. CASE D # {}
  <2>1. D \in SUBSET Nat
    BY <1>2, <1>3
  <2>2. PICK i \in D : \A k \in D : i <= k
    BY <1>9, <2>1, LeastNatural
  <2>3. Retry!Min(D) \in D
    BY <2>2 DEF Retry!Min
  <2>4. PICK j \in D : Retry!Min(D) = j
    BY <2>3
  <2>5. out = {j}
    BY <1>9, <2>4
  <2>6. /\ j \in 1..Len(items) /\ items[j].nextAt <= clock /\ items[j].attempts < 3
        /\ items[j].payload \in Payload /\ j \notin disc
    BY <1>2, <1>3
  <2> HIDE DEF out
  <2>7. handed' = [handed EXCEPT ![items[j].payload] = handed[items[j].payload] + 1]
    BY <1>1, <1>4, <2>5, <2>6
  <2>8. out \in SUBSET (1..Len(items)) /\ out \cap disc = {} /\ disc \cup out # {}
    BY <2>5, <2>6
  <2>9. Pops(out, disc)
    BY <1>4, <1>5, <1>6, <2>5, <2>6, <2>7, <2>8 DEF Pops
  <2> QED
    BY <1>7, <2>8, <2>9
<1> QED
  BY <1>8, <1>9

LEMMA OneHanded ==
  ASSUME RetryTypes, NEW p \in Payload, handed' = [handed EXCEPT ![p] = handed[p] + 1]
  PROVE  handed' \in [Payload -> Nat] /\ Retry!HandedOut' = Retry!HandedOut + 1
<1>1. handed \in [Payload -> Nat] /\ IsFiniteSet(Payload)
  BY RetryConstants DEF RetryTypes
<1>2. PICK h : h = handed
  OBVIOUS
<1>3. PICK more : more = handed'
  OBVIOUS
<1>4. /\ h \in [Payload -> Nat] /\ more \in [Payload -> Nat]
      /\ \A x \in Payload : more[x] = IF x = p THEN h[x] + 1 ELSE h[x]
  BY <1>1, <1>2, <1>3
<1>5. PICK g : SumsUp(g, h, Payload) /\ (handed = h => Retry!HandedOut = g[Payload])
  BY <1>1, <1>4, HandedOutSums
<1>6. PICK k : SumsUp(k, more, Payload) /\ (handed' = more => Retry!HandedOut' = k[Payload])
  BY <1>1, <1>4, HandedOutSums
<1>7. k[Payload] = g[Payload] + 1
  BY <1>1, <1>4, <1>5, <1>6, SumBumps
<1> QED
  BY <1>2, <1>3, <1>4, <1>5, <1>6, <1>7

LEMMA RetryPop ==
  ASSUME RetryInv, Retry!PopDue
  PROVE  RetryInv'
<1>1. PICK out \in SUBSET (1..Len(items)), disc \in SUBSET (1..Len(items)) :
        Pops(out, disc)
  BY PopFacts
<1> DEFINE gone == disc \cup out
           m == Len(items) - Cardinality(gone)
<1>2. Waits(items, streak, last) /\ RetryTypes /\ RetryCounts
  BY DEF RetryInv
<1>3. /\ items \in Seq(RetryItem) /\ Len(items) \in Nat
      /\ \A i \in 1..Len(items) : items[i].payload \in Payload
  BY <1>2, WaitsFacts
<1>4. gone \in SUBSET (1..Len(items))
  OBVIOUS
<1>5. /\ m \in Nat
      /\ \E pos \in Bijection(1..m, (1..Len(items)) \ gone) :
           Retry!Without(gone) = [k \in 1..m |-> items[pos[k]]]
  BY <1>3, <1>4, WithoutIs
<1>6. Cardinality(gone) = Cardinality(disc) + Cardinality(out)
      /\ Cardinality(disc) \in Nat /\ Cardinality(out) \in Nat
  <2>1. IsFiniteSet(1..Len(items))
    BY <1>3, FS_Interval
  <2>2. IsFiniteSet(disc) /\ IsFiniteSet(out)
    BY <2>1, FS_Subset
  <2>3. Cardinality(gone) = Cardinality(disc) + Cardinality(out) - Cardinality(disc \cap out)
    BY <2>2, FS_Union
  <2>4. disc \cap out = {}
    BY <1>1 DEF Pops
  <2>5. Cardinality(disc \cap out) = 0
    BY <2>4, FS_EmptySet
  <2>6. Cardinality(disc) \in Nat /\ Cardinality(out) \in Nat
    BY <2>2, FS_CardinalityType
  <2> QED
    BY <2>3, <2>5, <2>6
<1>7. /\ items' = Retry!Without(gone)
      /\ streak' = [p \in Payload |-> IF \E i \in gone : items[i].payload = p THEN 0 ELSE streak[p]]
  BY <1>1 DEF Pops
<1> HIDE DEF gone, m
<1>8. PICK pos \in Bijection(1..m, (1..Len(items)) \ gone) :
        items' = [k \in 1..m |-> items[pos[k]]]
  BY <1>5, <1>7
<1>9. Waits(items', streak', last) /\ Len(items') = m
  BY <1>2, <1>4, <1>5, <1>7, <1>8, SomeLeave
<1>10. Waits(items, streak, last)'
  BY <1>1, <1>9 DEF Pops, Waits, Retry!Delay, Retry!Wrapped
<1>11. /\ handed' \in [Payload -> Nat]
       /\ Retry!HandedOut \in Nat /\ Retry!HandedOut' = Retry!HandedOut + Cardinality(out)
  <2>1. \E p : p \in Payload
    <3>1. gone # {}
      BY <1>1 DEF Pops, gone
    <3> QED
      BY <1>3, <1>4, <3>1
  <2>2. Retry!HandedOut \in Nat
    BY <1>2, <2>1, HandedType
  <2>3. CASE out = {} /\ handed' = handed
    <3>1. Retry!HandedOut' = Retry!HandedOut
      BY <2>3, Zenon DEF Retry!HandedOut, Retry!MapThenSumSet, Retry!MapThenFoldSet
    <3>2. Cardinality(out) = 0
      BY <2>3, FS_EmptySet
    <3>3. handed' \in [Payload -> Nat]
      BY <1>2, <2>3 DEF RetryTypes
    <3> QED
      BY <2>2, <3>1, <3>2, <3>3
  <2>4. ASSUME NEW i \in 1..Len(items), out = {i},
               handed' = [handed EXCEPT ![items[i].payload] = handed[items[i].payload] + 1]
        PROVE  handed' \in [Payload -> Nat] /\ Retry!HandedOut' = Retry!HandedOut + Cardinality(out)
    <3>1. items[i].payload \in Payload
      BY <1>3
    <3>2. /\ handed' \in [Payload -> Nat] /\ Retry!HandedOut' = Retry!HandedOut + 1
      BY <1>2, <2>4, <3>1, OneHanded
    <3>8. Cardinality(out) = 1
      BY <2>4, FS_Singleton
    <3> QED
      BY <3>2, <3>8
  <2> QED
    BY <1>1, <2>2, <2>3, <2>4 DEF Pops
<1>12. RetryTypes'
  BY <1>1, <1>2, <1>6, <1>11 DEF RetryTypes, Pops
<1>13. RetryCounts'
  <2>1. Len(items') = Len(items) - Cardinality(disc) - Cardinality(out) /\ Len(items') \in Nat
    BY <1>3, <1>5, <1>6, <1>9 DEF m
  <2>2. /\ pushes = Len(items) + replaced + Retry!HandedOut + dropped /\ Len(items) <= Capacity
        /\ pushes \in Nat /\ replaced \in Nat /\ dropped \in Nat /\ Capacity \in Nat
    BY <1>2, RetryConstants DEF RetryCounts, RetryTypes
  <2>3. Len(items') <= Capacity
    BY <1>3, <1>6, <2>1, <2>2
  <2>4. dropped' = dropped + Cardinality(disc) /\ pushes' = pushes /\ replaced' = replaced
    BY <1>1 DEF Pops
  <2> DEFINE before == Retry!HandedOut
             after == Retry!HandedOut'
  <2>6. before \in Nat /\ after = before + Cardinality(out)
    BY <1>11
  <2>7. pushes = Len(items) + replaced + before + dropped
    BY <2>2
  <2> DEFINE d == Cardinality(disc)
             o == Cardinality(out)
  <2>9. d \in Nat /\ o \in Nat /\ Len(items') = Len(items) - d - o /\ after = before + o
        /\ dropped' = dropped + d
    BY <1>6, <2>1, <2>4, <2>6
  <2> HIDE DEF before, after, d, o
  <2>8. pushes' = Len(items') + replaced' + after + dropped'
    BY <1>3, <2>2, <2>4, <2>6, <2>7, <2>9
  <2>5. pushes' = Len(items') + replaced' + Retry!HandedOut' + dropped'
    BY <2>8 DEF after
  <2> QED
    BY <2>3, <2>5 DEF RetryCounts
<1> QED
  BY <1>10, <1>12, <1>13 DEF RetryInv

LEMMA RetryInitial == Retry!Init => RetryInv
<1> SUFFICES ASSUME Retry!Init PROVE RetryInv
  OBVIOUS
<1>1. /\ items = <<>> /\ dropped = 0 /\ clock = 0 /\ pushes = 0 /\ replaced = 0
      /\ handed = [p \in Payload |-> 0]
      /\ streak = [p \in Payload |-> 0] /\ last = [p \in Payload |-> 0]
  BY DEF Retry!Init
<1>2. RetryTypes
  BY <1>1 DEF RetryTypes
<1>3. items \in Seq(RetryItem) /\ Len(items) = 0
  BY <1>1
<1>4. Waits(items, streak, last)
  BY <1>1, <1>3 DEF Waits
<1>5. Retry!HandedOut = 0
  <2>1. IsFiniteSet(Payload) /\ [p \in Payload |-> 0] \in [Payload -> Nat]
    BY RetryConstants
  <2>2. PICK g : /\ SumsUp(g, [p \in Payload |-> 0], Payload)
                 /\ handed = [p \in Payload |-> 0] => Retry!HandedOut = g[Payload]
    BY <2>1, HandedOutSums
  <2>3. g[Payload] = 0
    BY <2>1, <2>2, SumOfZeros
  <2> QED
    BY <1>1, <2>2, <2>3
<1>6. RetryCounts
  BY <1>1, <1>3, <1>5, RetryConstants DEF RetryCounts
<1> QED
  BY <1>2, <1>4, <1>6 DEF RetryInv

LEMMA RetrySame ==
  ASSUME RetryInv, clock' \in Nat, UNCHANGED <<items, dropped, pushes, replaced, handed, streak, last>>
  PROVE  RetryInv'
<1>1. Waits(items, streak, last)'
  BY DEF RetryInv, Waits, Retry!Delay, Retry!Wrapped
<1>2. Retry!HandedOut' = Retry!HandedOut
  BY Zenon DEF Retry!HandedOut, Retry!MapThenSumSet, Retry!MapThenFoldSet
<1>3. RetryCounts'
  BY <1>2 DEF RetryInv, RetryCounts
<1>4. RetryTypes'
  BY DEF RetryInv, RetryTypes
<1> QED
  BY <1>1, <1>3, <1>4 DEF RetryInv

LEMMA RetryStep == RetryInv /\ [LibraryNext]_libraryVars => RetryInv'
<1> SUFFICES ASSUME RetryInv, [LibraryNext]_libraryVars PROVE RetryInv'
  OBVIOUS
<1>1. clock \in Nat
  BY DEF RetryInv, RetryTypes
<1>2. CASE Retry!Tick
  BY <1>1, <1>2, RetrySame DEF Retry!Tick
<1>3. CASE UNCHANGED retryVars
  BY <1>1, <1>3, RetrySame DEF retryVars
<1>4. ASSUME NEW p \in Payload, Retry!Push(p) PROVE RetryInv'
  BY <1>4, RetryPush
<1>5. Retry!Next \/ UNCHANGED retryVars
  BY DEF LibraryNext, libraryVars
<1> QED
  BY <1>2, <1>3, <1>4, <1>5, RetryPop DEF Retry!Next

\* What waits in the queue is what was pushed and has not left, each payload
\* once, due at its backoff after its latest push.
THEOREM RetryInvariance == LibrarySpec => []RetryInv
<1>1. LibraryInit => RetryInv
  BY RetryInitial DEF LibraryInit
<1> QED
  BY <1>1, RetryStep, PTL DEF LibrarySpec

\* No push is lost from the accounts of the queue, and the attempts of a payload
\* are its pushes since it last left, whatever was evicted or discarded
\* (ingest_retry.go:45), for every capacity and any payloads.
THEOREM PushesAreCounted == LibrarySpec => []EveryPushCounted
<1>1. ASSUME RetryInv PROVE EveryPushCounted
  <2>1. Waits(items, streak, last) /\ RetryCounts
    BY <1>1 DEF RetryInv
  <2>2. \A i, k \in Retry!Items : items[i].payload = items[k].payload => i = k
    BY <2>1, WaitsFacts DEF Retry!Items
  <2>3. \A p \in Payload :
          Retry!Attempts(p) = streak[p] /\ (streak[p] > 0 <=> Retry!Matching(p) # {})
    BY <2>1, MatchingFacts
  <2> QED
    BY <2>1, <2>2, <2>3 DEF RetryCounts, EveryPushCounted, Retry!EveryPushCounted
<1> QED
  BY <1>1, RetryInvariance, PTL

\* The payload a PopDue hands out has waited for its backoff.
LEMMA PopWaits ==
  ASSUME RetryInv, Retry!PopDue, NEW p \in Payload, handed'[p] > handed[p]
  PROVE  /\ clock >= last[p] + BaseDelay * 2 ^ (streak[p] - 1)
         /\ streak[p] < Retry!MaxAttempts
<1>1. PICK out \in SUBSET (1..Len(items)), disc \in SUBSET (1..Len(items)) : Pops(out, disc)
  BY PopFacts
<1>2. /\ Waits(items, streak, last) /\ clock \in Nat
      /\ handed \in [Payload -> Nat] /\ last \in [Payload -> Nat]
  BY DEF RetryInv, RetryTypes
<1>3. handed' # handed
  BY <1>2
<1>4. PICK i \in 1..Len(items) :
        /\ items[i].nextAt <= clock /\ items[i].attempts < 3
        /\ handed' = [handed EXCEPT ![items[i].payload] = handed[items[i].payload] + 1]
  BY <1>1, <1>3 DEF Pops
<1>5. items[i].payload = p
  BY <1>2, <1>4
<1>6. /\ items[i].attempts \in Nat \ {0} /\ items[i].attempts = streak[p]
      /\ items[i].nextAt = last[p] + Retry!Delay(streak[p] - 1)
  BY <1>2, <1>5, WaitsFacts DEF Waits
<1>7. streak[p] = 1 \/ streak[p] = 2
  BY <1>4, <1>6
<1>8. BaseDelay \in Nat /\ 2 ^ 0 = 1 /\ 2 ^ 1 = 2
  BY RetryConstants
<1>9. CASE streak[p] = 1
  <2>1. Retry!Delay(streak[p] - 1) = BaseDelay
    BY <1>9, DelayFacts
  <2>2. BaseDelay * 2 ^ (streak[p] - 1) = BaseDelay
    BY <1>8, <1>9
  <2> QED
    BY <1>4, <1>6, <1>9, <2>1, <2>2 DEF Retry!MaxAttempts
<1>10. CASE streak[p] = 2
  <2>1. Retry!Delay(streak[p] - 1) = 2 * BaseDelay
    BY <1>10, DelayFacts
  <2>2. BaseDelay * 2 ^ (streak[p] - 1) = 2 * BaseDelay
    BY <1>8, <1>10
  <2> QED
    BY <1>4, <1>6, <1>10, <2>1, <2>2 DEF Retry!MaxAttempts
<1> QED
  BY <1>7, <1>9, <1>10

\* A payload is handed out no earlier than its backoff after its latest push, and
\* not at all after MaxAttempts pushes: the overflow of the delay
\* (ingest_retry.go:54) reaches nothing that is handed out, for any base delay of
\* which four fit in a duration.
THEOREM BackoffIsHonoured == LibrarySpec => BackoffHonoured
<1> DEFINE Step == \A p \in Payload : handed'[p] > handed[p] =>
                     /\ clock >= last[p] + BaseDelay * 2 ^ (streak[p] - 1)
                     /\ streak[p] < Retry!MaxAttempts
<1>1. RetryInv /\ [LibraryNext]_libraryVars => [Step]_retryVars
  <2> SUFFICES ASSUME RetryInv, [LibraryNext]_libraryVars, NEW p \in Payload,
                      handed'[p] > handed[p]
               PROVE  /\ clock >= last[p] + BaseDelay * 2 ^ (streak[p] - 1)
                      /\ streak[p] < Retry!MaxAttempts
    OBVIOUS
  <2>1. handed[p] \in Nat
    BY DEF RetryInv, RetryTypes
  <2>2. handed' # handed
    BY <2>1
  <2>3. Retry!PopDue
    BY <2>2 DEF LibraryNext, libraryVars, retryVars, Retry!Next, Retry!Push, Retry!Tick
  <2> QED
    BY <2>3, PopWaits
<1>2. LibrarySpec => [][Step]_retryVars
  <2> HIDE DEF Step
  <2> QED
    BY <1>1, RetryInvariance, PTL DEF LibrarySpec
<1> QED
  BY <1>2 DEF BackoffHonoured, Retry!BackoffHonoured, Retry!vars, retryVars

-----------------------------------------------------------------------------
(* The backpressure monitor. *)

LEMMA MonitorNames ==
  /\ \A S : Monitor!Cardinality(S) = Cardinality(S)
  /\ \A S, T : Monitor!Bijection(S, T) = Bijection(S, T)
<1>1. \A S : Monitor!Cardinality(S) = Cardinality(S)
  BY Zenon DEF Monitor!Cardinality, Cardinality
<1>2. \A S, T : Monitor!Bijection(S, T) = Bijection(S, T)
  BY Zenon DEF Monitor!Bijection, Monitor!Injection, Monitor!Surjection, Monitor!IsInjective,
               Bijection, Injection, Surjection, IsInjective
<1> QED
  BY <1>1, <1>2

MonitorInv ==
  /\ durations \in Seq(Nat) /\ recorded \in Seq(Nat)
  /\ Len(durations) <= Len(recorded)
  /\ Monitor!SamplesAreLatest

LEMMA MonitorConstants == MonitorCapacity \in Nat \ {0} /\ Duration \subseteq Int
BY LibraryAssumption DEF LibraryAssumption, Monitor!MonitorParameters

\* Sorted puts the samples in order.
LEMMA SortedFacts ==
  ASSUME durations \in Seq(Nat)
  PROVE  \E p : Arranges(p, Monitor!Sorted, durations, Len(durations))
<1> DEFINE n == Len(durations)
           By(p) == [k \in 1..n |-> durations[p[k]]]
           All == {By(p) : p \in Bijection(1..n, 1..n)}
           InOrder1(s) == \A k \in 2..n : s[k - 1] <= s[k]
           sorted == CHOOSE s \in All : InOrder1(s)
<1>1. n \in Nat /\ durations \in [1..n -> Nat]
  OBVIOUS
<1>2. Monitor!Sorted = sorted
  BY MonitorNames, Zenon DEF Monitor!Sorted
<1>3. \E s \in All : InOrder1(s)
  <2>1. PICK p \in Bijection(1..n, 1..n) : \A k \in 2..n : durations[p[k - 1]] <= durations[p[k]]
    BY <1>1, SortExists
  <2>2. \A k \in 2..n : k - 1 \in 1..n /\ k \in 1..n
    BY <1>1
  <2>3. \A k \in 1..n : By(p)[k] = durations[p[k]]
    OBVIOUS
  <2>4. By(p) \in All
    BY <2>1
  <2> HIDE DEF By, All
  <2>5. InOrder1(By(p))
    BY <2>1, <2>2, <2>3
  <2> QED
    BY <2>4, <2>5
<1>4. sorted \in All /\ InOrder1(sorted)
  <2> HIDE DEF All, InOrder1
  <2> QED
    BY <1>3, Zenon
<1> HIDE DEF sorted
<1>5. PICK p \in Bijection(1..n, 1..n) : sorted = By(p)
  BY <1>4
<1>6. p \in [1..n -> 1..n]
  BY DEF Bijection, Injection
<1>7. sorted \in [1..n -> Nat] /\ \A k \in 1..n : sorted[k] = durations[p[k]]
  <2> HIDE DEF n
  <2> QED
    BY <1>1, <1>5, <1>6
<1>8. \A j, k \in 1..n : j <= k => sorted[j] <= sorted[k]
  <2>1. \A k \in 2..n : sorted[k - 1] <= sorted[k]
    BY <1>4
  <2> HIDE DEF n
  <2> QED
    BY <1>1, <1>7, <2>1, InOrder
<1> QED
  BY <1>1, <1>2, <1>7, <1>8 DEF Arranges

\* One quantile of the samples.
LEMMA QuantileHolds ==
  ASSUME durations \in Seq(Nat), NEW pct \in Nat, NEW r \in 1..Len(durations),
         100 * r >= pct * Len(durations), 100 * (r - 1) < pct * Len(durations)
  PROVE  Monitor!IsQuantile(Monitor!Sorted[r], pct)
<1> DEFINE n == Len(durations)
<1>1. n \in Nat /\ durations \in [1..n -> Nat]
  OBVIOUS
<1>2. PICK p : Arranges(p, Monitor!Sorted, durations, n)
  BY SortedFacts
<1>3. PICK w \in Nat : w = pct * n /\ r \in 1..n /\ 100 * r >= w /\ 100 * (r - 1) < w
  <2>1. pct * n \in Nat
    BY <1>1
  <2> QED
    BY <2>1
<1> HIDE DEF n
<1>4. LeastToReach(Monitor!Sorted[r], w, durations, n)
  BY <1>1, <1>2, <1>3, RankIsQuantile
<1> QED
  BY <1>3, <1>4, MonitorNames, Zenon DEF Monitor!IsQuantile, LeastToReach, UpTo, n

\* The ranks that a snapshot looks at are the least that reach the percentage.
LEMMA RanksReach ==
  ASSUME NEW n \in Nat, n > 0
  PROVE  /\ LET r == (n - 1) \div 2 + 1
            IN  r \in 1..n /\ 100 * r >= 50 * n /\ 100 * (r - 1) < 50 * n
         /\ LET r == Monitor!Rank(95, n)
            IN  r \in 1..n /\ 100 * r >= 95 * n /\ 100 * (r - 1) < 95 * n
         /\ LET r == Monitor!Rank(99, n)
            IN  r \in 1..n /\ 100 * r >= 99 * n /\ 100 * (r - 1) < 99 * n
         /\ n \in 1..n /\ 100 * n >= 100 * n /\ 100 * (n - 1) < 100 * n
BY DEF Monitor!Rank

LEMMA SnapshotHolds ==
  ASSUME MonitorInv
  PROVE  SnapshotOfLatest
<1>1. durations \in Seq(Nat) /\ Monitor!SamplesAreLatest
  BY DEF MonitorInv
<1>2. CASE durations = <<>>
  BY <1>1, <1>2 DEF SnapshotOfLatest, Monitor!SnapshotOfLatest
<1>3. CASE durations # <<>>
  <2> DEFINE n == Len(durations)
  <2>1. n \in Nat /\ n > 0
    BY <1>1, <1>3
  <2>2. Monitor!IsQuantile(Monitor!Sorted[(n - 1) \div 2 + 1], 50)
    <3> DEFINE r == (n - 1) \div 2 + 1
    <3>1. r \in 1..n /\ 100 * r >= 50 * n /\ 100 * (r - 1) < 50 * n
      BY <2>1, RanksReach
    <3>2. 50 \in Nat
      OBVIOUS
    <3> HIDE DEF r
    <3>3. Monitor!IsQuantile(Monitor!Sorted[r], 50)
      BY <1>1, <3>1, <3>2, QuantileHolds, Zenon
    <3> QED
      BY <3>3 DEF r
  <2>3. Monitor!IsQuantile(Monitor!Sorted[Monitor!Rank(95, n)], 95)
    <3> DEFINE r == Monitor!Rank(95, n)
    <3>1. r \in 1..n /\ 100 * r >= 95 * n /\ 100 * (r - 1) < 95 * n
      BY <2>1, RanksReach
    <3>2. 95 \in Nat
      OBVIOUS
    <3> HIDE DEF r
    <3>3. Monitor!IsQuantile(Monitor!Sorted[r], 95)
      BY <1>1, <3>1, <3>2, QuantileHolds, Zenon
    <3> QED
      BY <3>3 DEF r
  <2>4. Monitor!IsQuantile(Monitor!Sorted[Monitor!Rank(99, n)], 99)
    <3> DEFINE r == Monitor!Rank(99, n)
    <3>1. r \in 1..n /\ 100 * r >= 99 * n /\ 100 * (r - 1) < 99 * n
      BY <2>1, RanksReach
    <3>2. 99 \in Nat
      OBVIOUS
    <3> HIDE DEF r
    <3>3. Monitor!IsQuantile(Monitor!Sorted[r], 99)
      BY <1>1, <3>1, <3>2, QuantileHolds, Zenon
    <3> QED
      BY <3>3 DEF r
  <2>5. Monitor!IsQuantile(Monitor!Sorted[n], 100)
    <3> DEFINE r == n
    <3>1. r \in 1..n /\ 100 * r >= 100 * n /\ 100 * (r - 1) < 100 * n
      BY <2>1, RanksReach
    <3>2. 100 \in Nat
      OBVIOUS
    <3> HIDE DEF r
    <3>3. Monitor!IsQuantile(Monitor!Sorted[r], 100)
      BY <1>1, <3>1, <3>2, QuantileHolds, Zenon
    <3> QED
      BY <3>3 DEF r
  <2>6. /\ Monitor!Snapshot.p50 = Monitor!Sorted[(n - 1) \div 2 + 1]
        /\ Monitor!Snapshot.p95 = Monitor!Sorted[Monitor!Rank(95, n)]
        /\ Monitor!Snapshot.p99 = Monitor!Sorted[Monitor!Rank(99, n)]
        /\ Monitor!Snapshot.max = Monitor!Sorted[n]
    BY <1>3 DEF Monitor!Snapshot, Monitor!Quantile
  <2> QED
    BY <1>1, <2>2, <2>3, <2>4, <2>5, <2>6 DEF SnapshotOfLatest, Monitor!SnapshotOfLatest
<1> QED
  BY <1>2, <1>3

LEMMA MonitorInitial == Monitor!Init => MonitorInv
<1> SUFFICES ASSUME Monitor!Init PROVE MonitorInv
  OBVIOUS
<1>1. durations = <<>> /\ recorded = <<>>
  BY DEF Monitor!Init
<1>2. durations \in Seq(Nat) /\ recorded \in Seq(Nat) /\ Len(durations) = 0 /\ Len(recorded) = 0
  BY <1>1
<1>3. durations = SubSeq(recorded, Len(recorded) - Len(durations) + 1, Len(recorded))
  BY <1>1
<1> QED
  BY <1>2, <1>3, MonitorConstants DEF MonitorInv, Monitor!SamplesAreLatest

LEMMA MonitorRecord ==
  ASSUME MonitorInv, NEW d \in Duration, Monitor!Record(d)
  PROVE  MonitorInv'
<1> DEFINE k == Len(durations)
           n == Len(recorded)
           x == Monitor!Clamped(d)
           more == Append(durations, x)
           c == IF k + 1 > MonitorCapacity THEN MonitorCapacity \div 2 ELSE 0
<1>1. MonitorCapacity \in Nat \ {0}
  BY MonitorConstants
<1>2. x \in Nat
  BY MonitorConstants DEF Monitor!Clamped
<1>3. /\ durations \in Seq(Nat) /\ recorded \in Seq(Nat) /\ k \in Nat /\ n \in Nat
      /\ durations = SubSeq(recorded, n - k + 1, n) /\ k <= n
      /\ n <= MonitorCapacity => durations = recorded
      /\ n > MonitorCapacity => 2 * k > MonitorCapacity
      /\ MonitorCapacity > 1 => k <= MonitorCapacity
  BY DEF MonitorInv, Monitor!SamplesAreLatest
<1>4. durations' = Monitor!Trimmed(more) /\ recorded' = Append(recorded, x)
  BY DEF Monitor!Record
<1> HIDE DEF x
<1>5. Len(more) = k + 1 /\ more \in Seq(Nat) /\ more = SubSeq(more, 1, k + 1)
  BY <1>2, <1>3
<1>7. c \in Nat /\ c <= k + 1
  BY <1>1, <1>3
<1> HIDE DEF more
<1>6. durations' = IF Len(more) > MonitorCapacity
                   THEN SubSeq(more, MonitorCapacity \div 2 + 1, Len(more)) ELSE more
  BY <1>4 DEF Monitor!Trimmed
<1>8. durations' = SubSeq(more, c + 1, k + 1)
  <2>1. CASE k + 1 > MonitorCapacity
    <3>1. Len(more) > MonitorCapacity /\ c = MonitorCapacity \div 2
      BY <1>5, <2>1
    <3> HIDE DEF c, k
    <3> QED
      BY <1>5, <1>6, <3>1
  <2>2. CASE ~(k + 1 > MonitorCapacity)
    <3>1. ~(Len(more) > MonitorCapacity) /\ c + 1 = 1
      BY <1>5, <2>2
    <3> HIDE DEF c, k
    <3> QED
      BY <1>5, <1>6, <3>1
  <2> QED
    BY <2>1, <2>2
<1>9. /\ durations' \in Seq(Nat) /\ Len(durations') = k + 1 - c
      /\ recorded' \in Seq(Nat) /\ Len(recorded') = n + 1
      /\ durations' = SubSeq(recorded', (n + 1) - (k + 1 - c) + 1, n + 1)
      /\ k + 1 - c <= n + 1
  <2>1. Latest(durations, k, recorded)
    BY <1>3 DEF Latest
  <2>2. recorded' \in Seq(Nat) /\ Len(recorded') = n + 1
    BY <1>2, <1>3, <1>4, AppendsLast
  <2>3. durations' = SubSeq(Append(durations, x), c + 1, k + 1)
    BY <1>8 DEF more
  <2> HIDE DEF c, k
  <2>4. /\ durations' \in Seq(Nat) /\ Len(durations') = k + 1 - c
        /\ Latest(durations', k + 1 - c, Append(recorded, x))
    <3>1. Latest(durations', k + 1 - c, Append(recorded, x))
      BY <1>2, <1>3, <1>7, <2>1, <2>3, LatestKept
    <3>2. k + 1 - c \in Nat /\ Append(recorded, x) \in Seq(Nat)
      BY <1>3, <1>4, <1>7, <2>2
    <3> QED
      BY <3>1, <3>2, LatestFacts
  <2> QED
    BY <1>4, <2>2, <2>4 DEF Latest
<1>10. n + 1 <= MonitorCapacity => durations' = recorded'
  <2> SUFFICES ASSUME n + 1 <= MonitorCapacity PROVE durations' = recorded'
    OBVIOUS
  <2>1. durations = recorded
    BY <1>1, <1>3
  <2>2. k = n /\ c = 0
    BY <1>1, <1>3, <2>1
  <2>3. durations' = more
    BY <1>5, <1>8, <2>2
  <2> QED
    BY <1>4, <2>1, <2>3 DEF more
<1>11. n + 1 > MonitorCapacity => 2 * (k + 1 - c) > MonitorCapacity
  <2> SUFFICES ASSUME n + 1 > MonitorCapacity PROVE 2 * (k + 1 - c) > MonitorCapacity
    OBVIOUS
  <2>1. CASE n = MonitorCapacity
    <3>1. durations = recorded
      BY <1>1, <1>3, <2>1
    <3>2. k = n
      BY <3>1
    <3> QED
      BY <1>1, <2>1, <3>2
  <2>2. CASE n # MonitorCapacity
    BY <1>1, <1>3, <2>2
  <2> QED
    BY <2>1, <2>2
<1>12. MonitorCapacity > 1 => k + 1 - c <= MonitorCapacity
  BY <1>1, <1>3
<1>13. \A i \in 1..Len(durations') : durations'[i] >= 0
  <2>1. \A i \in 1..Len(durations') : durations'[i] \in Nat
    BY <1>9, SeqElements
  <2> QED
    BY <2>1
<1> HIDE DEF c, k, n
<1> QED
  BY <1>9, <1>10, <1>11, <1>12, <1>13 DEF MonitorInv, Monitor!SamplesAreLatest

LEMMA MonitorStep == MonitorInv /\ [LibraryNext]_libraryVars => MonitorInv'
<1> SUFFICES ASSUME MonitorInv, [LibraryNext]_libraryVars PROVE MonitorInv'
  OBVIOUS
<1>1. CASE Monitor!Reset
  <2>1. durations' = <<>> /\ recorded' = <<>>
    BY <1>1 DEF Monitor!Reset
  <2>2. /\ durations' \in Seq(Nat) /\ recorded' \in Seq(Nat)
        /\ Len(durations') = 0 /\ Len(recorded') = 0
    BY <2>1
  <2>3. durations' = SubSeq(recorded', Len(recorded') - Len(durations') + 1, Len(recorded'))
    BY <2>1
  <2>4. \A i \in 1..Len(durations') : durations'[i] >= 0
    BY <2>2
  <2>5. Len(recorded') <= MonitorCapacity /\ ~(Len(recorded') > MonitorCapacity)
    BY <2>2, MonitorConstants
  <2>6. Len(durations') <= Len(recorded') /\ Len(durations') <= MonitorCapacity
    BY <2>2, MonitorConstants
  <2>7. durations' = recorded'
    BY <2>1
  <2> QED
    BY <2>2, <2>3, <2>4, <2>5, <2>6, <2>7 DEF MonitorInv, Monitor!SamplesAreLatest
<1>2. ASSUME NEW d \in Duration, Monitor!Record(d) PROVE MonitorInv'
  BY <1>2, MonitorRecord
<1>3. CASE UNCHANGED monitorVars
  BY <1>3 DEF monitorVars, MonitorInv, Monitor!SamplesAreLatest
<1>4. Monitor!Next \/ UNCHANGED monitorVars
  BY DEF LibraryNext, libraryVars
<1> QED
  BY <1>1, <1>2, <1>3, <1>4 DEF Monitor!Next

\* A snapshot of the monitor shows the median, the 95th and 99th percentile and
\* the maximum, ties included, of the latest durations, and never of fewer than
\* half the capacity once that many were recorded (ingest_backpressure.go:41), for
\* every capacity, any durations and any number of records.
THEOREM SnapshotIsOfLatest == LibrarySpec => []SnapshotOfLatest
<1>1. LibraryInit => MonitorInv
  BY MonitorInitial DEF LibraryInit
<1>2. LibrarySpec => []MonitorInv
  BY <1>1, MonitorStep, PTL DEF LibrarySpec
<1>3. MonitorInv => SnapshotOfLatest
  BY SnapshotHolds
<1> QED
  BY <1>2, <1>3, PTL
-----------------------------------------------------------------------------
(* The frame codec. *)

\* n is the largest, or the smallest, member of A.
Largest(n, A) == n \in A /\ \A k \in A : n >= k
Smallest(n, A) == n \in A /\ \A k \in A : n <= k

LEMMA MaxIs ==
  ASSUME NEW A, A \subseteq Int, NEW n, Largest(n, A)
  PROVE  Max(A) = n
<1>1. \A k : Largest(k, A) => k = n
  BY DEF Largest
<1>2. Max(A) = CHOOSE k \in A : \A j \in A : k >= j
  BY DEF Max
<1>3. Largest(Max(A), A)
  BY <1>2 DEF Largest
<1> QED
  BY <1>1, <1>3

LEMMA MinIs ==
  ASSUME NEW A, A \subseteq Int, NEW n, Smallest(n, A)
  PROVE  Min(A) = n
<1>1. \A k : Smallest(k, A) => k = n
  BY DEF Smallest
<1>2. Min(A) = CHOOSE k \in A : \A j \in A : k <= j
  BY DEF Min
<1>3. Smallest(Min(A), A)
  BY <1>2 DEF Smallest
<1> QED
  BY <1>1, <1>3

LEMMA LargestExists ==
  ASSUME NEW A, A \subseteq Nat, A # {}, NEW m \in Nat, \A k \in A : k <= m
  PROVE  \E n : Largest(n, A)
<1> DEFINE B == {d \in Nat : m - d \in A}
<1>1. B # {}
  <2>1. PICK k \in A : k \in Nat /\ k <= m
    OBVIOUS
  <2>2. m - k \in Nat /\ m - (m - k) = k
    BY <2>1
  <2> QED
    BY <2>1, <2>2
<1>2. PICK d \in B : \A e \in B : d <= e
  BY <1>1, LeastNatural
<1>3. \A k \in A : m - k \in B
  <2> SUFFICES ASSUME NEW k \in A PROVE m - k \in Nat /\ m - (m - k) = k
    OBVIOUS
  <2>1. k \in Nat /\ k <= m
    OBVIOUS
  <2> QED
    BY <2>1
<1>4. \A k \in A : m - d >= k
  <2> SUFFICES ASSUME NEW k \in A PROVE m - d >= k
    OBVIOUS
  <2>1. d <= m - k /\ k \in Nat /\ d \in Nat
    BY <1>2, <1>3
  <2> QED
    BY <2>1
<1> QED
  BY <1>2, <1>4 DEF Largest

\* Half of the words are negative samples.
LEMMA SampleRange ==
  \E half \in Nat \ {0} :
    /\ half = 2 ^ (SampleBits - 1) /\ 2 ^ SampleBits = 2 * half
    /\ MinSample = -half /\ MaxSample = half - 1 /\ Sample = (-half)..(half - 1)
<1>1. SampleBits - 1 \in Nat /\ (SampleBits - 1) + 1 = SampleBits
  BY CodecAssumption DEF CodecParameters
<1> DEFINE half == 2 ^ (SampleBits - 1)
<1>2. half \in Nat \ {0} /\ 2 ^ ((SampleBits - 1) + 1) = 2 * half
  BY <1>1, Powers
<1>3. 2 ^ SampleBits = 2 * half
  BY <1>1, <1>2
<1> QED
  BY <1>2, <1>3 DEF MinSample, MaxSample, Sample

LEMMA WordIsSample ==
  ASSUME NEW v \in Sample
  PROVE  SampleOf(Word(v)) = v
<1>1. PICK half \in Nat \ {0} :
        /\ 2 ^ SampleBits = 2 * half /\ MaxSample = half - 1 /\ Sample = (-half)..(half - 1)
  BY SampleRange
<1>2. PICK h \in Nat \ {0} : h = 2 * half
  OBVIOUS
<1>3. v \in Int /\ -half <= v /\ v < half
  BY <1>1
<1>4. CASE 0 <= v
  <2>1. 0 <= v /\ v < h
    BY <1>2, <1>3, <1>4
  <2>2. v % h = v
    BY <1>3, <2>1
  <2> QED
    BY <1>1, <1>2, <1>3, <2>2 DEF Word, SampleOf
<1>5. CASE v < 0
  <2>1. 0 <= v + h /\ v + h < h /\ half <= v + h
    BY <1>2, <1>3, <1>5
  <2>2. v % h = v + h
    <3>1. v \in Int /\ -h <= v
      BY <1>3, <2>1
    <3> QED
      BY <1>5, <3>1, RemainderBelowZero
  <2>3. ~(v + h <= half - 1)
    BY <1>3, <2>1
  <2> QED
    BY <1>1, <1>2, <1>3, <2>1, <2>2, <2>3 DEF Word, SampleOf
<1> QED
  BY <1>3, <1>4, <1>5

\* The padding comes off again, if the code does not end in it.
LEMMA FieldTrimmed ==
  ASSUME NEW code \in Seq(STRING), ~NulAtEnd(code), NEW width \in Nat, Len(code) <= width
  PROVE  TrimPadding(FixedField(code, width)) = code
<1> DEFINE field == FixedField(code, width)
           ends == {0} \cup {k \in 1..Len(field) : field[k] # "nul"}
<1>1. PICK n \in Nat : n = Len(code) /\ n <= width /\ code = [k \in 1..n |-> code[k]]
  OBVIOUS
<1>2. /\ field \in Seq(STRING \cup {"nul"}) /\ Len(field) = width
      /\ \A k \in 1..width : field[k] = IF k <= n THEN code[k] ELSE "nul"
  <2>1. field = [k \in 1..width |-> IF k <= n THEN code[k] ELSE "nul"]
    BY <1>1 DEF FixedField
  <2>2. \A k \in 1..width : (IF k <= n THEN code[k] ELSE "nul") \in (STRING \cup {"nul"})
    <3> SUFFICES ASSUME NEW k \in 1..width PROVE (IF k <= n THEN code[k] ELSE "nul") \in (STRING \cup {"nul"})
      OBVIOUS
    <3>1. CASE k <= n
      <4>1. k \in 1..Len(code)
        BY <1>1, <3>1
      <4>2. code[k] \in STRING
        BY <4>1
      <4> QED
        BY <3>1, <4>2
    <3>2. CASE ~(k <= n)
      BY <3>2
    <3> QED
      BY <3>1, <3>2
  <2> HIDE DEF field
  <2>3. field \in [1..width -> (STRING \cup {"nul"})]
    BY <2>1, <2>2
  <2> QED
    BY <2>1, <2>3
<1> HIDE DEF field
<1>3. Largest(n, ends)
  <2>1. n \in ends
    <3>1. CASE n = 0
      BY <3>1
    <3>2. CASE n # 0
      <4>1. code # <<>> /\ code[n] # "nul"
        BY <1>1, <3>2 DEF NulAtEnd, Last
      <4>2. n \in 1..width /\ n <= n
        BY <1>1, <3>2
      <4>3. field[n] = code[n]
        BY <1>2, <4>2
      <4> QED
        BY <1>2, <4>1, <4>2, <4>3
    <3> QED
      BY <3>1, <3>2
  <2>2. ASSUME NEW k \in ends PROVE n >= k
    <3>1. CASE k = 0
      BY <3>1
    <3>2. CASE k # 0
      <4>1. k \in 1..width /\ field[k] # "nul"
        BY <1>2, <3>2
      <4> QED
        BY <1>2, <4>1
    <3> QED
      BY <3>1, <3>2
  <2> QED
    BY <2>1, <2>2 DEF Largest
<1>4. ends \subseteq Int
  OBVIOUS
<1> HIDE DEF ends
<1>5. Max(ends) = n
  BY <1>3, <1>4, MaxIs
<1>6. TrimPadding(field) = SubSeq(field, 1, n)
  BY <1>5 DEF TrimPadding, ends
<1>7. SubSeq(field, 1, n) = [k \in 1..n |-> field[k]]
  BY <1>1, <1>2, FrontPart
<1>8. \A k \in 1..n : field[k] = code[k]
  <2> SUFFICES ASSUME NEW k \in 1..n PROVE field[k] = code[k]
    OBVIOUS
  <2>1. k \in 1..width /\ k <= n
    BY <1>1
  <2> QED
    BY <1>2, <2>1
<1> QED
  BY <1>1, <1>6, <1>7, <1>8 DEF field

\* A frame that is built is accepted and decoded to what it was built from.
LEMMA BuiltIsDecoded ==
  ASSUME samples \in Seq(Sample), NEW h \in Headers, Buildable(h, samples),
         ~NulAtEnd(h.station), ~NulAtEnd(h.channel)
  PROVE  /\ Decodable(Build(h, samples))
         /\ Decode(Build(h, samples)) =
              [station |-> h.station, channel |-> h.channel, start |-> h.start,
               rate |-> h.rate, samples |-> samples]
<1> DEFINE frame == Build(h, samples)
<1>1. PICK n \in Nat : n = Len(samples) /\ samples = [k \in 1..n |-> samples[k]]
                       /\ \A k \in 1..n : samples[k] \in Sample
  OBVIOUS
<1>2. /\ h.station \in Seq(STRING) /\ h.channel \in Seq(STRING) /\ h.count = n /\ h.rate = "valid"
      /\ Len(h.station) <= StationWidth /\ Len(h.channel) <= ChannelWidth /\ n <= MaxCount
      /\ {StationWidth, ChannelWidth} \subseteq Nat
      /\ ~Blank(h.station) /\ ~Blank(h.channel)
  BY <1>1, InputAssumption, CodecAssumption DEF Headers, Buildable, CodecParameters
<1>3. TrimPadding(frame.station) = h.station /\ TrimPadding(frame.channel) = h.channel
  BY <1>2, FieldTrimmed DEF Build
<1>4. h.station # <<>> /\ h.channel # <<>>
  BY <1>2 DEF Blank
<1>5. /\ frame.magic = TRUE /\ frame.rate = "valid" /\ frame.count = n /\ frame.start = h.start
      /\ frame.body = [k \in 1..n |-> Word(samples[k])]
  BY <1>1, <1>2 DEF Build
<1> HIDE DEF frame
<1>6. Len(frame.body) = n
  BY <1>5
<1>7. Decodable(frame)
  BY <1>2, <1>3, <1>4, <1>5, <1>6 DEF Decodable
<1>8. [k \in 1..n |-> SampleOf(frame.body[k])] = samples
  <2>1. \A k \in 1..n : SampleOf(frame.body[k]) = samples[k]
    BY <1>1, <1>5, WordIsSample
  <2> QED
    BY <1>1, <2>1
<1>9. Decode(frame) = [station |-> h.station, channel |-> h.channel, start |-> h.start,
                       rate |-> h.rate, samples |-> samples]
  BY <1>2, <1>3, <1>5, <1>8 DEF Decode
<1> QED
  BY <1>7, <1>9 DEF frame

\* v is decoded from the differences.
DecodedFrom(v, deltas, first) ==
  v = [k \in 1..Len(deltas) |-> IF k = 1 THEN first ELSE Clamp(v[k - 1] + deltas[k])]

\* The differences of samples, and nothing but them, lead back to the samples.
LEMMA DeltasDecode ==
  ASSUME NEW s \in Seq(Sample), s # <<>>
  PROVE  DeltaDecode(DeltaEncode(s), Head(s)) = s
<1> DEFINE deltas == DeltaEncode(s)
<1>1. PICK half \in Nat \ {0} :
        MinSample = -half /\ MaxSample = half - 1 /\ Sample = (-half)..(half - 1)
  BY SampleRange
<1>2. PICK n \in Nat \ {0} : /\ n = Len(s) /\ s = [k \in 1..n |-> s[k]] /\ Head(s) = s[1]
                             /\ \A k \in 1..n : s[k] \in Sample
  OBVIOUS
<1>3. deltas = [k \in 1..n |-> IF k = 1 THEN s[1] ELSE s[k] - s[k - 1]]
  BY <1>2 DEF DeltaEncode
<1> HIDE DEF deltas
<1>4. Len(deltas) = n
  BY <1>3
<1>5. ASSUME NEW k \in 2..n PROVE Clamp(s[k - 1] + deltas[k]) = s[k]
  <2>1. k \in 1..n /\ k - 1 \in 1..n /\ k # 1
    OBVIOUS
  <2>2. s[k] \in Sample /\ s[k - 1] \in Sample /\ deltas[k] = s[k] - s[k - 1]
    BY <1>2, <1>3, <2>1
  <2> QED
    BY <1>1, <2>2 DEF Clamp
<1>6. DecodedFrom(s, deltas, s[1])
  <2>1. \A k \in 1..n : s[k] = IF k = 1 THEN s[1] ELSE Clamp(s[k - 1] + deltas[k])
    BY <1>5
  <2> QED
    BY <1>2, <1>4, <2>1 DEF DecodedFrom
<1>7. ASSUME NEW v, DecodedFrom(v, deltas, s[1]) PROVE v = s
  <2> DEFINE A == {k \in Nat : k + 1 <= n => v[k + 1] = s[k + 1]}
  <2>1. v = [k \in 1..n |-> IF k = 1 THEN s[1] ELSE Clamp(v[k - 1] + deltas[k])]
    BY <1>4, <1>7 DEF DecodedFrom
  <2>2. v[1] = s[1] /\ \A k \in 2..n : v[k] = Clamp(v[k - 1] + deltas[k])
    BY <2>1
  <2>3. 0 \in A
    BY <2>2
  <2>4. ASSUME NEW k \in Nat, k \in A PROVE k + 1 \in A
    <3> SUFFICES ASSUME (k + 1) + 1 <= n PROVE v[(k + 1) + 1] = s[(k + 1) + 1]
      OBVIOUS
    <3>1. PICK j \in 2..n : j = (k + 1) + 1 /\ j - 1 = k + 1
      OBVIOUS
    <3>2. v[j - 1] = s[j - 1]
      BY <2>4, <3>1
    <3> QED
      BY <1>5, <2>2, <3>1, <3>2
  <2> HIDE DEF A
  <2>5. \A k \in Nat : k \in A
    BY <2>3, <2>4, Induction
  <2>6. \A k \in 1..n : v[k] = s[k]
    <3> SUFFICES ASSUME NEW k \in 1..n PROVE v[k] = s[k]
      OBVIOUS
    <3>1. PICK j \in Nat : k = j + 1 /\ j \in A
      <4>1. k - 1 \in Nat /\ k = (k - 1) + 1
        OBVIOUS
      <4> QED
        BY <2>5, <4>1
    <3> QED
      BY <3>1 DEF A
  <2>7. v = [k \in 1..n |-> v[k]]
    BY <2>1
  <2> QED
    BY <1>2, <2>6, <2>7
<1>8. DeltaDecode(deltas, s[1]) = CHOOSE v : DecodedFrom(v, deltas, s[1])
  BY Zenon DEF DeltaDecode, DecodedFrom
<1>9. DecodedFrom(DeltaDecode(deltas, s[1]), deltas, s[1])
  BY <1>6, <1>8, Zenon
<1> QED
  BY <1>2, <1>7, <1>9 DEF deltas

LEMMA ZigZagBack ==
  ASSUME NEW n \in Int
  PROVE  ZigZagDecode(ZigZagEncode(n)) = n
<1>1. CASE n >= 0
  <2>1. (2 * n) % 2 = 0 /\ (2 * n) \div 2 = n
    OBVIOUS
  <2> QED
    BY <1>1, <2>1 DEF ZigZagEncode, ZigZagDecode
<1>2. CASE n < 0
  <2>1. (-2 * n - 1) % 2 = 1 /\ (-2 * n - 1) \div 2 = -n - 1
    OBVIOUS
  <2>2. ZigZagEncode(n) = -2 * n - 1
    BY <1>2 DEF ZigZagEncode
  <2> QED
    BY <2>1, <2>2 DEF ZigZagDecode
<1> QED
  BY <1>1, <1>2

LEMMA ZigZagDecodes ==
  ASSUME NEW s \in Seq(Sample), s # <<>>
  PROVE  DeltaDecodeZigZag(DeltaEncodeZigZag(s), Head(s)) = s
<1> DEFINE d == DeltaEncode(s)
           z == DeltaEncodeZigZag(s)
<1>1. PICK n \in Nat : n = Len(s) /\ d = [k \in 1..n |-> IF k = 1 THEN s[1] ELSE s[k] - s[k - 1]]
                       /\ \A k \in 1..n : s[k] \in Sample
  BY DEF DeltaEncode
<1>2. Sample \subseteq Int
  BY SampleRange
<1>3. \A k \in 1..n : d[k] \in Int
  <2> SUFFICES ASSUME NEW k \in 1..n PROVE d[k] \in Int
    OBVIOUS
  <2>1. CASE k = 1
    BY <1>1, <1>2, <2>1
  <2>2. CASE k # 1
    <3>1. k - 1 \in 1..n
      BY <2>2
    <3>2. s[k] \in Int /\ s[k - 1] \in Int /\ d[k] = s[k] - s[k - 1]
      BY <1>1, <1>2, <2>2, <3>1
    <3> QED
      BY <3>2
  <2> QED
    BY <2>1, <2>2
<1> HIDE DEF d
<1>4. Len(d) = n /\ d = [k \in 1..n |-> d[k]]
  BY <1>1
<1>5. z = [k \in 1..n |-> ZigZagEncode(d[k])]
  BY <1>4 DEF DeltaEncodeZigZag, d
<1> HIDE DEF z
<1>6. Len(z) = n
  BY <1>5
<1>7. [k \in 1..Len(z) |-> ZigZagDecode(z[k])] = d
  <2>1. \A k \in 1..n : ZigZagDecode(z[k]) = d[k]
    BY <1>3, <1>5, ZigZagBack
  <2> QED
    BY <1>4, <1>6, <2>1
<1>8. DeltaDecodeZigZag(z, Head(s)) = DeltaDecode(d, Head(s))
  BY <1>7 DEF DeltaDecodeZigZag
<1> QED
  BY <1>8, DeltasDecode DEF d, z

\* The magnitude of a difference.
Magnitude(d) == IF d < 0 THEN -d ELSE d

\* The largest magnitude of deltas is m.
LargestDelta(m, deltas) ==
  /\ m \in Nat /\ \A d \in Range(deltas) : Magnitude(d) <= m
  /\ m = 0 \/ \E d \in Range(deltas) : Magnitude(d) = m

LEMMA MaxAbsDeltaIs ==
  ASSUME NEW deltas, Range(deltas) \subseteq Int,
         NEW limit \in Nat, \A d \in Range(deltas) : Magnitude(d) <= limit
  PROVE  LargestDelta(MaxAbsDelta(deltas), deltas) /\ MaxAbsDelta(deltas) <= limit
<1> DEFINE A == {0} \cup {Magnitude(d) : d \in Range(deltas)}
<1>1. \A d \in Range(deltas) : Magnitude(d) \in Nat
  <2> SUFFICES ASSUME NEW d \in Range(deltas) PROVE Magnitude(d) \in Nat
    OBVIOUS
  <2>1. d \in Int
    OBVIOUS
  <2> QED
    BY <2>1 DEF Magnitude
<1>2. A \subseteq Nat /\ A # {} /\ \A k \in A : k <= limit
  BY <1>1
<1>3. MaxAbsDelta(deltas) = Max(A)
  BY Zenon DEF MaxAbsDelta, Magnitude
<1>4. \A d \in Range(deltas) : Magnitude(d) \in A
  OBVIOUS
<1>5. \A k \in A : k = 0 \/ \E d \in Range(deltas) : Magnitude(d) = k
  OBVIOUS
<1> HIDE DEF A
<1>6. PICK m : Largest(m, A)
  BY <1>2, LargestExists
<1>7. A \subseteq Int
  BY <1>2
<1>8. Max(A) = m
  BY <1>6, <1>7, MaxIs
<1>9. m \in A /\ m \in Nat /\ m <= limit
  BY <1>2, <1>6 DEF Largest
<1>10. \A d \in Range(deltas) : Magnitude(d) <= m
  <2> SUFFICES ASSUME NEW d \in Range(deltas) PROVE Magnitude(d) <= m
    OBVIOUS
  <2>1. Magnitude(d) \in A /\ Magnitude(d) \in Nat
    BY <1>1, <1>4
  <2>2. m >= Magnitude(d)
    BY <1>6, <2>1 DEF Largest
  <2> QED
    BY <1>9, <2>1, <2>2
<1> QED
  BY <1>3, <1>5, <1>8, <1>9, <1>10 DEF LargestDelta

\* The differences fit into so many bits of two's complement.
FitInto(deltas, bits) == \A d \in Range(deltas) : -(2 ^ (bits - 1)) <= d /\ d < 2 ^ (bits - 1)

\* Should they, one of them is the least number of these bits, one less than all.
LeastOf(deltas, bits, all) ==
  FitInto(deltas, bits) => bits = all - 1 /\ -(2 ^ (bits - 1)) \in Range(deltas)

LEMMA FitIsMagnitude ==
  ASSUME NEW deltas, Range(deltas) \subseteq Int, NEW m, LargestDelta(m, deltas), NEW b \in Nat
  PROVE  /\ m < 2 ^ b => FitInto(deltas, b + 1)
         /\ FitInto(deltas, b + 1) =>
              m <= 2 ^ b /\ (m = 2 ^ b => -(2 ^ b) \in Range(deltas))
<1>1. (b + 1) - 1 = b
  OBVIOUS
<1>2. PICK p \in Nat \ {0} : p = 2 ^ b
  BY Powers
<1>3. FitInto(deltas, b + 1) <=> \A d \in Range(deltas) : -p <= d /\ d < p
  BY <1>1, <1>2 DEF FitInto
<1>4. m \in Nat /\ (\A d \in Range(deltas) : Magnitude(d) <= m)
      /\ (m = 0 \/ \E d \in Range(deltas) : Magnitude(d) = m)
  BY DEF LargestDelta
<1>5. ASSUME NEW d \in Range(deltas)
      PROVE  /\ d \in Int /\ Magnitude(d) \in Nat
             /\ Magnitude(d) < p => (-p <= d /\ d < p)
             /\ (-p <= d /\ d < p) => Magnitude(d) <= p
             /\ (-p <= d /\ d < p /\ Magnitude(d) = p) => d = -p
  <2>1. d \in Int
    OBVIOUS
  <2> QED
    BY <2>1 DEF Magnitude
<1>6. ASSUME m < p PROVE \A d \in Range(deltas) : -p <= d /\ d < p
  <2> SUFFICES ASSUME NEW d \in Range(deltas) PROVE -p <= d /\ d < p
    OBVIOUS
  <2>1. Magnitude(d) <= m /\ Magnitude(d) \in Nat
    BY <1>4, <1>5
  <2>2. Magnitude(d) < p
    BY <1>4, <1>6, <2>1
  <2> QED
    BY <1>5, <2>2
<1>7. ASSUME \A d \in Range(deltas) : -p <= d /\ d < p
      PROVE  m <= p /\ (m = p => -p \in Range(deltas))
  <2>1. CASE m = 0
    BY <2>1
  <2>2. CASE m # 0
    <3>1. PICK d \in Range(deltas) : Magnitude(d) = m
      BY <1>4, <2>2
    <3>2. Magnitude(d) <= p /\ (Magnitude(d) = p => d = -p)
      BY <1>5, <1>7
    <3> QED
      BY <3>1, <3>2
  <2> QED
    BY <2>1, <2>2
<1> QED
  BY <1>2, <1>3, <1>6, <1>7

\* The differences fit into the bit width, and into less only with the least
\* number that one bit less can hold.
LEMMA BitWidthFits ==
  ASSUME NEW deltas, Range(deltas) \subseteq Int,
         \A d \in Range(deltas) : Magnitude(d) <= 2 ^ SampleBits
  PROVE  /\ FitInto(deltas, BitWidth(deltas))
         /\ \A bits \in 1..(BitWidth(deltas) - 1) : LeastOf(deltas, bits, BitWidth(deltas))
<1>1. PICK limit \in Nat \ {0} : limit = 2 ^ SampleBits /\ 2 ^ (SampleBits + 1) = 2 * limit
                                 /\ SampleBits \in Nat
  BY CodecAssumption, Powers DEF CodecParameters
<1>2. PICK m : m = MaxAbsDelta(deltas) /\ LargestDelta(m, deltas) /\ m <= limit /\ m \in Nat
  <2>1. LargestDelta(MaxAbsDelta(deltas), deltas) /\ MaxAbsDelta(deltas) <= limit
    BY <1>1, MaxAbsDeltaIs
  <2> QED
    BY <2>1 DEF LargestDelta
<1> DEFINE A == {b \in 0..(SampleBits + 1) : m < 2 ^ b}
<1>3. A # {} /\ A \subseteq Nat /\ A \subseteq Int
  <2>1. m < 2 ^ (SampleBits + 1)
    BY <1>1, <1>2
  <2>2. SampleBits + 1 \in 0..(SampleBits + 1)
    BY <1>1
  <2> QED
    BY <1>1, <2>1, <2>2
<1>4. PICK b \in A : \A c \in A : b <= c
  BY <1>3, LeastNatural
<1>5. b \in Nat /\ b <= SampleBits + 1 /\ m < 2 ^ b
  BY <1>1, <1>4
<1>6. \A c \in Nat : c < b => ~(m < 2 ^ c)
  <2> SUFFICES ASSUME NEW c \in Nat, c < b, m < 2 ^ c PROVE FALSE
    OBVIOUS
  <2>1. c \in A
    BY <1>1, <1>5
  <2>2. b <= c
    BY <1>4, <2>1
  <2> QED
    BY <1>5, <2>2
<1>7. Smallest(b, A)
  BY <1>4 DEF Smallest
<1>8. BitWidth(deltas) = 1 + Min(A)
  BY <1>2, Zenon DEF BitWidth
<1> HIDE DEF A
<1>9. BitWidth(deltas) = b + 1
  <2>1. Min(A) = b
    BY <1>3, <1>7, MinIs
  <2> QED
    BY <1>5, <1>8, <2>1
<1>10. FitInto(deltas, b + 1)
  BY <1>2, <1>5, FitIsMagnitude
<1>11. ASSUME NEW bits \in 1..((b + 1) - 1), FitInto(deltas, bits)
       PROVE  bits = (b + 1) - 1 /\ -(2 ^ (bits - 1)) \in Range(deltas)
  <2>1. PICK c \in Nat : bits = c + 1 /\ bits - 1 = c /\ c < b
    <3>1. bits - 1 \in Nat /\ bits = (bits - 1) + 1 /\ bits - 1 < b
      BY <1>5
    <3> QED
      BY <3>1
  <2>2. m <= 2 ^ c /\ (m = 2 ^ c => -(2 ^ c) \in Range(deltas))
    BY <1>2, <1>11, <2>1, FitIsMagnitude
  <2>3. PICK q \in Nat \ {0} : q = 2 ^ c /\ 2 ^ (c + 1) = 2 * q
    BY Powers
  <2>4. m = q
    BY <1>2, <1>6, <2>1, <2>2, <2>3
  <2>5. ~(c + 1 < b)
    <3>1. m < 2 ^ (c + 1) /\ c + 1 \in Nat
      BY <2>3, <2>4
    <3> QED
      BY <1>6, <3>1
  <2>6. bits = (b + 1) - 1
    BY <1>5, <2>1, <2>5
  <2> QED
    BY <2>1, <2>2, <2>3, <2>4, <2>6
<1> QED
  BY <1>9, <1>10, <1>11 DEF LeastOf

\* No difference of two samples needs more bits than one more than a sample.
LEMMA DifferencesBound ==
  ASSUME NEW s \in Seq(Sample)
  PROVE  /\ Range(DeltaEncode(s)) \subseteq Int
         /\ \A d \in Range(DeltaEncode(s)) : Magnitude(d) <= 2 ^ SampleBits
<1>1. PICK half \in Nat \ {0} : 2 ^ SampleBits = 2 * half /\ Sample = (-half)..(half - 1)
  BY SampleRange
<1>2. PICK n \in Nat : n = Len(s) /\ \A k \in 1..n : s[k] \in Sample
  OBVIOUS
<1> DEFINE deltas == DeltaEncode(s)
<1>3. deltas = [k \in 1..n |-> IF k = 1 THEN s[1] ELSE s[k] - s[k - 1]]
  BY <1>2 DEF DeltaEncode
<1> HIDE DEF deltas
<1>4. ASSUME NEW d \in Range(deltas) PROVE d \in Int /\ Magnitude(d) <= 2 * half
  <2>1. PICK k \in 1..n : d = deltas[k]
    BY <1>3 DEF Range
  <2>2. CASE k = 1
    <3>1. s[1] \in Sample /\ d = s[1]
      BY <1>2, <1>3, <2>1, <2>2
    <3>2. d \in Int /\ -half <= d /\ d < half
      BY <1>1, <3>1
    <3>3. Magnitude(d) <= half + half
      BY <3>2 DEF Magnitude
    <3> QED
      BY <3>2, <3>3
  <2>3. CASE k # 1
    <3>1. k - 1 \in 1..n
      BY <2>3
    <3>2. s[k] \in Sample /\ s[k - 1] \in Sample /\ d = s[k] - s[k - 1]
      BY <1>2, <1>3, <2>1, <2>3, <3>1
    <3>3. PICK a \in Int, c \in Int :
            /\ a = s[k] /\ c = s[k - 1] /\ -half <= a /\ a < half /\ -half <= c /\ c < half
      BY <1>1, <3>2
    <3>4. d \in Int /\ -(half + half) < d /\ d < half + half
      BY <3>2, <3>3
    <3>5. Magnitude(d) <= half + half
      BY <3>4 DEF Magnitude
    <3> QED
      BY <3>4, <3>5
  <2> QED
    BY <2>2, <2>3
<1> QED
  BY <1>1, <1>4 DEF deltas

LEMMA SamplesAreSamples == LibrarySpec => [](samples \in Seq(Sample))
<1>1. LibraryInit => samples \in Seq(Sample)
  BY DEF LibraryInit, Init
<1>2. samples \in Seq(Sample) /\ [LibraryNext]_libraryVars => (samples \in Seq(Sample))'
  <2> SUFFICES ASSUME samples \in Seq(Sample), [LibraryNext]_libraryVars
               PROVE  samples' \in Seq(Sample)
    OBVIOUS
  <2>1. CASE part = "telemetry" /\ Next
    <3>1. samples' = samples \/ \E v \in Digit : samples' = Append(samples, v)
      BY <2>1 DEF Next, Sampled, Detected, Stored
    <3> QED
      BY <3>1, CodecAssumption
  <2>2. CASE UNCHANGED telemetryVars
    BY <2>2 DEF telemetryVars
  <2>3. CASE UNCHANGED libraryVars
    BY <2>3 DEF libraryVars, telemetryVars
  <2> QED
    BY <2>1, <2>2, <2>3 DEF LibraryNext
<1> QED
  BY <1>1, <1>2, PTL DEF LibrarySpec

\* A frame that was built is decoded to what it was built from, and compressed
\* samples come back whole; their differences fit into the bits of BitWidth, and
\* into fewer only with the least number that one bit less can hold, whatever the
\* samples and however wide a sample is.
THEOREM CodecRoundTrip == LibrarySpec => []EncodedIsDecoded
<1>1. samples \in Seq(Sample) => EncodedIsDecoded
  <2> SUFFICES ASSUME samples \in Seq(Sample) PROVE EncodedIsDecoded
    OBVIOUS
  <2>1. ASSUME NEW h \in Headers, Buildable(h, samples), ~NulAtEnd(h.station), ~NulAtEnd(h.channel)
        PROVE  /\ Decodable(Build(h, samples))
               /\ Decode(Build(h, samples)) =
                    [station |-> h.station, channel |-> h.channel, start |-> h.start,
                     rate |-> h.rate, samples |-> samples]
    BY <2>1, BuiltIsDecoded
  <2>2. samples # <<>> =>
          /\ DeltaDecodeZigZag(DeltaEncodeZigZag(samples), Head(samples)) = samples
          /\ DeltaDecode(DeltaEncode(samples), Head(samples)) = samples
    BY DeltasDecode, ZigZagDecodes
  <2>3. /\ FitInto(DeltaEncode(samples), BitWidth(DeltaEncode(samples)))
        /\ \A bits \in 1..(BitWidth(DeltaEncode(samples)) - 1) :
             LeastOf(DeltaEncode(samples), bits, BitWidth(DeltaEncode(samples)))
    BY DifferencesBound, BitWidthFits
  <2> QED
    BY <2>1, <2>2, <2>3, Zenon DEF EncodedIsDecoded, LeastOf, FitInto
<1>2. LibrarySpec => [](samples \in Seq(Sample))
  BY SamplesAreSamples
<1> QED
  BY <1>1, <1>2, PTL
-----------------------------------------------------------------------------
(* The sample scan. *)

Kinds == {"STUCK", "SATURATED", "RAMP"}

Reported == [index : Nat, kind : Kinds, value : Int]

\* list is as much of full as the cap allows.
Capped(list, full) ==
  /\ list \in Seq(Reported) /\ full \in Seq(Reported)
  /\ Len(list) = IF MaxIssues <= Len(full) THEN MaxIssues ELSE Len(full)
  /\ \A k \in 1..Len(list) : list[k] = full[k]

LEMMA ScanConstants ==
  StuckRun \in Nat \ {0, 1} /\ RampRun \in Nat \ {0, 1} /\ Guard \in Nat /\ MaxIssues \in Nat
BY ScanAssumption DEF ScanParameters

LEMMA AddCaps ==
  ASSUME NEW list, NEW full, Capped(list, full), NEW x \in Reported
  PROVE  Capped(Add(list, x), Append(full, x))
<1>1. /\ list \in Seq(Reported) /\ full \in Seq(Reported)
      /\ Len(list) = IF MaxIssues <= Len(full) THEN MaxIssues ELSE Len(full)
      /\ \A k \in 1..Len(list) : list[k] = full[k]
  BY DEF Capped
<1>2. PICK n \in Nat, m \in Nat : n = Len(list) /\ m = Len(full)
  BY <1>1
<1>3. /\ Append(full, x) \in Seq(Reported) /\ Len(Append(full, x)) = m + 1
      /\ \A k \in 1..m : Append(full, x)[k] = full[k]
      /\ Append(full, x)[m + 1] = x
  BY <1>1, <1>2
<1>4. CASE n >= MaxIssues
  <2>1. Add(list, x) = list
    BY <1>2, <1>4 DEF Add
  <2>2. n = MaxIssues /\ n <= m
    BY <1>1, <1>2, <1>4, ScanConstants
  <2>3. \A k \in 1..n : list[k] = Append(full, x)[k]
    BY <1>1, <1>2, <1>3, <2>2
  <2> QED
    BY <1>1, <1>2, <1>3, <2>1, <2>2, <2>3, ScanConstants DEF Capped
<1>5. CASE n < MaxIssues
  <2>1. Add(list, x) = Append(list, x)
    BY <1>2, <1>5, ScanConstants DEF Add
  <2>2. n = m
    BY <1>1, <1>2, <1>5, ScanConstants
  <2>3. /\ Append(list, x) \in Seq(Reported) /\ Len(Append(list, x)) = n + 1
        /\ \A k \in 1..n : Append(list, x)[k] = list[k]
        /\ Append(list, x)[n + 1] = x
    BY <1>1, <1>2
  <2>4. \A k \in 1..(n + 1) : Append(list, x)[k] = Append(full, x)[k]
    <3> SUFFICES ASSUME NEW k \in 1..(n + 1) PROVE Append(list, x)[k] = Append(full, x)[k]
      OBVIOUS
    <3>1. CASE k = n + 1
      BY <1>3, <2>2, <2>3, <3>1
    <3>2. CASE k # n + 1
      <4>1. k \in 1..n
        BY <3>2
      <4> QED
        BY <1>1, <1>2, <1>3, <2>2, <2>3, <4>1
    <3> QED
      BY <3>1, <3>2
  <2>5. Len(Append(list, x)) = IF MaxIssues <= m + 1 THEN MaxIssues ELSE m + 1
    BY <1>5, <2>2, <2>3, ScanConstants
  <2> QED
    BY <1>3, <2>1, <2>3, <2>4, <2>5 DEF Capped
<1> QED
  BY <1>2, <1>4, <1>5, ScanConstants

LEMMA IssueReported ==
  ASSUME NEW s \in Seq(Int), NEW i \in 1..Len(s), NEW kind \in Kinds
  PROVE  Issue(i, kind, s) \in Reported
<1>1. s[i] \in Int /\ i \in Nat
  OBVIOUS
<1> QED
  BY <1>1 DEF Issue, Reported

LEMMA IssuesReported ==
  ASSUME NEW s \in Seq(Int), NEW A \in SUBSET (1..Len(s)), NEW kind \in Kinds
  PROVE  /\ Cardinality(A) \in Nat /\ PlacedUp(Ascending(A), Cardinality(A), A)
         /\ IssuesAt(A, kind, s) \in Seq(Reported) /\ Len(IssuesAt(A, kind, s)) = Cardinality(A)
         /\ \A k \in 1..Cardinality(A) : IssuesAt(A, kind, s)[k] = Issue(Ascending(A)[k], kind, s)
<1>1. PICK m : m = Cardinality(A)
  OBVIOUS
<1>2. PICK pos : pos = Ascending(A)
  OBVIOUS
<1>3. PlacedUp(pos, m, A)
  BY <1>1, <1>2, Zenon DEF PlacedUp, Ascending
<1>4. PICK n \in Nat : n = Len(s)
  OBVIOUS
<1>5. m \in Nat /\ SortedUp(pos, m, A)
  BY <1>1, <1>3, <1>4, AscendsByCount
<1>6. \A k \in 1..m : pos[k] \in 1..n
  BY <1>4, <1>5 DEF SortedUp, Bijection, Injection
<1>7. \A k \in 1..m : Issue(pos[k], kind, s) \in Reported
  BY <1>4, <1>6, IssueReported
<1>8. IssuesAt(A, kind, s) = [k \in 1..m |-> Issue(pos[k], kind, s)]
  BY <1>1, <1>2 DEF IssuesAt
<1>9. IssuesAt(A, kind, s) \in Seq(Reported) /\ Len(IssuesAt(A, kind, s)) = m
  BY <1>5, <1>7, <1>8
<1> QED
  BY <1>1, <1>2, <1>3, <1>5, <1>8, <1>9

LEMMA NoIssues ==
  ASSUME NEW s \in Seq(Int), NEW kind \in Kinds
  PROVE  IssuesAt({}, kind, s) = <<>>
<1>1. Cardinality({}) = 0
  BY FS_EmptySet
<1>2. /\ IssuesAt({}, kind, s) \in Seq(Reported)
      /\ Len(IssuesAt({}, kind, s)) = Cardinality({})
  BY IssuesReported
<1> QED
  BY <1>1, <1>2

\* One more place, behind the others.
LEMMA IssuesFurther ==
  ASSUME NEW s \in Seq(Int), NEW A \in SUBSET (1..Len(s)), NEW b \in 1..Len(s),
         \A a \in A : a < b, NEW kind \in Kinds
  PROVE  IssuesAt(A \cup {b}, kind, s) = Append(IssuesAt(A, kind, s), Issue(b, kind, s))
<1>1. PICK n \in Nat : n = Len(s)
  OBVIOUS
<1>2. PICK m, pos, t : m = Cardinality(A) /\ pos = Ascending(A) /\ t = IssuesAt(A, kind, s)
  OBVIOUS
<1>3. PICK B : B = A \cup {b}
  OBVIOUS
<1>4. PICK p, new, u : p = Cardinality(B) /\ new = Ascending(B) /\ u = IssuesAt(B, kind, s)
  OBVIOUS
<1>5. A \in SUBSET (1..n) /\ b \in 1..n /\ B \in SUBSET (1..n)
  BY <1>1, <1>3
<1>6. /\ m \in Nat /\ PlacedUp(pos, m, A) /\ t \in Seq(Reported) /\ Len(t) = m
      /\ \A k \in 1..m : t[k] = Issue(pos[k], kind, s)
  BY <1>1, <1>2, IssuesReported
<1>7. /\ p \in Nat /\ PlacedUp(new, p, B) /\ u \in Seq(Reported) /\ Len(u) = p
      /\ \A k \in 1..p : u[k] = Issue(new[k], kind, s)
  BY <1>1, <1>4, <1>5, IssuesReported
<1>8. p = m + 1 /\ (\A k \in 1..m : new[k] = pos[k]) /\ new[m + 1] = b
  <2>1. PlacedUp(pos, m, A) /\ PlacedUp(new, p, B) /\ m = Cardinality(A) /\ p = Cardinality(B)
    BY <1>2, <1>4, <1>6, <1>7
  <2>2. n \in Nat /\ A \in SUBSET (1..n) /\ b \in 1..n /\ (\A a \in A : a < b) /\ B = A \cup {b}
    BY <1>3, <1>5
  <2>3. GrownBy(new, p, pos, m, b)
    BY <2>1, <2>2, AscendsFurther
  <2> QED
    BY <2>3 DEF GrownBy
<1>9. PICK x : x = Issue(b, kind, s)
  OBVIOUS
<1>10. x \in Reported
  BY <1>9, IssueReported
<1>11. /\ Append(t, x) \in Seq(Reported) /\ Len(Append(t, x)) = m + 1
       /\ \A k \in 1..m : Append(t, x)[k] = t[k]
       /\ Append(t, x)[m + 1] = x
  BY <1>6, <1>10
<1>12. ASSUME NEW k \in 1..(m + 1) PROVE u[k] = Append(t, x)[k]
  <2>1. CASE k = m + 1
    BY <1>7, <1>8, <1>9, <1>11, <2>1
  <2>2. CASE k # m + 1
    <3>1. k \in 1..m
      BY <1>6, <2>2
    <3> QED
      BY <1>6, <1>7, <1>8, <1>11, <3>1
  <2> QED
    BY <2>1, <2>2
<1>13. u = Append(t, x)
  BY <1>7, <1>8, <1>11, <1>12
<1> QED
  BY <1>2, <1>3, <1>4, <1>9, <1>13

\* The list holds what was there prior, and the issues at the places of R
\* before a.
Upto(list, prior, R, a, kind, s) ==
  Capped(list, prior \o IssuesAt({c \in R : c < a}, kind, s))

LEMMA NoneYet ==
  ASSUME NEW s \in Seq(Int), NEW R \in SUBSET (1..Len(s)), NEW kind \in Kinds,
         NEW list, NEW prior, Capped(list, prior)
  PROVE  Upto(list, prior, R, 1, kind, s)
<1>1. {c \in R : c < 1} = {}
  <2> SUFFICES ASSUME NEW c \in R PROVE ~(c < 1)
    OBVIOUS
  <2>1. c \in 1..Len(s)
    OBVIOUS
  <2> QED
    BY <2>1
<1>2. prior \in Seq(Reported)
  BY DEF Capped
<1>3. prior \o <<>> = prior
  BY <1>2
<1> QED
  BY <1>1, <1>3, NoIssues DEF Upto

LEMMA AllFound ==
  ASSUME NEW s \in Seq(Int), NEW R \in SUBSET (1..Len(s)), NEW kind \in Kinds,
         NEW list, NEW prior, Upto(list, prior, R, Len(s) + 1, kind, s)
  PROVE  Capped(list, prior \o IssuesAt(R, kind, s))
<1>1. {c \in R : c < Len(s) + 1} = R
  <2> SUFFICES ASSUME NEW c \in R PROVE c < Len(s) + 1
    OBVIOUS
  <2>1. c \in 1..Len(s) /\ Len(s) \in Nat
    OBVIOUS
  <2> QED
    BY <2>1
<1> QED
  BY <1>1 DEF Upto

\* The scan goes on from a to e, and only a can be a place of R before e.
LEMMA GoesOn ==
  ASSUME NEW s \in Seq(Int), NEW R \in SUBSET (1..Len(s)), NEW kind \in Kinds,
         NEW list, NEW prior \in Seq(Reported), NEW a \in 1..Len(s), NEW e \in Nat, a < e,
         \A c \in R : ~(a < c /\ c < e),
         Upto(list, prior, R, a, kind, s)
  PROVE  /\ a \in R => Upto(Add(list, Issue(a, kind, s)), prior, R, e, kind, s)
         /\ a \notin R => Upto(list, prior, R, e, kind, s)
<1> DEFINE A == {c \in R : c < a}
           E == {c \in R : c < e}
<1>1. ASSUME NEW c \in R PROVE (c < e /\ c # a) <=> c < a
  <2>1. c \in Nat
    OBVIOUS
  <2> QED
    BY <2>1
<1>2. a \in R => E = A \cup {a}
  BY <1>1
<1>3. a \notin R => E = A
  BY <1>1
<1>4. A \in SUBSET (1..Len(s)) /\ \A c \in A : c < a
  OBVIOUS
<1>5. Capped(list, prior \o IssuesAt(A, kind, s))
  BY DEF Upto
<1> HIDE DEF A
<1>6. CASE a \in R
  <2>1. PICK t, x : t = IssuesAt(A, kind, s) /\ x = Issue(a, kind, s)
    OBVIOUS
  <2>2. t \in Seq(Reported) /\ x \in Reported
    BY <1>4, <2>1, IssuesReported, IssueReported
  <2>3. IssuesAt(E, kind, s) = Append(t, x)
    BY <1>2, <1>4, <1>6, <2>1, IssuesFurther
  <2>4. prior \o Append(t, x) = Append(prior \o t, x)
    BY <2>2
  <2>5. Capped(Add(list, x), Append(prior \o t, x))
    BY <1>5, <2>1, <2>2, AddCaps
  <2>6. Capped(Add(list, x), prior \o IssuesAt(E, kind, s))
    BY <2>3, <2>4, <2>5
  <2> QED
    BY <1>6, <2>1, <2>6 DEF Upto
<1>7. CASE a \notin R
  BY <1>3, <1>5, <1>7 DEF Upto
<1> QED
  BY <1>6, <1>7
-----------------------------------------------------------------------------
\* The step to sample i.
StepTo(s, i) == Sign(s[i] - s[i - 1])

\* From a to b, and no further, the steps of s are d.
WholeRun(s, a, b, d) ==
  /\ a \in 1..Len(s) /\ b \in 1..Len(s) /\ a <= b
  /\ \A i \in (a + 1)..b : StepTo(s, i) = d
  /\ a = 1 \/ StepTo(s, a) # d
  /\ b = Len(s) \/ StepTo(s, b + 1) # d

LEMMA RunEndsOnce ==
  ASSUME NEW s \in Seq(Int), NEW a, NEW b, NEW c, NEW d, WholeRun(s, a, b, d), WholeRun(s, a, c, d)
  PROVE  b = c
<1>1. PICK n \in Nat : n = Len(s) /\ a \in 1..n /\ b \in 1..n /\ c \in 1..n /\ a <= b /\ a <= c
  BY DEF WholeRun
<1>2. CASE b < c
  <2>1. b # n /\ b + 1 \in (a + 1)..c
    BY <1>1, <1>2
  <2> QED
    BY <1>1, <2>1 DEF WholeRun
<1>3. CASE c < b
  <2>1. c # n /\ c + 1 \in (a + 1)..b
    BY <1>1, <1>3
  <2> QED
    BY <1>1, <2>1 DEF WholeRun
<1> QED
  BY <1>1, <1>2, <1>3

\* The starts of the longest stretches are those of whole runs.
LEMMA RunsAreWhole ==
  ASSUME NEW s \in Seq(Int), NEW d, NEW len \in Nat, NEW a
  PROVE  a \in RunStarts(s, d, len) <=> \E b \in 1..Len(s) : WholeRun(s, a, b, d) /\ b - a + 1 >= len
<1> DEFINE Best(r) == /\ Goes(s, r, d) /\ r[2] - r[1] + 1 >= len
                      /\ \A q \in Stretch(s) :
                           (q[1] <= r[1] /\ r[2] <= q[2] /\ Goes(s, q, d)) => q = r
<1>1. PICK n \in Nat : n = Len(s)
  OBVIOUS
<1>2. Stretch(s) = {ab \in (1..n) \X (1..n) : ab[1] <= ab[2]}
  BY <1>1 DEF Stretch
<1>3. \A q : Goes(s, q, d) <=> \A i \in (q[1] + 1)..q[2] : StepTo(s, i) = d
  BY DEF Goes, StepTo
<1>4. RunStarts(s, d, len) = {r[1] : r \in {r \in Stretch(s) : Best(r)}}
  BY Zenon DEF RunStarts
<1>5. ASSUME a \in RunStarts(s, d, len)
      PROVE  \E b \in 1..n : WholeRun(s, a, b, d) /\ b - a + 1 >= len
  <2>1. PICK r \in Stretch(s) : Best(r) /\ a = r[1]
    BY <1>4, <1>5
  <2>2. PICK b \in 1..n : r = <<a, b>> /\ a \in 1..n /\ a <= b /\ r[2] = b
    BY <1>2, <2>1
  <2>3. \A i \in (a + 1)..b : StepTo(s, i) = d
    BY <1>3, <2>1, <2>2
  <2>4. b - a + 1 >= len
    BY <2>1, <2>2
  <2>5. \A q \in Stretch(s) : (q[1] <= a /\ b <= q[2] /\ Goes(s, q, d)) => q = r
    BY <2>1, <2>2
  <2> HIDE DEF Best
  <2>6. ASSUME a # 1, StepTo(s, a) = d PROVE FALSE
    <3>1. PICK q : q = <<a - 1, b>> /\ q \in Stretch(s) /\ q[1] = a - 1 /\ q[2] = b
      <4>1. a - 1 \in 1..n /\ b \in 1..n /\ a - 1 <= b
        BY <2>2, <2>6
      <4>2. <<a - 1, b>> \in Stretch(s)
        BY <1>2, <4>1
      <4> QED
        BY <4>2
    <3>2. \A i \in (q[1] + 1)..q[2] : StepTo(s, i) = d
      <4> SUFFICES ASSUME NEW i \in (q[1] + 1)..q[2] PROVE StepTo(s, i) = d
        OBVIOUS
      <4>1. i = a \/ i \in (a + 1)..b
        BY <2>2, <3>1
      <4> QED
        BY <2>3, <2>6, <4>1
    <3>3. Goes(s, q, d)
      BY <1>3, <3>2
    <3>4. q = r
      BY <2>2, <2>5, <3>1, <3>3
    <3> QED
      BY <2>2, <3>1, <3>4
  <2>7. ASSUME b # n, StepTo(s, b + 1) = d PROVE FALSE
    <3>1. PICK q : q = <<a, b + 1>> /\ q \in Stretch(s) /\ q[1] = a /\ q[2] = b + 1
      <4>1. a \in 1..n /\ b + 1 \in 1..n /\ a <= b + 1
        BY <2>2, <2>7
      <4>2. <<a, b + 1>> \in Stretch(s)
        BY <1>2, <4>1
      <4> QED
        BY <4>2
    <3>2. \A i \in (q[1] + 1)..q[2] : StepTo(s, i) = d
      <4> SUFFICES ASSUME NEW i \in (q[1] + 1)..q[2] PROVE StepTo(s, i) = d
        OBVIOUS
      <4>1. i = b + 1 \/ i \in (a + 1)..b
        BY <2>2, <3>1
      <4> QED
        BY <2>3, <2>7, <4>1
    <3>3. Goes(s, q, d)
      BY <1>3, <3>2
    <3>4. q = r
      BY <2>2, <2>5, <3>1, <3>3
    <3> QED
      BY <2>2, <3>1, <3>4
  <2> QED
    BY <1>1, <2>2, <2>3, <2>4, <2>6, <2>7 DEF WholeRun
<1>6. ASSUME NEW b \in 1..n, WholeRun(s, a, b, d), b - a + 1 >= len
      PROVE  a \in RunStarts(s, d, len)
  <2>1. /\ a \in 1..n /\ a <= b /\ (\A i \in (a + 1)..b : StepTo(s, i) = d)
        /\ a = 1 \/ StepTo(s, a) # d
        /\ b = n \/ StepTo(s, b + 1) # d
    BY <1>1, <1>6 DEF WholeRun
  <2>2. PICK r : r = <<a, b>> /\ r \in Stretch(s) /\ r[1] = a /\ r[2] = b
    <3>1. <<a, b>> \in Stretch(s)
      BY <1>2, <2>1
    <3> QED
      BY <3>1
  <2>3. Goes(s, r, d)
    BY <1>3, <2>1, <2>2
  <2>4. ASSUME NEW q \in Stretch(s), q[1] <= a, b <= q[2], Goes(s, q, d) PROVE q = r
    <3>1. PICK x \in 1..n, y \in 1..n : q = <<x, y>> /\ q[1] = x /\ q[2] = y /\ x <= a /\ b <= y
      BY <1>2, <2>4
    <3>2. \A i \in (x + 1)..y : StepTo(s, i) = d
      BY <1>3, <2>4, <3>1
    <3>3. x = a
      <4>1. ASSUME x < a PROVE FALSE
        <5>1. a # 1 /\ a \in (x + 1)..y
          BY <2>1, <3>1, <4>1
        <5> QED
          BY <2>1, <3>2, <5>1
      <4> QED
        BY <2>1, <3>1, <4>1
    <3>4. y = b
      <4>1. ASSUME b < y PROVE FALSE
        <5>1. b # n /\ b + 1 \in (x + 1)..y
          BY <2>1, <3>1, <4>1
        <5> QED
          BY <2>1, <3>2, <5>1
      <4> QED
        BY <3>1, <4>1
    <3> QED
      BY <2>2, <3>1, <3>3, <3>4
  <2>5. Best(r)
    BY <1>6, <2>2, <2>3, <2>4
  <2> QED
    BY <1>4, <2>2, <2>5
<1> QED
  BY <1>1, <1>5, <1>6
-----------------------------------------------------------------------------
\* Whatever lies at a place may be reported.
Noted(s) == [index : Nat, kind : Kinds, value : {s[i] : i \in Nat}] \cup Reported

LEMMA AddNoted ==
  ASSUME NEW s, NEW list \in Seq(Noted(s)), NEW i \in Nat, NEW kind \in Kinds
  PROVE  Add(list, Issue(i, kind, s)) \in Seq(Noted(s))
<1>1. Issue(i, kind, s) \in Noted(s)
  BY DEF Issue, Noted
<1>2. Append(list, Issue(i, kind, s)) \in Seq(Noted(s))
  BY <1>1
<1> QED
  BY <1>2 DEF Add

\* f are the states of the scan for stuck stretches.
StuckStates(f, s, list) ==
  /\ f[0] = [start |-> 1, items |-> list]
  /\ \A k \in 1..Len(s) : f[k] = StuckStep(s, f[k - 1], k + 1)
  /\ ScanStuck(list, s) = f[Len(s)].items

LEMMA StuckFolds ==
  ASSUME NEW s \in Seq(Int), NEW list \in Seq(Reported)
  PROVE  \E f : StuckStates(f, s, list)
<1>1. PICK n \in Nat : n = Len(s)
  OBVIOUS
<1> DEFINE S == [start : Nat, items : Seq(Noted(s))]
           base == [start |-> 1, items |-> list]
           step == [k \in 1..n |-> [st \in S |-> StuckStep(s, st, k + 1)]]
<1>2. ASSUME NEW k \in 1..n, NEW st \in S PROVE StuckStep(s, st, k + 1) \in S
  <2>1. st.start \in Nat /\ st.items \in Seq(Noted(s)) /\ k + 1 \in Nat
    OBVIOUS
  <2>2. Add(st.items, Issue(st.start, "STUCK", s)) \in Seq(Noted(s))
    BY <2>1, AddNoted DEF Kinds
  <2> QED
    BY <2>1, <2>2 DEF StuckStep
<1>3. base \in S
  BY DEF Noted
<1>4. step \in [1..n -> [S -> S]]
  BY <1>2
<1>5. \A k \in 1..n : \A st \in S : step[k][st] = StuckStep(s, st, k + 1)
  OBVIOUS
<1> HIDE DEF S, base, step
<1>6. PICK g \in [SUBSET (1..n) -> S] : FoldsUp(g, n, base, step)
  BY <1>3, <1>4, FoldExists
<1> DEFINE Value(h, A) == IF A = {} THEN base
                          ELSE StuckStep(s, h[A \ {Max(A)}], Steps(s)[Max(A)])
           Works(h) == h = [A \in SUBSET (1..n) |-> Value(h, A)]
<1>7. \A A : Greatest(A) = Max(A)
  BY Zenon DEF Greatest, Max
<1>8. DOMAIN Steps(s) = 1..n /\ \A k \in 1..n : Steps(s)[k] = k + 1
  BY <1>1 DEF Steps
<1>9. Works(g)
  <2>1. ASSUME NEW A \in SUBSET (1..n) PROVE g[A] = Value(g, A)
    <3>1. CASE A = {}
      BY <1>6, <3>1 DEF FoldsUp
    <3>2. CASE A # {}
      <4>1. PICK x \in 1..n : x = Greatest(A) /\ x = Max(A) /\ A \ {x} \in SUBSET (1..n)
        BY <1>7, <3>2, GreatestIn
      <4>2. g[A] = step[x][g[A \ {x}]] /\ g[A \ {x}] \in S
        BY <1>6, <3>2, <4>1 DEF FoldsUp
      <4> QED
        BY <1>5, <1>8, <3>2, <4>1, <4>2
    <3> QED
      BY <3>1, <3>2
  <2>2. g = [A \in SUBSET (1..n) |-> g[A]]
    BY <1>6
  <2> QED
    BY <2>1, <2>2
<1>10. ScanStuck(list, s) = (CHOOSE h : Works(h))[1..n].items
  BY <1>8, Zenon DEF ScanStuck, FoldLeft, MapThenFoldSet, base
<1>11. PICK h : Works(h) /\ h = (CHOOSE x : Works(x))
  BY <1>9, Zenon
<1>12. h[1..0] = base
  <2>1. 1..0 = {} /\ {} \in SUBSET (1..n)
    OBVIOUS
  <2> QED
    BY <1>11, <2>1
<1>13. ASSUME NEW k \in 1..n PROVE h[1..k] = StuckStep(s, h[1..(k - 1)], k + 1)
  <2>1. /\ Max(1..k) = k /\ (1..k) \ {k} = 1..(k - 1)
        /\ 1..k \in SUBSET (1..n) /\ 1..k # {}
    BY <1>7, FoldTakes
  <2>2. h[1..k] = Value(h, 1..k)
    BY <1>11, <2>1
  <2> QED
    BY <1>8, <2>1, <2>2
<1> HIDE DEF Works
<1>14. PICK f : f = [k \in 0..n |-> h[1..k]]
  OBVIOUS
<1>15. f[0] = base /\ f[n] = h[1..n]
  BY <1>12, <1>14
<1>16. \A k \in 1..n : f[k] = StuckStep(s, f[k - 1], k + 1)
  <2> SUFFICES ASSUME NEW k \in 1..n PROVE f[k] = StuckStep(s, f[k - 1], k + 1)
    OBVIOUS
  <2>1. f[k] = h[1..k] /\ f[k - 1] = h[1..(k - 1)]
    BY <1>14
  <2> QED
    BY <1>13, <2>1
<1> QED
  BY <1>1, <1>10, <1>11, <1>15, <1>16 DEF StuckStates, base

SaturatedStep(s, found, i) ==
  IF s[i] > Guard \/ -s[i] > Guard THEN Add(found, Issue(i, "SATURATED", s)) ELSE found

\* f are the states of the scan for saturated samples.
SaturatedStates(f, s, list) ==
  /\ f[0] = list
  /\ \A k \in 1..Len(s) : f[k] = SaturatedStep(s, f[k - 1], k)
  /\ ScanSaturated(list, s) = f[Len(s)]

LEMMA SaturatedFolds ==
  ASSUME NEW s \in Seq(Int), NEW list \in Seq(Reported)
  PROVE  \E f : SaturatedStates(f, s, list)
<1>1. PICK n \in Nat : n = Len(s)
  OBVIOUS
<1> DEFINE S == Seq(Noted(s))
           base == list
           places == [k \in 1..n |-> k]
           step == [k \in 1..n |-> [st \in S |-> SaturatedStep(s, st, k)]]
<1>2. ASSUME NEW k \in 1..n, NEW st \in S PROVE SaturatedStep(s, st, k) \in S
  <2>1. Add(st, Issue(k, "SATURATED", s)) \in Seq(Noted(s))
    BY AddNoted DEF Kinds
  <2> QED
    BY <2>1 DEF SaturatedStep
<1>3. base \in S
  BY DEF Noted
<1>4. step \in [1..n -> [S -> S]]
  BY <1>2
<1>5. \A k \in 1..n : \A st \in S : step[k][st] = SaturatedStep(s, st, k)
  OBVIOUS
<1> HIDE DEF S, base, step
<1>6. PICK g \in [SUBSET (1..n) -> S] : FoldsUp(g, n, base, step)
  BY <1>3, <1>4, FoldExists
<1> DEFINE Value(h, A) == IF A = {} THEN base
                          ELSE SaturatedStep(s, h[A \ {Max(A)}], places[Max(A)])
           Works(h) == h = [A \in SUBSET (1..n) |-> Value(h, A)]
<1>7. \A A : Greatest(A) = Max(A)
  BY Zenon DEF Greatest, Max
<1>8. places = [k \in 1..Len(s) |-> k] /\ DOMAIN places = 1..n /\ \A k \in 1..n : places[k] = k
  BY <1>1
<1> HIDE DEF places
<1>9. Works(g)
  <2>1. ASSUME NEW A \in SUBSET (1..n) PROVE g[A] = Value(g, A)
    <3>1. CASE A = {}
      BY <1>6, <3>1 DEF FoldsUp
    <3>2. CASE A # {}
      <4>1. PICK x \in 1..n : x = Greatest(A) /\ x = Max(A) /\ A \ {x} \in SUBSET (1..n)
        BY <1>7, <3>2, GreatestIn
      <4>2. g[A] = step[x][g[A \ {x}]] /\ g[A \ {x}] \in S
        BY <1>6, <3>2, <4>1 DEF FoldsUp
      <4> QED
        BY <1>5, <1>8, <3>2, <4>1, <4>2
    <3> QED
      BY <3>1, <3>2
  <2>2. g = [A \in SUBSET (1..n) |-> g[A]]
    BY <1>6
  <2> QED
    BY <2>1, <2>2
<1>10. ScanSaturated(list, s) = (CHOOSE h : Works(h))[1..n]
  <2> DEFINE Folds(h) == h = [A \in SUBSET DOMAIN places |-> Value(h, A)]
  <2>1. ScanSaturated(list, s) =
          FoldLeft(LAMBDA found, i : SaturatedStep(s, found, i), list, places)
    BY <1>8, Zenon DEF ScanSaturated, SaturatedStep
  <2>2. FoldLeft(LAMBDA found, i : SaturatedStep(s, found, i), list, places)
          = (CHOOSE h : Folds(h))[DOMAIN places]
    BY Zenon DEF FoldLeft, MapThenFoldSet, base
  <2>3. (CHOOSE h : Folds(h))[DOMAIN places] = (CHOOSE h : Works(h))[1..n]
    BY <1>8, Zenon
  <2> QED
    BY <2>1, <2>2, <2>3, Zenon
<1>11. PICK h : Works(h) /\ h = (CHOOSE x : Works(x))
  BY <1>9, Zenon
<1>12. h[1..0] = base
  <2>1. 1..0 = {} /\ {} \in SUBSET (1..n)
    OBVIOUS
  <2> QED
    BY <1>11, <2>1
<1>13. ASSUME NEW k \in 1..n PROVE h[1..k] = SaturatedStep(s, h[1..(k - 1)], k)
  <2>1. /\ Max(1..k) = k /\ (1..k) \ {k} = 1..(k - 1)
        /\ 1..k \in SUBSET (1..n) /\ 1..k # {}
    BY <1>7, FoldTakes
  <2>2. h[1..k] = Value(h, 1..k)
    BY <1>11, <2>1
  <2> QED
    BY <1>8, <2>1, <2>2
<1> HIDE DEF Works
<1>14. PICK f : f = [k \in 0..n |-> h[1..k]]
  OBVIOUS
<1>15. f[0] = base /\ f[n] = h[1..n]
  BY <1>12, <1>14
<1>16. \A k \in 1..n : f[k] = SaturatedStep(s, f[k - 1], k)
  <2> SUFFICES ASSUME NEW k \in 1..n PROVE f[k] = SaturatedStep(s, f[k - 1], k)
    OBVIOUS
  <2>1. f[k] = h[1..k] /\ f[k - 1] = h[1..(k - 1)]
    BY <1>14
  <2> QED
    BY <1>13, <2>1
<1> QED
  BY <1>1, <1>10, <1>11, <1>15, <1>16 DEF SaturatedStates, base

\* f are the states of the scan for ramps.
RampStates(f, s, list) ==
  /\ f[0] = [start |-> 1, dir |-> 0, items |-> list]
  /\ \A k \in 1..Len(s) : f[k] = RampStep(s, f[k - 1], k + 1)
  /\ ScanRamp(list, s) = f[Len(s)].items

LEMMA RampFolds ==
  ASSUME NEW s \in Seq(Int), NEW list \in Seq(Reported)
  PROVE  \E f : RampStates(f, s, list)
<1>1. PICK n \in Nat : n = Len(s)
  OBVIOUS
<1> DEFINE S == [start : Nat, dir : Int, items : Seq(Noted(s))]
           base == [start |-> 1, dir |-> 0, items |-> list]
           step == [k \in 1..n |-> [st \in S |-> RampStep(s, st, k + 1)]]
<1>2. ASSUME NEW k \in 1..n, NEW st \in S PROVE RampStep(s, st, k + 1) \in S
  <2>1. st.start \in Nat /\ st.items \in Seq(Noted(s)) /\ st.dir \in Int /\ k + 1 \in Nat /\ k \in Nat
    OBVIOUS
  <2>2. Add(st.items, Issue(st.start, "RAMP", s)) \in Seq(Noted(s))
    BY <2>1, AddNoted DEF Kinds
  <2>3. Flushed(s, st, k + 1) \in Seq(Noted(s))
    BY <2>1, <2>2 DEF Flushed
  <2>4. PICK d \in Int : d = Sign(s[k + 1] - s[(k + 1) - 1])
    BY DEF Sign
  <2>5. PICK noted : noted = Flushed(s, st, k + 1) /\ noted \in Seq(Noted(s))
    BY <2>3
  <2>6. CASE k + 1 > Len(s)
    <3>1. RampStep(s, st, k + 1) = [st EXCEPT !.items = noted]
      BY <2>5, <2>6 DEF RampStep
    <3> QED
      BY <2>5, <3>1
  <2>7. CASE ~(k + 1 > Len(s)) /\ d # 0 /\ d = st.dir
    BY <2>4, <2>7 DEF RampStep
  <2>8. CASE ~(k + 1 > Len(s)) /\ ~(d # 0 /\ d = st.dir)
    <3>1. RampStep(s, st, k + 1) =
            [items |-> noted, start |-> IF d = 0 THEN k + 1 ELSE (k + 1) - 1, dir |-> d]
      BY <2>4, <2>5, <2>8 DEF RampStep
    <3> QED
      BY <2>1, <2>4, <2>5, <3>1
  <2> QED
    BY <2>6, <2>7, <2>8
<1>3. base \in S
  BY DEF Noted
<1>4. step \in [1..n -> [S -> S]]
  BY <1>2
<1>5. \A k \in 1..n : \A st \in S : step[k][st] = RampStep(s, st, k + 1)
  OBVIOUS
<1> HIDE DEF S, base, step
<1>6. PICK g \in [SUBSET (1..n) -> S] : FoldsUp(g, n, base, step)
  BY <1>3, <1>4, FoldExists
<1> DEFINE Value(h, A) == IF A = {} THEN base
                          ELSE RampStep(s, h[A \ {Max(A)}], Steps(s)[Max(A)])
           Works(h) == h = [A \in SUBSET (1..n) |-> Value(h, A)]
<1>7. \A A : Greatest(A) = Max(A)
  BY Zenon DEF Greatest, Max
<1>8. DOMAIN Steps(s) = 1..n /\ \A k \in 1..n : Steps(s)[k] = k + 1
  BY <1>1 DEF Steps
<1>9. Works(g)
  <2>1. ASSUME NEW A \in SUBSET (1..n) PROVE g[A] = Value(g, A)
    <3>1. CASE A = {}
      BY <1>6, <3>1 DEF FoldsUp
    <3>2. CASE A # {}
      <4>1. PICK x \in 1..n : x = Greatest(A) /\ x = Max(A) /\ A \ {x} \in SUBSET (1..n)
        BY <1>7, <3>2, GreatestIn
      <4>2. g[A] = step[x][g[A \ {x}]] /\ g[A \ {x}] \in S
        BY <1>6, <3>2, <4>1 DEF FoldsUp
      <4> QED
        BY <1>5, <1>8, <3>2, <4>1, <4>2
    <3> QED
      BY <3>1, <3>2
  <2>2. g = [A \in SUBSET (1..n) |-> g[A]]
    BY <1>6
  <2> QED
    BY <2>1, <2>2
<1>10. ScanRamp(list, s) = (CHOOSE h : Works(h))[1..n].items
  BY <1>8, Zenon DEF ScanRamp, FoldLeft, MapThenFoldSet, base
<1>11. PICK h : Works(h) /\ h = (CHOOSE x : Works(x))
  BY <1>9, Zenon
<1>12. h[1..0] = base
  <2>1. 1..0 = {} /\ {} \in SUBSET (1..n)
    OBVIOUS
  <2> QED
    BY <1>11, <2>1
<1>13. ASSUME NEW k \in 1..n PROVE h[1..k] = RampStep(s, h[1..(k - 1)], k + 1)
  <2>1. /\ Max(1..k) = k /\ (1..k) \ {k} = 1..(k - 1)
        /\ 1..k \in SUBSET (1..n) /\ 1..k # {}
    BY <1>7, FoldTakes
  <2>2. h[1..k] = Value(h, 1..k)
    BY <1>11, <2>1
  <2> QED
    BY <1>8, <2>1, <2>2
<1> HIDE DEF Works
<1>14. PICK f : f = [k \in 0..n |-> h[1..k]]
  OBVIOUS
<1>15. f[0] = base /\ f[n] = h[1..n]
  BY <1>12, <1>14
<1>16. \A k \in 1..n : f[k] = RampStep(s, f[k - 1], k + 1)
  <2> SUFFICES ASSUME NEW k \in 1..n PROVE f[k] = RampStep(s, f[k - 1], k + 1)
    OBVIOUS
  <2>1. f[k] = h[1..k] /\ f[k - 1] = h[1..(k - 1)]
    BY <1>14
  <2> QED
    BY <1>13, <2>1
<1> QED
  BY <1>1, <1>10, <1>11, <1>15, <1>16 DEF RampStates, base
-----------------------------------------------------------------------------
LEMMA SaturatedFound ==
  ASSUME NEW s \in Seq(Int), NEW list, NEW prior, Capped(list, prior)
  PROVE  Capped(ScanSaturated(list, s), prior \o IssuesAt(Saturated(s), "SATURATED", s))
<1> DEFINE R == Saturated(s)
<1>1. PICK n \in Nat : n = Len(s)
  OBVIOUS
<1>2. /\ R \in SUBSET (1..n)
      /\ \A i \in 1..n : i \in R <=> (s[i] > Guard \/ -s[i] > Guard)
  <2>1. \A i \in 1..n : s[i] \in Int
    BY <1>1
  <2>2. \A x \in Int : x \notin -Guard..Guard <=> (x > Guard \/ -x > Guard)
    BY ScanConstants
  <2> QED
    BY <1>1, <2>1, <2>2 DEF Saturated
<1> HIDE DEF R
<1>3. list \in Seq(Reported) /\ prior \in Seq(Reported)
  BY DEF Capped
<1>4. PICK f : SaturatedStates(f, s, list)
  BY <1>3, SaturatedFolds
<1>5. /\ f[0] = list /\ ScanSaturated(list, s) = f[n]
      /\ \A k \in 1..n : f[k] = SaturatedStep(s, f[k - 1], k)
  BY <1>1, <1>4 DEF SaturatedStates
<1> DEFINE A == {k \in Nat : k <= n => Upto(f[k], prior, R, k + 1, "SATURATED", s)}
<1>6. "SATURATED" \in Kinds
  BY DEF Kinds
<1>7. 0 \in A
  <2>1. Upto(list, prior, R, 1, "SATURATED", s)
    BY <1>1, <1>2, <1>6, NoneYet
  <2> QED
    BY <1>5, <2>1
<1>8. ASSUME NEW k \in Nat, k \in A PROVE k + 1 \in A
  <2> SUFFICES ASSUME k + 1 <= n
               PROVE  Upto(f[k + 1], prior, R, (k + 1) + 1, "SATURATED", s)
    OBVIOUS
  <2>1. PICK a \in 1..n : a = k + 1 /\ a - 1 = k
    OBVIOUS
  <2>2. Upto(f[k], prior, R, a, "SATURATED", s)
    BY <1>8, <2>1
  <2>3. PICK e \in Nat : e = a + 1 /\ a < e
    OBVIOUS
  <2>4. \A c \in R : ~(a < c /\ c < e)
    BY <1>2, <2>3
  <2>5. /\ a \in R => Upto(Add(f[k], Issue(a, "SATURATED", s)), prior, R, e, "SATURATED", s)
        /\ a \notin R => Upto(f[k], prior, R, e, "SATURATED", s)
    BY <1>1, <1>2, <1>3, <1>6, <2>2, <2>3, <2>4, GoesOn
  <2>6. f[a] = IF a \in R THEN Add(f[k], Issue(a, "SATURATED", s)) ELSE f[k]
    BY <1>2, <1>5, <2>1 DEF SaturatedStep
  <2> QED
    BY <2>1, <2>3, <2>5, <2>6
<1> HIDE DEF A
<1>9. n \in A
  BY <1>7, <1>8, Induction
<1>10. Upto(f[n], prior, R, Len(s) + 1, "SATURATED", s)
  BY <1>1, <1>9 DEF A
<1> QED
  BY <1>1, <1>2, <1>5, <1>6, <1>10, AllFound DEF R

LEMMA RunsStartInside ==
  ASSUME NEW s \in Seq(Int), NEW d, NEW len \in Nat
  PROVE  RunStarts(s, d, len) \in SUBSET (1..Len(s))
BY RunsAreWhole DEF WholeRun

\* The scan for stuck stretches has come to sample i.
StuckAt(st, s, prior, i) ==
  /\ st.start \in 1..i
  /\ \A j \in (st.start + 1)..i : StepTo(s, j) = 0
  /\ st.start = 1 \/ StepTo(s, st.start) # 0
  /\ Upto(st.items, prior, RunStarts(s, 0, StuckRun), st.start, "STUCK", s)

\* The state after sample i, the last one included.
StuckAfter(st, s, prior, i) ==
  /\ i < Len(s) => StuckAt(st, s, prior, i + 1)
  /\ i = Len(s) => Upto(st.items, prior, RunStarts(s, 0, StuckRun), i + 1, "STUCK", s)

LEMMA StuckGoesOn ==
  ASSUME NEW s \in Seq(Int), NEW prior \in Seq(Reported), NEW i \in 1..Len(s), NEW st,
         StuckAt(st, s, prior, i)
  PROVE  StuckAfter(StuckStep(s, st, i + 1), s, prior, i)
<1> DEFINE R == RunStarts(s, 0, StuckRun)
<1>1. PICK n \in Nat, a \in 1..i : n = Len(s) /\ a = st.start
  BY DEF StuckAt
<1>2. /\ i \in 1..n /\ a \in 1..n /\ \A j \in (a + 1)..i : StepTo(s, j) = 0
      /\ a = 1 \/ StepTo(s, a) # 0
      /\ Upto(st.items, prior, R, a, "STUCK", s)
  BY <1>1 DEF StuckAt
<1>3. R \in SUBSET (1..n) /\ "STUCK" \in Kinds
  BY <1>1, RunsStartInside, ScanConstants DEF Kinds
<1>4. \A c : c \in R <=> \E b \in 1..n : WholeRun(s, c, b, 0) /\ b - c + 1 >= StuckRun
  BY <1>1, RunsAreWhole, ScanConstants
<1> HIDE DEF R
<1>5. \A j \in 2..n : StepTo(s, j) = 0 <=> s[j] = s[j - 1]
  <2> SUFFICES ASSUME NEW j \in 2..n PROVE StepTo(s, j) = 0 <=> s[j] = s[j - 1]
    OBVIOUS
  <2>1. s[j] \in Int /\ s[j - 1] \in Int
    BY <1>1
  <2> QED
    BY <2>1 DEF StepTo, Sign
<1>6. CASE i + 1 <= n /\ s[i + 1] = s[i]
  <2>1. StepTo(s, i + 1) = 0
    BY <1>5, <1>6
  <2>2. StuckStep(s, st, i + 1) = st
    BY <1>1, <1>6 DEF StuckStep
  <2>3. \A j \in (a + 1)..(i + 1) : StepTo(s, j) = 0
    <3> SUFFICES ASSUME NEW j \in (a + 1)..(i + 1) PROVE StepTo(s, j) = 0
      OBVIOUS
    <3>1. j = i + 1 \/ j \in (a + 1)..i
      OBVIOUS
    <3> QED
      BY <1>2, <2>1, <3>1
  <2>4. a \in 1..(i + 1)
    OBVIOUS
  <2>5. StuckAt(st, s, prior, i + 1)
    BY <1>1, <1>2, <2>3, <2>4 DEF StuckAt, R
  <2>6. i < n
    BY <1>2, <1>6
  <2> QED
    BY <1>1, <2>2, <2>5, <2>6 DEF StuckAfter
<1>7. CASE ~(i + 1 <= n /\ s[i + 1] = s[i])
  <2>1. i = n \/ StepTo(s, i + 1) # 0
    <3>1. i # n => i + 1 \in 2..n /\ (i + 1) - 1 = i
      BY <1>2
    <3> QED
      BY <1>2, <1>5, <1>7, <3>1
  <2>2. WholeRun(s, a, i, 0)
    BY <1>1, <1>2, <2>1 DEF WholeRun
  <2>3. a \in R <=> (i + 1) - a >= StuckRun
    <3>1. i - a + 1 = (i + 1) - a
      OBVIOUS
    <3>2. \A b : WholeRun(s, a, b, 0) => b = i
      BY <2>2, RunEndsOnce
    <3> QED
      BY <1>2, <1>4, <2>2, <3>1, <3>2
  <2>4. \A c \in R : ~(a < c /\ c < i + 1)
    <3> SUFFICES ASSUME NEW c \in R, a < c, c < i + 1 PROVE FALSE
      OBVIOUS
    <3>1. c \in (a + 1)..i /\ c # 1
      BY <1>3
    <3>2. StepTo(s, c) # 0
      BY <1>4, <3>1 DEF WholeRun
    <3> QED
      BY <1>2, <3>1, <3>2
  <2>5. PICK e \in Nat : e = i + 1 /\ a < e
    OBVIOUS
  <2>6. /\ a \in R => Upto(Add(st.items, Issue(a, "STUCK", s)), prior, R, e, "STUCK", s)
        /\ a \notin R => Upto(st.items, prior, R, e, "STUCK", s)
    BY <1>1, <1>2, <1>3, <2>4, <2>5, GoesOn
  <2>7. PICK new : new = StuckStep(s, st, i + 1)
    OBVIOUS
  <2>8. /\ new.start = e
        /\ new.items = IF a \in R THEN Add(st.items, Issue(a, "STUCK", s)) ELSE st.items
    <3>1. StuckStep(s, st, i + 1) =
            [start |-> i + 1,
             items |-> IF (i + 1) - st.start >= StuckRun
                       THEN Add(st.items, Issue(st.start, "STUCK", s)) ELSE st.items]
      <4>1. (i + 1) - 1 = i
        OBVIOUS
      <4> QED
        BY <1>1, <1>7, <4>1 DEF StuckStep
    <3> QED
      BY <1>1, <2>3, <2>5, <2>7, <3>1
  <2>9. Upto(new.items, prior, R, e, "STUCK", s)
    BY <2>6, <2>8
  <2>10. i < n => StuckAt(new, s, prior, i + 1)
    <3> SUFFICES ASSUME i < n PROVE StuckAt(new, s, prior, i + 1)
      OBVIOUS
    <3>1. StepTo(s, e) # 0 /\ e \in 1..(i + 1)
      BY <1>2, <2>1, <2>5
    <3>2. \A j \in (e + 1)..(i + 1) : FALSE
      BY <2>5
    <3> QED
      BY <2>5, <2>8, <2>9, <3>1, <3>2 DEF StuckAt, R
  <2> QED
    BY <1>1, <2>5, <2>7, <2>9, <2>10 DEF StuckAfter, R
<1> QED
  BY <1>6, <1>7

LEMMA StuckFound ==
  ASSUME NEW s \in Seq(Int), NEW list, NEW prior, Capped(list, prior)
  PROVE  Capped(ScanStuck(list, s), prior \o IssuesAt(RunStarts(s, 0, StuckRun), "STUCK", s))
<1> DEFINE R == RunStarts(s, 0, StuckRun)
<1>1. PICK n \in Nat : n = Len(s)
  OBVIOUS
<1>2. R \in SUBSET (1..n) /\ "STUCK" \in Kinds
  BY <1>1, RunsStartInside, ScanConstants DEF Kinds
<1> HIDE DEF R
<1>3. list \in Seq(Reported) /\ prior \in Seq(Reported)
  BY DEF Capped
<1>4. PICK f : StuckStates(f, s, list)
  BY <1>3, StuckFolds
<1>5. /\ f[0] = [start |-> 1, items |-> list] /\ ScanStuck(list, s) = f[n].items
      /\ \A k \in 1..n : f[k] = StuckStep(s, f[k - 1], k + 1)
  BY <1>1, <1>4 DEF StuckStates
<1>6. Upto(list, prior, R, 1, "STUCK", s)
  BY <1>1, <1>2, NoneYet
<1> DEFINE A == {k \in Nat : k <= n => StuckAfter(f[k], s, prior, k)}
<1>7. 0 \in A
  <2>1. f[0].start = 1 /\ f[0].items = list
    BY <1>5
  <2>2. (0 + 1 = 1) /\ 1 \in 1..1 /\ \A j \in (1 + 1)..1 : FALSE
    OBVIOUS
  <2>3. StuckAt(f[0], s, prior, 0 + 1)
    BY <1>6, <2>1, <2>2 DEF StuckAt, R
  <2>4. 0 = n => Upto(f[0].items, prior, R, 0 + 1, "STUCK", s)
    BY <1>6, <2>1, <2>2
  <2> QED
    BY <1>1, <2>3, <2>4 DEF StuckAfter, R
<1>8. ASSUME NEW k \in Nat, k \in A PROVE k + 1 \in A
  <2> SUFFICES ASSUME k + 1 <= n PROVE StuckAfter(f[k + 1], s, prior, k + 1)
    OBVIOUS
  <2>1. PICK i \in 1..n : i = k + 1 /\ i - 1 = k
    OBVIOUS
  <2>2. StuckAt(f[k], s, prior, i)
    <3>1. k < n /\ StuckAfter(f[k], s, prior, k)
      BY <1>8
    <3> QED
      BY <1>1, <2>1, <3>1 DEF StuckAfter
  <2>3. f[i] = StuckStep(s, f[k], i + 1)
    BY <1>5, <2>1
  <2>4. StuckAfter(StuckStep(s, f[k], i + 1), s, prior, i)
    BY <1>1, <1>3, <2>2, StuckGoesOn
  <2> QED
    BY <2>1, <2>3, <2>4
<1> HIDE DEF A
<1>9. n \in A
  BY <1>7, <1>8, Induction
<1>10. Upto(f[n].items, prior, R, Len(s) + 1, "STUCK", s)
  BY <1>1, <1>9 DEF A, StuckAfter, R
<1> QED
  BY <1>1, <1>2, <1>5, <1>10, AllFound DEF R
-----------------------------------------------------------------------------
\* The starts of ramps, up and down.
Ramps(s) == RunStarts(s, 1, RampRun) \cup RunStarts(s, -1, RampRun)

LEMMA RampsAreWhole ==
  ASSUME NEW s \in Seq(Int)
  PROVE  /\ Ramps(s) \in SUBSET (1..Len(s))
         /\ \A c : c \in Ramps(s) <=>
              \E d \in {1, -1} : \E b \in 1..Len(s) : WholeRun(s, c, b, d) /\ b - c + 1 >= RampRun
<1>1. /\ RunStarts(s, 1, RampRun) \in SUBSET (1..Len(s))
      /\ RunStarts(s, -1, RampRun) \in SUBSET (1..Len(s))
  BY RunsStartInside, ScanConstants
<1>2. \A c : /\ c \in RunStarts(s, 1, RampRun) <=>
                  \E b \in 1..Len(s) : WholeRun(s, c, b, 1) /\ b - c + 1 >= RampRun
             /\ c \in RunStarts(s, -1, RampRun) <=>
                  \E b \in 1..Len(s) : WholeRun(s, c, b, -1) /\ b - c + 1 >= RampRun
  BY RunsAreWhole, ScanConstants
<1> QED
  BY <1>1, <1>2 DEF Ramps

\* The scan for ramps has come to sample i.
RampAt(st, s, prior, i) ==
  /\ st = [start |-> st.start, dir |-> st.dir, items |-> st.items]
  /\ st.start \in 1..i /\ st.dir \in {-1, 0, 1}
  /\ st.dir = 0 => st.start = i /\ (i = 1 \/ StepTo(s, i) = 0)
  /\ st.dir # 0 => /\ st.start < i /\ \A j \in (st.start + 1)..i : StepTo(s, j) = st.dir
                   /\ st.start = 1 \/ StepTo(s, st.start) # st.dir
  /\ Upto(st.items, prior, Ramps(s), st.start, "RAMP", s)

RampAfter(st, s, prior, i) ==
  /\ i < Len(s) => RampAt(st, s, prior, i + 1)
  /\ i = Len(s) => Upto(st.items, prior, Ramps(s), i + 1, "RAMP", s)

\* A run that does not go on after i is reported, if it is long enough, and no
\* other starts before e.
LEMMA RampFlushed ==
  ASSUME NEW s \in Seq(Int), NEW prior \in Seq(Reported), NEW i \in 1..Len(s), NEW st,
         RampAt(st, s, prior, i),
         st.dir # 0 => i = Len(s) \/ StepTo(s, i + 1) # st.dir,
         NEW e \in Nat, e = i \/ (e = i + 1 /\ (i = Len(s) \/ StepTo(s, i + 1) = 0))
  PROVE  Upto(Flushed(s, st, i + 1), prior, Ramps(s), e, "RAMP", s)
<1>0. PICK list : list = st.items
  OBVIOUS
<1>1. PICK n \in Nat, a \in 1..i, d \in {-1, 0, 1} :
        n = Len(s) /\ a = st.start /\ d = st.dir /\ list = st.items
  BY <1>0 DEF RampAt
<1>2. /\ i \in 1..n /\ a \in 1..n
      /\ d = 0 => a = i /\ (i = 1 \/ StepTo(s, i) = 0)
      /\ d # 0 => /\ a < i /\ \A j \in (a + 1)..i : StepTo(s, j) = d
                  /\ a = 1 \/ StepTo(s, a) # d
      /\ d # 0 => i = n \/ StepTo(s, i + 1) # d
      /\ e = i \/ (e = i + 1 /\ (i = n \/ StepTo(s, i + 1) = 0))
  BY <1>1 DEF RampAt
<1>3. PICK R : R = Ramps(s)
  OBVIOUS
<1>4. Upto(list, prior, R, a, "RAMP", s)
  BY <1>1, <1>3 DEF RampAt
<1>5. /\ R \in SUBSET (1..n) /\ "RAMP" \in Kinds
      /\ \A c : c \in R <=>
           \E x \in {1, -1} : \E b \in 1..n : WholeRun(s, c, b, x) /\ b - c + 1 >= RampRun
  BY <1>1, <1>3, RampsAreWhole DEF Kinds
<1>6. ASSUME NEW c \in R
      PROVE  \E x \in {1, -1} : /\ c + 1 \in 1..n /\ StepTo(s, c + 1) = x
                                /\ c = 1 \/ StepTo(s, c) # x
                                /\ \E b \in 1..n : WholeRun(s, c, b, x) /\ b - c + 1 >= RampRun
  <2>1. PICK x \in {1, -1}, b \in 1..n : WholeRun(s, c, b, x) /\ b - c + 1 >= RampRun
    BY <1>5
  <2>2. c \in 1..n /\ c + 1 \in (c + 1)..b
    BY <1>5, <2>1, ScanConstants
  <2>3. StepTo(s, c + 1) = x /\ (c = 1 \/ StepTo(s, c) # x)
    BY <2>1, <2>2 DEF WholeRun
  <2>4. c + 1 \in 1..n
    BY <2>2
  <2> QED
    BY <2>1, <2>3, <2>4
<1>7. Flushed(s, st, i + 1) =
        IF d # 0 /\ (i + 1) - a >= RampRun THEN Add(list, Issue(a, "RAMP", s)) ELSE list
  BY <1>1 DEF Flushed
<1>8. CASE d = 0
  <2>1. CASE e = i
    BY <1>2, <1>3, <1>4, <1>7, <1>8, <2>1
  <2>2. CASE e # i
    <3>1. a < e /\ e = a + 1 /\ a = i /\ (i = n \/ StepTo(s, i + 1) = 0)
      BY <1>2, <1>8, <2>2
    <3>2. a \notin R
      <4> SUFFICES ASSUME a \in R PROVE FALSE
        OBVIOUS
      <4>1. PICK x \in {1, -1} : a + 1 \in 1..n /\ StepTo(s, a + 1) = x
        BY <1>6
      <4>2. i # n
        BY <3>1, <4>1
      <4>3. StepTo(s, a + 1) = 0
        BY <3>1, <4>2
      <4> QED
        BY <4>1, <4>3
    <3>3. \A c \in R : ~(a < c /\ c < e)
      BY <1>5, <3>1
    <3>4. Upto(list, prior, R, e, "RAMP", s)
      BY <1>1, <1>2, <1>4, <1>5, <3>1, <3>2, <3>3, GoesOn
    <3> QED
      BY <1>3, <1>7, <1>8, <3>4
  <2> QED
    BY <2>1, <2>2
<1>9. CASE d # 0
  <2>1. a < e /\ a < i
    BY <1>2, <1>9
  <2>2. \A c \in R : ~(a < c /\ c < e)
    <3> SUFFICES ASSUME NEW c \in R, a < c, c < e PROVE FALSE
      OBVIOUS
    <3>1. PICK x \in {1, -1} : /\ c + 1 \in 1..n /\ StepTo(s, c + 1) = x
                               /\ c = 1 \/ StepTo(s, c) # x
      BY <1>6
    <3>2. c \in (a + 1)..i /\ c # 1 /\ c \in Nat
      BY <1>2, <1>5
    <3>3. StepTo(s, c) = d /\ x # d
      BY <1>2, <1>9, <3>1, <3>2
    <3>4. CASE c < i
      <4>1. c + 1 \in (a + 1)..i
        BY <3>2, <3>4
      <4> QED
        BY <1>2, <1>9, <3>1, <3>3, <4>1
    <3>5. CASE c = i
      <4>1. i # n /\ e = i + 1
        BY <1>2, <3>1, <3>2, <3>5
      <4>2. StepTo(s, c + 1) = 0
        BY <1>2, <3>5, <4>1
      <4> QED
        BY <3>1, <4>2
    <3> QED
      BY <3>2, <3>4, <3>5
  <2>3. WholeRun(s, a, i, d)
    BY <1>1, <1>2, <1>9 DEF WholeRun
  <2>4. a \in R <=> (i + 1) - a >= RampRun
    <3>1. i - a + 1 = (i + 1) - a /\ d \in {1, -1}
      BY <1>9
    <3>2. ASSUME a \in R PROVE (i + 1) - a >= RampRun
      <4>1. PICK x \in {1, -1} :
              /\ StepTo(s, a + 1) = x
              /\ \E b \in 1..n : WholeRun(s, a, b, x) /\ b - a + 1 >= RampRun
        BY <1>6, <3>2
      <4>2. a + 1 \in (a + 1)..i
        BY <2>1
      <4>3. x = d
        BY <1>2, <1>9, <4>1, <4>2
      <4>4. PICK b \in 1..n : WholeRun(s, a, b, d) /\ b - a + 1 >= RampRun
        BY <4>1, <4>3
      <4>5. b = i
        BY <2>3, <4>4, RunEndsOnce
      <4> QED
        BY <3>1, <4>4, <4>5
    <3>3. ASSUME (i + 1) - a >= RampRun PROVE a \in R
      BY <1>2, <1>5, <2>3, <3>1, <3>3
    <3> QED
      BY <3>2, <3>3
  <2>5. /\ a \in R => Upto(Add(list, Issue(a, "RAMP", s)), prior, R, e, "RAMP", s)
        /\ a \notin R => Upto(list, prior, R, e, "RAMP", s)
    BY <1>1, <1>2, <1>4, <1>5, <2>1, <2>2, GoesOn
  <2> QED
    BY <1>3, <1>7, <1>9, <2>4, <2>5
<1> QED
  BY <1>8, <1>9

LEMMA RampGoesOn ==
  ASSUME NEW s \in Seq(Int), NEW prior \in Seq(Reported), NEW i \in 1..Len(s), NEW st,
         RampAt(st, s, prior, i)
  PROVE  RampAfter(RampStep(s, st, i + 1), s, prior, i)
<1>0. st.start \in 1..i /\ st.dir \in {-1, 0, 1}
  BY DEF RampAt
<1>1. PICK n \in Nat, a \in 1..i, d \in {-1, 0, 1} :
        n = Len(s) /\ a = st.start /\ d = st.dir
  BY <1>0
<1>2. /\ i \in 1..n
      /\ d = 0 => a = i /\ (i = 1 \/ StepTo(s, i) = 0)
      /\ d # 0 => /\ a < i /\ \A j \in (a + 1)..i : StepTo(s, j) = d
                  /\ a = 1 \/ StepTo(s, a) # d
  BY <1>1 DEF RampAt
<1>3. PICK x \in {-1, 0, 1} : x = StepTo(s, i + 1) /\ x = Sign(s[i + 1] - s[(i + 1) - 1])
  BY DEF StepTo, Sign
<1>4. PICK flushed, new : flushed = Flushed(s, st, i + 1) /\ new = RampStep(s, st, i + 1)
  OBVIOUS
<1>5. CASE i = n
  <2>1. new = [st EXCEPT !.items = flushed]
    <3>1. i + 1 > n
      BY <1>5
    <3> QED
      BY <1>1, <1>4, <3>1 DEF RampStep
  <2>2. Upto(flushed, prior, Ramps(s), i + 1, "RAMP", s)
    <3>1. i + 1 \in Nat
      OBVIOUS
    <3> QED
      BY <1>1, <1>4, <1>5, <3>1, RampFlushed
  <2>3. new.items = flushed
    <3>1. PICK from, list : st = [start |-> from, dir |-> d, items |-> list]
      BY <1>1 DEF RampAt
    <3> QED
      BY <2>1, <3>1
  <2> QED
    BY <1>1, <1>4, <1>5, <2>1, <2>2, <2>3 DEF RampAfter
<1>6. CASE i < n /\ x # 0 /\ x = d
  <2>1. new = st
    <3>1. ~(i + 1 > n)
      BY <1>6
    <3> QED
      BY <1>1, <1>3, <1>4, <1>6, <3>1 DEF RampStep
  <2>2. \A j \in (a + 1)..(i + 1) : StepTo(s, j) = d
    <3> SUFFICES ASSUME NEW j \in (a + 1)..(i + 1) PROVE StepTo(s, j) = d
      OBVIOUS
    <3>1. j = i + 1 \/ j \in (a + 1)..i
      OBVIOUS
    <3> QED
      BY <1>2, <1>3, <1>6, <3>1
  <2>3. a \in 1..(i + 1) /\ a < i + 1 /\ (a = 1 \/ StepTo(s, a) # d)
    BY <1>2, <1>6
  <2>4. RampAt(st, s, prior, i + 1)
    BY <1>1, <1>6, <2>2, <2>3 DEF RampAt
  <2> QED
    BY <1>1, <1>4, <1>6, <2>1, <2>4 DEF RampAfter
<1>7. CASE i < n /\ ~(x # 0 /\ x = d)
  <2>1. PICK e \in Nat : e = (IF x = 0 THEN i + 1 ELSE (i + 1) - 1)
    OBVIOUS
  <2>2. new = [items |-> flushed, start |-> e, dir |-> x]
    <3>1. ~(i + 1 > n)
      BY <1>7
    <3> QED
      BY <1>1, <1>3, <1>4, <1>7, <2>1, <3>1 DEF RampStep
  <2>3. Upto(flushed, prior, Ramps(s), e, "RAMP", s)
    <3>1. st.dir # 0 => StepTo(s, i + 1) # st.dir
      BY <1>1, <1>3, <1>7
    <3>2. e = i \/ (e = i + 1 /\ StepTo(s, i + 1) = 0)
      BY <1>3, <2>1
    <3> QED
      BY <1>4, <3>1, <3>2, RampFlushed
  <2>4. CASE x = 0
    <3>1. e = i + 1 /\ e \in 1..(i + 1) /\ StepTo(s, i + 1) = 0
      BY <1>3, <2>1, <2>4
    <3>2. RampAt(new, s, prior, i + 1)
      BY <2>2, <2>3, <2>4, <3>1 DEF RampAt
    <3> QED
      BY <1>1, <1>4, <1>7, <3>2 DEF RampAfter
  <2>5. CASE x # 0
    <3>1. e = i /\ e \in 1..(i + 1) /\ e < i + 1
      BY <2>1, <2>5
    <3>2. \A j \in (e + 1)..(i + 1) : StepTo(s, j) = x
      <4>1. \A j \in (e + 1)..(i + 1) : j = i + 1
        BY <3>1
      <4> QED
        BY <1>3, <4>1
    <3>3. e = 1 \/ StepTo(s, e) # x
      <4>1. d # 0 => i \in (a + 1)..i
        BY <1>2
      <4> QED
        BY <1>2, <1>7, <2>5, <3>1, <4>1
    <3>4. RampAt(new, s, prior, i + 1)
      BY <2>2, <2>3, <2>5, <3>1, <3>2, <3>3 DEF RampAt
    <3> QED
      BY <1>1, <1>4, <1>7, <3>4 DEF RampAfter
  <2> QED
    BY <2>4, <2>5
<1> QED
  BY <1>2, <1>5, <1>6, <1>7

LEMMA RampFound ==
  ASSUME NEW s \in Seq(Int), NEW list, NEW prior, Capped(list, prior)
  PROVE  Capped(ScanRamp(list, s), prior \o IssuesAt(Ramps(s), "RAMP", s))
<1> DEFINE R == Ramps(s)
<1>1. PICK n \in Nat : n = Len(s)
  OBVIOUS
<1>2. R \in SUBSET (1..n) /\ "RAMP" \in Kinds
  BY <1>1, RampsAreWhole DEF Kinds
<1> HIDE DEF R
<1>3. list \in Seq(Reported) /\ prior \in Seq(Reported)
  BY DEF Capped
<1>4. PICK f : RampStates(f, s, list)
  BY <1>3, RampFolds
<1>5. /\ f[0] = [start |-> 1, dir |-> 0, items |-> list] /\ ScanRamp(list, s) = f[n].items
      /\ \A k \in 1..n : f[k] = RampStep(s, f[k - 1], k + 1)
  BY <1>1, <1>4 DEF RampStates
<1>6. Upto(list, prior, R, 1, "RAMP", s)
  BY <1>1, <1>2, NoneYet
<1> DEFINE A == {k \in Nat : k <= n => RampAfter(f[k], s, prior, k)}
<1>7. 0 \in A
  <2>1. f[0].start = 1 /\ f[0].dir = 0 /\ f[0].items = list
    BY <1>5
  <2>2. f[0] = [start |-> f[0].start, dir |-> f[0].dir, items |-> f[0].items]
    BY <1>5, <2>1
  <2>3. (0 + 1 = 1) /\ 1 \in 1..1
    OBVIOUS
  <2>4. RampAt(f[0], s, prior, 0 + 1)
    BY <1>6, <2>1, <2>2, <2>3 DEF RampAt, R
  <2>5. 0 = n => Upto(f[0].items, prior, R, 0 + 1, "RAMP", s)
    BY <1>6, <2>1, <2>3
  <2> QED
    BY <1>1, <2>4, <2>5 DEF RampAfter, R
<1>8. ASSUME NEW k \in Nat, k \in A PROVE k + 1 \in A
  <2> SUFFICES ASSUME k + 1 <= n PROVE RampAfter(f[k + 1], s, prior, k + 1)
    OBVIOUS
  <2>1. PICK i \in 1..n : i = k + 1 /\ i - 1 = k
    OBVIOUS
  <2>2. RampAt(f[k], s, prior, i)
    <3>1. k < n /\ RampAfter(f[k], s, prior, k)
      BY <1>8
    <3> QED
      BY <1>1, <2>1, <3>1 DEF RampAfter
  <2>3. f[i] = RampStep(s, f[k], i + 1)
    BY <1>5, <2>1
  <2>4. RampAfter(RampStep(s, f[k], i + 1), s, prior, i)
    BY <1>1, <1>3, <2>2, RampGoesOn
  <2> QED
    BY <2>1, <2>3, <2>4
<1> HIDE DEF A
<1>9. n \in A
  BY <1>7, <1>8, Induction
<1>10. Upto(f[n].items, prior, R, Len(s) + 1, "RAMP", s)
  BY <1>1, <1>9 DEF A, RampAfter, R
<1> QED
  BY <1>1, <1>2, <1>5, <1>10, AllFound DEF R

LEMMA AllFindings ==
  ASSUME NEW s \in Seq(Int)
  PROVE  Capped(ScanSamples(s), AllIssues(s))
<1>1. PICK stuck, sat, ramp :
        /\ stuck = IssuesAt(RunStarts(s, 0, StuckRun), "STUCK", s)
        /\ sat = IssuesAt(Saturated(s), "SATURATED", s)
        /\ ramp = IssuesAt(Ramps(s), "RAMP", s)
  OBVIOUS
<1>2. Capped(<<>>, <<>>)
  <2>1. <<>> \in Seq(Reported) /\ Len(<<>>) = 0
    OBVIOUS
  <2> QED
    BY <2>1, ScanConstants DEF Capped
<1>3. PICK found : found = ScanStuck(<<>>, s)
  OBVIOUS
<1>4. PICK more : more = ScanSaturated(found, s)
  OBVIOUS
<1>5. Capped(found, <<>> \o stuck)
  BY <1>1, <1>2, <1>3, StuckFound
<1>6. Capped(more, (<<>> \o stuck) \o sat)
  BY <1>1, <1>4, <1>5, SaturatedFound
<1>7. Capped(ScanRamp(more, s), ((<<>> \o stuck) \o sat) \o ramp)
  BY <1>1, <1>6, RampFound
<1>8. <<>> \o stuck = stuck
  <2>1. RunStarts(s, 0, StuckRun) \in SUBSET (1..Len(s))
    BY RunsStartInside, ScanConstants
  <2>2. stuck \in Seq(Reported)
    BY <1>1, <2>1, IssuesReported DEF Kinds
  <2> QED
    BY <2>2
<1>9. ScanSamples(s) = ScanRamp(more, s)
  BY <1>3, <1>4 DEF ScanSamples
<1>10. AllIssues(s) = (stuck \o sat) \o ramp
  BY <1>1 DEF AllIssues, Ramps
<1> QED
  BY <1>7, <1>8, <1>9, <1>10

\* A scan reports the first issues of its block, in their order, as many as it
\* may: each stuck or ramping stretch that is long enough once, at its start,
\* and each saturated sample.
THEOREM ScanIsRight == LibrarySpec => []ScanFindsStretches
<1>1. samples \in Seq(Sample) => ScanFindsStretches
  <2> SUFFICES ASSUME samples \in Seq(Sample) PROVE ScanFindsStretches
    OBVIOUS
  <2>1. samples \in Seq(Int)
    BY SampleRange
  <2>2. PICK list, full : list = ScanSamples(samples) /\ full = AllIssues(samples)
    OBVIOUS
  <2>3. /\ list \in Seq(Reported) /\ full \in Seq(Reported)
        /\ Len(list) = IF MaxIssues <= Len(full) THEN MaxIssues ELSE Len(full)
        /\ \A k \in 1..Len(list) : list[k] = full[k]
    BY <2>1, <2>2, AllFindings DEF Capped
  <2>4. PICK n \in Nat : n = Len(list) /\ n <= Len(full)
    BY <2>3, ScanConstants
  <2>5. Min({MaxIssues, Len(full)}) = n
    <3>1. {MaxIssues, Len(full)} \subseteq Int
      BY <2>3, ScanConstants
    <3>2. Smallest(n, {MaxIssues, Len(full)})
      BY <2>3, <2>4, ScanConstants DEF Smallest
    <3> QED
      BY <3>1, <3>2, MinIs
  <2>6. SubSeq(full, 1, n) = [k \in 1..n |-> full[k]]
    BY <2>3, <2>4, FrontPart
  <2>7. list = [k \in 1..n |-> list[k]]
    BY <2>3, <2>4
  <2>8. list = SubSeq(full, 1, n)
    BY <2>3, <2>4, <2>6, <2>7
  <2> QED
    BY <2>2, <2>5, <2>8 DEF ScanFindsStretches
<1>2. LibrarySpec => [](samples \in Seq(Sample))
  BY SamplesAreSamples
<1> QED
  BY <1>1, <1>2, PTL
-----------------------------------------------------------------------------
(* The event clusters. *)

\* The events of a list have what is asked of them.
Heard(E) ==
  /\ Len(E) \in Nat
  /\ \A i \in 1..Len(E) : /\ E[i].station \in Nat /\ E[i].at \in Nat /\ E[i].channel \in Nat

\* The events es are in turn along line.
Lined(line, m, es, E) ==
  /\ m \in Nat /\ line \in [1..m -> es]
  /\ \A e \in es : \E k \in 1..m : line[k] = e
  /\ \A k, l \in 1..m : line[k] = line[l] => k = l
  /\ \A k, l \in 1..m : k < l => Clusters!Before(E, line[k], line[l])

LEMMA InTurnSorts ==
  ASSUME NEW E, Heard(E), NEW es \in SUBSET (1..Len(E))
  PROVE  Lined(Clusters!InTurn(E, es), Cardinality(es), es, E)
<1> DEFINE le == {ik \in es \X es : Clusters!NotAfter(E, ik[1], ik[2])}
           m == Cardinality(es)
           line == Clusters!InTurn(E, es)
<1>1. \A i, k \in es : <<i, k>> \in le <=> Clusters!NotAfter(E, i, k)
  OBVIOUS
<1>2. ASSUME NEW i \in es, NEW k \in es
      PROVE  Clusters!NotAfter(E, i, k) <=>
               \/ E[i].station < E[k].station
               \/ E[i].station = E[k].station /\ E[i].at < E[k].at
               \/ E[i].station = E[k].station /\ E[i].at = E[k].at /\ i <= k
  <2>1. i \in Nat /\ k \in Nat /\ E[i].station \in Nat /\ E[i].at \in Nat
    BY DEF Heard
  <2>2. i <= k <=> i = k \/ i < k
    BY <2>1
  <2> QED
    BY <2>2 DEF Clusters!NotAfter, Clusters!Before
<1>3. \A i \in es : i \in Nat /\ E[i].station \in Nat /\ E[i].at \in Nat
  BY DEF Heard
<1>4. IsFiniteSet(es)
  <2>1. IsFiniteSet(1..Len(E))
    BY FS_Interval DEF Heard
  <2> QED
    BY <2>1, FS_Subset
<1> HIDE DEF le
<1>5. /\ \A i \in es : <<i, i>> \in le
      /\ \A i, j \in es : <<i, j>> \in le \/ <<j, i>> \in le
      /\ \A i, j \in es : <<i, j>> \in le /\ <<j, i>> \in le => i = j
      /\ \A i, j, k \in es : <<i, j>> \in le /\ <<j, k>> \in le => <<i, k>> \in le
  <2>1. ASSUME NEW i \in es, NEW j \in es
        PROVE  /\ <<i, i>> \in le /\ (<<i, j>> \in le \/ <<j, i>> \in le)
               /\ (<<i, j>> \in le /\ <<j, i>> \in le) => i = j
    BY <1>1, <1>2, <1>3
  <2>2. ASSUME NEW i \in es, NEW j \in es, NEW k \in es, <<i, j>> \in le, <<j, k>> \in le
        PROVE  <<i, k>> \in le
    <3>1. /\ \/ E[i].station < E[j].station
             \/ E[i].station = E[j].station /\ E[i].at < E[j].at
             \/ E[i].station = E[j].station /\ E[i].at = E[j].at /\ i <= j
          /\ \/ E[j].station < E[k].station
             \/ E[j].station = E[k].station /\ E[j].at < E[k].at
             \/ E[j].station = E[k].station /\ E[j].at = E[k].at /\ j <= k
      BY <1>1, <1>2, <2>2
    <3>2. \/ E[i].station < E[k].station
          \/ E[i].station = E[k].station /\ E[i].at < E[k].at
          \/ E[i].station = E[k].station /\ E[i].at = E[k].at /\ i <= k
      BY <1>3, <3>1
    <3> QED
      BY <1>1, <1>2, <3>2
  <2> QED
    BY <2>1, <2>2
<1>6. PlacedBy(line, m, es, le)
  <2>1. \A e \in es : {k \in es : Clusters!NotAfter(E, k, e)} = {k \in es : <<k, e>> \in le}
    BY <1>1
  <2>2. \A n : \A e \in es : Cardinality({k \in es : Clusters!NotAfter(E, k, e)}) = n
                               <=> Cardinality({k \in es : <<k, e>> \in le}) = n
    BY <2>1
  <2> DEFINE first(n) == CHOOSE e \in es :
                           Cardinality({k \in es : Clusters!NotAfter(E, k, e)}) = n
             other(n) == CHOOSE e \in es : Cardinality({k \in es : <<k, e>> \in le}) = n
  <2>3. \A n : first(n) = other(n)
    BY <2>2, Zenon
  <2>4. line = [n \in 1..m |-> first(n)]
    BY Zenon DEF Clusters!InTurn, Clusters!Cardinality, Cardinality
  <2> HIDE DEF first, other
  <2>5. line = [n \in 1..m |-> other(n)]
    BY <2>3, <2>4
  <2> QED
    BY <2>5, Zenon DEF PlacedBy, other
<1>7. m \in Nat /\ SortedBy(line, m, es, le)
  BY <1>4, <1>5, <1>6, SortsByCount
<1> HIDE DEF m, line
<1>8. /\ line \in [1..m -> es] /\ \A e \in es : \E k \in 1..m : line[k] = e
      /\ \A k, l \in 1..m : line[k] = line[l] => k = l
  BY <1>7 DEF SortedBy, Bijection, Injection, Surjection, IsInjective
<1>9. ASSUME NEW k \in 1..m, NEW l \in 1..m, k < l PROVE Clusters!Before(E, line[k], line[l])
  <2>1. line[k] \in es /\ line[l] \in es /\ line[k] # line[l] /\ k <= l
    BY <1>7, <1>8, <1>9
  <2>2. <<line[k], line[l]>> \in le
    BY <1>7, <2>1 DEF SortedBy
  <2>3. Clusters!NotAfter(E, line[k], line[l])
    BY <1>1, <2>1, <2>2
  <2> QED
    BY <2>1, <2>3 DEF Clusters!NotAfter
<1> QED
  BY <1>7, <1>8, <1>9 DEF Lined, m, line

\* Event k of a station follows event i of it within w.
Follows(E, i, k, w) == E[i].station = E[k].station /\ E[k].at - E[i].at <= w

\* owner numbers the places of line by the clusters they fall in.
Numbers(owner, line, m, E, w) ==
  /\ owner \in [0..m -> Nat] /\ owner[0] = 0
  /\ \A p \in 1..m : owner[p] = IF p > 1 /\ Follows(E, line[p - 1], line[p], w)
                                THEN owner[p - 1] ELSE owner[p - 1] + 1

LEMMA NumbersExist ==
  ASSUME NEW m \in Nat, NEW line, NEW E, NEW w
  PROVE  \E owner : Numbers(owner, line, m, E, w)
<1> DEFINE step == [p \in 1..m |-> [x \in Nat |->
                      IF p > 1 /\ Follows(E, line[p - 1], line[p], w) THEN x ELSE x + 1]]
<1>1. 0 \in Nat /\ step \in [1..m -> [Nat -> Nat]]
  OBVIOUS
<1>2. \A p \in 1..m : \A x \in Nat :
        step[p][x] = IF p > 1 /\ Follows(E, line[p - 1], line[p], w) THEN x ELSE x + 1
  OBVIOUS
<1> HIDE DEF step
<1>3. PICK owner : Solves(owner, m, Nat, 0, step)
  BY <1>1, Recursion
<1>4. \A p \in 1..m : owner[p] = step[p][owner[p - 1]] /\ owner[p - 1] \in Nat
  BY <1>3 DEF Solves
<1>5. \A p \in 1..m : owner[p] = IF p > 1 /\ Follows(E, line[p - 1], line[p], w)
                                 THEN owner[p - 1] ELSE owner[p - 1] + 1
  BY <1>2, <1>4
<1>6. owner \in [0..m -> Nat] /\ owner[0] = 0
  BY <1>3 DEF Solves
<1> QED
  BY <1>5, <1>6, Zenon DEF Numbers

\* Two places fall in one cluster if no silence is between them.
LEMMA NumbersGrow ==
  ASSUME NEW m \in Nat, NEW line, NEW E, NEW w, NEW owner, Numbers(owner, line, m, E, w)
  PROVE  /\ \A q \in 1..m : owner[q] \in Nat \ {0}
         /\ \A p, q \in 1..m : p <= q =>
              /\ owner[p] <= owner[q]
              /\ owner[p] = owner[q] <=> \A r \in (p + 1)..q : Follows(E, line[r - 1], line[r], w)
<1> DEFINE Fine(p, q) ==
             /\ owner[p] <= owner[q]
             /\ owner[p] = owner[q] <=> \A r \in (p + 1)..q : Follows(E, line[r - 1], line[r], w)
           A == {q \in Nat : q \in 1..m => owner[q] \in Nat \ {0} /\ \A p \in 1..q : Fine(p, q)}
<1>1. \A q \in 0..m : owner[q] \in Nat
  BY DEF Numbers
<1>2. 0 \in A
  OBVIOUS
<1>3. ASSUME NEW k \in Nat, k \in A PROVE k + 1 \in A
  <2> SUFFICES ASSUME k + 1 \in 1..m
               PROVE  owner[k + 1] \in Nat \ {0} /\ \A p \in 1..(k + 1) : Fine(p, k + 1)
    OBVIOUS
  <2>1. PICK q \in 1..m : q = k + 1 /\ q - 1 = k /\ q - 1 \in 0..m
    OBVIOUS
  <2>2. PICK x \in Nat, y \in Nat : x = owner[q - 1] /\ y = owner[q]
    BY <1>1, <2>1
  <2>3. y = IF q > 1 /\ Follows(E, line[q - 1], line[q], w) THEN x ELSE x + 1
    BY <2>1, <2>2, Zenon DEF Numbers
  <2>4. y # 0
    <3>1. CASE q > 1
      <4>1. k \in 1..m
        BY <2>1, <3>1
      <4> QED
        BY <1>3, <2>1, <2>2, <2>3, <4>1
    <3>2. CASE ~(q > 1)
      BY <2>2, <2>3, <3>2
    <3> QED
      BY <3>1, <3>2
  <2>5. ASSUME NEW p \in 1..q PROVE Fine(p, q)
    <3>1. CASE p = q
      <4>1. \A r \in (p + 1)..q : FALSE
        BY <3>1
      <4> QED
        BY <2>2, <3>1, <4>1
    <3>2. CASE p # q
      <4>1. k \in 1..m /\ p \in 1..k /\ q > 1 /\ p \in 0..m
        BY <2>1, <3>2
      <4>2. Fine(p, k)
        BY <1>3, <4>1
      <4>3. PICK z \in Nat : z = owner[p]
        BY <1>1, <4>1
      <4>4. z <= x /\ (z = x <=> \A r \in (p + 1)..k : Follows(E, line[r - 1], line[r], w))
        BY <2>1, <2>2, <4>2, <4>3
      <4>5. (\A r \in (p + 1)..q : Follows(E, line[r - 1], line[r], w)) <=>
              /\ \A r \in (p + 1)..k : Follows(E, line[r - 1], line[r], w)
              /\ Follows(E, line[q - 1], line[q], w)
        <5>1. (p + 1)..q = ((p + 1)..k) \cup {q}
          BY <2>1, <4>1
        <5> QED
          BY <5>1
      <4>6. z <= y /\ (z = y <=> z = x /\ Follows(E, line[q - 1], line[q], w))
        BY <2>3, <4>1, <4>4
      <4> QED
        BY <2>2, <4>3, <4>4, <4>5, <4>6
    <3> QED
      BY <3>1, <3>2
  <2> HIDE DEF Fine
  <2> QED
    BY <2>1, <2>2, <2>4, <2>5
<1> HIDE DEF A
<1>4. \A q \in Nat : q \in A
  BY <1>2, <1>3, Induction
<1>5. ASSUME NEW q \in 1..m PROVE owner[q] \in Nat \ {0} /\ \A p \in 1..q : Fine(p, q)
  <2>1. q \in A
    BY <1>4
  <2> QED
    BY <2>1 DEF A
<1>6. ASSUME NEW p \in 1..m, NEW q \in 1..m, p <= q PROVE Fine(p, q)
  <2>1. p \in 1..q
    BY <1>6
  <2> QED
    BY <1>5, <2>1
<1> QED
  BY <1>5, <1>6

\* Cluster c is x: the events from place a on, of the first k.
Covers(x, a, c, owner, line, k) ==
  /\ x \in Seq(Nat) /\ Len(x) # 0 /\ a \in 1..k /\ a + Len(x) - 1 <= k
  /\ \A p \in 1..k : owner[p] = c <=> a <= p /\ p <= a + Len(x) - 1
  /\ \A j \in 1..Len(x) : x[j] = line[a + j - 1]

\* The first k events are in the clusters.
Gathered(clusters, owner, line, k) ==
  /\ clusters \in Seq(Seq(Nat)) /\ Len(clusters) = owner[k]
  /\ \A c \in 1..Len(clusters) : \E a : Covers(clusters[c], a, c, owner, line, k)

LEMMA NoneGathered ==
  ASSUME NEW owner, owner[0] = 0, NEW line
  PROVE  Gathered(<<>>, owner, line, 0)
<1>1. <<>> \in Seq(Seq(Nat)) /\ Len(<<>>) = 0 /\ 1..0 = {}
  OBVIOUS
<1> QED
  BY <1>1 DEF Gathered

LEMMA MoreGathered ==
  ASSUME NEW E, Heard(E), NEW es \in SUBSET (1..Len(E)), NEW m, NEW line, Lined(line, m, es, E),
         NEW w \in Nat, NEW owner, Numbers(owner, line, m, E, w),
         NEW k \in Nat, k + 1 <= m, NEW clusters, Gathered(clusters, owner, line, k)
  PROVE  Gathered(Clusters!Grown(E, clusters, line[k + 1], w), owner, line, k + 1)
<1>1. PICK n \in 1..m : n = k + 1 /\ n - 1 = k /\ n \in Nat
  BY DEF Lined
<1>2. PICK e \in es : e = line[n] /\ e \in Nat
  <2>1. line[n] \in es
    BY DEF Lined
  <2>2. \A e \in es : e \in Nat
    BY DEF Heard
  <2> QED
    BY <2>1, <2>2
<1>3. PICK M \in Nat : M = Len(clusters) /\ M = owner[k] /\ clusters \in Seq(Seq(Nat))
  BY DEF Gathered
<1>4. \A p \in 1..k : owner[p] \in 1..M
  <2> SUFFICES ASSUME NEW p \in 1..k PROVE owner[p] \in 1..M
    OBVIOUS
  <2>1. p \in 1..m /\ k \in 1..m /\ p <= k /\ m \in Nat
    BY <1>1 DEF Lined
  <2>2. owner[p] \in Nat \ {0} /\ owner[p] <= owner[k]
    BY <2>1, NumbersGrow
  <2> QED
    BY <1>3, <2>2
<1>5. owner[n] = IF n > 1 /\ Follows(E, line[n - 1], line[n], w) THEN M ELSE M + 1
  BY <1>1, <1>3, Zenon DEF Numbers
<1>6. M = 0 <=> k = 0
  <2>1. k # 0 => k \in 1..k
    OBVIOUS
  <2>2. k # 0 => M # 0
    BY <1>4, <2>1
  <2>3. k = 0 => M = 0
    BY <1>3 DEF Numbers
  <2> QED
    BY <2>2, <2>3
<1>7. PICK new : new = Clusters!Grown(E, clusters, line[k + 1], w)
  OBVIOUS
<1>8. CASE k # 0 /\ Follows(E, line[k], line[n], w)
  <2>1. PICK x, a : x = clusters[M] /\ Covers(x, a, M, owner, line, k)
    <3>1. M \in 1..M
      BY <1>6, <1>8
    <3> QED
      BY <1>3, <3>1 DEF Gathered
  <2>2. PICK L \in Nat : /\ L = Len(x) /\ L # 0 /\ x \in Seq(Nat) /\ a \in 1..k /\ a + L - 1 = k
    <3>1. k \in 1..k /\ owner[k] = M
      BY <1>3, <1>8
    <3>2. k <= a + Len(x) - 1 /\ a + Len(x) - 1 <= k
      BY <2>1, <3>1 DEF Covers
    <3> QED
      BY <2>1, <3>2 DEF Covers
  <2>3. new = [clusters EXCEPT ![M] = Append(x, e)]
    <3>1. clusters # <<>>
      BY <1>3, <1>6, <1>8
    <3>2. Clusters!Last(clusters) = x /\ Clusters!Last(x) = line[k]
      <4>0. L \in 1..Len(x)
        BY <2>2
      <4>1. x[L] = line[k]
        BY <2>1, <2>2, <4>0 DEF Covers
      <4> QED
        BY <1>3, <2>1, <2>2, <4>1 DEF Clusters!Last
    <3>3. Clusters!Extends(E, x, e, w)
      BY <1>2, <1>8, <3>2 DEF Clusters!Extends, Follows
    <3> QED
      BY <1>1, <1>2, <1>3, <1>7, <2>1, <3>1, <3>2, <3>3 DEF Clusters!Grown
  <2>4. /\ Append(x, e) \in Seq(Nat) /\ Len(Append(x, e)) = L + 1
        /\ \A j \in 1..L : Append(x, e)[j] = x[j]
        /\ Append(x, e)[L + 1] = e
    BY <1>2, <2>2, AppendsLast
  <2>5. /\ new \in Seq(Seq(Nat)) /\ Len(new) = M /\ M \in 1..M /\ new[M] = Append(x, e)
        /\ \A c \in 1..M : c # M => new[c] = clusters[c]
    <3>1. M \in 1..M
      BY <1>6, <1>8
    <3>2. PICK S : S = Seq(Nat)
      OBVIOUS
    <3>3. PICK y : y = Append(x, e) /\ y \in S
      BY <2>4, <3>2
    <3>4. clusters \in Seq(S) /\ M \in 1..Len(clusters) /\ new = [clusters EXCEPT ![M] = y]
      BY <1>3, <2>3, <3>1, <3>2, <3>3
    <3>5. /\ new \in Seq(S) /\ Len(new) = Len(clusters) /\ new[M] = y
          /\ \A j \in 1..Len(clusters) : j # M => new[j] = clusters[j]
      BY <3>3, <3>4, OneChanged
    <3> QED
      BY <1>3, <3>1, <3>2, <3>3, <3>5
  <2>6. owner[n] = M
    BY <1>1, <1>5, <1>8
  <2>7. Covers(new[M], a, M, owner, line, n)
    <3>1. \A p \in 1..n : owner[p] = M <=> a <= p /\ p <= a + (L + 1) - 1
      <4> SUFFICES ASSUME NEW p \in 1..n PROVE owner[p] = M <=> a <= p /\ p <= a + (L + 1) - 1
        OBVIOUS
      <4>1. CASE p = n
        BY <1>1, <2>2, <2>6, <4>1
      <4>2. CASE p # n
        <5>1. p \in 1..k
          BY <1>1, <4>2
        <5>2. owner[p] = M <=> a <= p /\ p <= a + L - 1
          BY <2>1, <2>2, <5>1 DEF Covers
        <5> QED
          BY <2>2, <5>1, <5>2
      <4> QED
        BY <4>1, <4>2
    <3>2. \A j \in 1..(L + 1) : Append(x, e)[j] = line[a + j - 1]
      <4> SUFFICES ASSUME NEW j \in 1..(L + 1) PROVE Append(x, e)[j] = line[a + j - 1]
        OBVIOUS
      <4>1. CASE j = L + 1
        <5>1. a + j - 1 = n
          BY <1>1, <2>2, <4>1
        <5> QED
          BY <1>2, <2>4, <4>1, <5>1
      <4>2. CASE j # L + 1
        <5>1. j \in 1..L
          BY <4>2
        <5>2. x[j] = line[a + j - 1]
          BY <2>1, <2>2, <5>1 DEF Covers
        <5> QED
          BY <2>4, <5>1, <5>2
      <4> QED
        BY <4>1, <4>2
    <3>3. a \in 1..n /\ a + (L + 1) - 1 <= n
      BY <1>1, <2>2
    <3>4. PICK z : z = Append(x, e) /\ z \in Seq(Nat) /\ Len(z) = L + 1
      BY <2>4
    <3>5. Covers(z, a, M, owner, line, n)
      BY <2>2, <3>1, <3>2, <3>3, <3>4 DEF Covers
    <3> QED
      BY <2>5, <3>4, <3>5
  <2>8. ASSUME NEW c \in 1..M, c # M PROVE \E b : Covers(new[c], b, c, owner, line, n)
    <3>1. PICK b, y : y = clusters[c] /\ Covers(y, b, c, owner, line, k)
      BY <1>3 DEF Gathered
    <3>2. b \in 1..n /\ b + Len(y) - 1 <= k /\ b + Len(y) - 1 < n /\ Len(y) \in Nat
      BY <1>1, <3>1 DEF Covers
    <3>3. \A p \in 1..n : owner[p] = c <=> b <= p /\ p <= b + Len(y) - 1
      <4> SUFFICES ASSUME NEW p \in 1..n PROVE owner[p] = c <=> b <= p /\ p <= b + Len(y) - 1
        OBVIOUS
      <4>1. CASE p = n
        BY <2>6, <2>8, <3>2, <4>1
      <4>2. CASE p # n
        <5>1. p \in 1..k
          BY <1>1, <4>2
        <5> QED
          BY <3>1, <5>1 DEF Covers
      <4> QED
        BY <4>1, <4>2
    <3>4. new[c] = y
      BY <2>5, <2>8, <3>1
    <3>5. Covers(y, b, c, owner, line, n)
      BY <3>1, <3>2, <3>3 DEF Covers
    <3> QED
      BY <3>4, <3>5
  <2>9. \A c \in 1..M : \E b : Covers(new[c], b, c, owner, line, n)
    BY <2>7, <2>8
  <2> QED
    BY <1>1, <1>7, <2>5, <2>6, <2>9 DEF Gathered
<1>9. CASE ~(k # 0 /\ Follows(E, line[k], line[n], w))
  <2>1. new = Append(clusters, <<e>>)
    <3>1. CASE k = 0
      <4>1. clusters = <<>>
        BY <1>3, <1>6, <3>1, NoElements
      <4> QED
        BY <1>1, <1>2, <1>7, <4>1 DEF Clusters!Grown
    <3>2. CASE k # 0
      <4>1. PICK x, a : x = clusters[M] /\ Covers(x, a, M, owner, line, k)
        <5>1. M \in 1..M
          BY <1>6, <3>2
        <5> QED
          BY <1>3, <5>1 DEF Gathered
      <4>2. k \in 1..k /\ owner[k] = M
        BY <1>3, <3>2
      <4>3. Len(x) \in Nat /\ a \in Nat /\ a + Len(x) - 1 = k /\ Len(x) # 0
        BY <4>1, <4>2 DEF Covers
      <4>4. x[Len(x)] = line[k]
        <5>1. Len(x) \in 1..Len(x)
          BY <4>3
        <5> QED
          BY <4>1, <4>3, <5>1 DEF Covers
      <4>5. Clusters!Last(clusters) = x /\ Clusters!Last(x) = line[k]
        BY <1>3, <4>1, <4>4 DEF Clusters!Last
      <4>6. ~Clusters!Extends(E, x, e, w)
        BY <1>2, <1>9, <3>2, <4>5 DEF Clusters!Extends, Follows
      <4> QED
        BY <1>1, <1>2, <1>7, <4>5, <4>6 DEF Clusters!Grown
    <3> QED
      BY <3>1, <3>2
  <2>2. PICK x : x = <<e>> /\ x \in Seq(Nat) /\ Len(x) = 1 /\ x[1] = e
    <3>1. <<e>> \in Seq(Nat) /\ Len(<<e>>) = 1 /\ <<e>>[1] = e
      BY <1>2
    <3> QED
      BY <3>1
  <2>3. /\ new \in Seq(Seq(Nat)) /\ Len(new) = M + 1 /\ new[M + 1] = x
        /\ \A c \in 1..M : new[c] = clusters[c]
    <3>1. PICK S : S = Seq(Nat)
      OBVIOUS
    <3>2. clusters \in Seq(S) /\ x \in S /\ new = Append(clusters, x)
      BY <1>3, <2>1, <2>2, <3>1
    <3>3. /\ new \in Seq(S) /\ Len(new) = Len(clusters) + 1 /\ new[Len(clusters) + 1] = x
          /\ \A j \in 1..Len(clusters) : new[j] = clusters[j]
      BY <3>2, OneMore
    <3> QED
      BY <1>3, <3>1, <3>3
  <2>4. owner[n] = M + 1
    <3>1. n > 1 <=> k # 0
      BY <1>1
    <3> QED
      BY <1>1, <1>5, <1>9, <3>1
  <2>5. Covers(new[M + 1], n, M + 1, owner, line, n)
    <3>1. \A p \in 1..n : owner[p] = M + 1 <=> n <= p /\ p <= n + 1 - 1
      <4> SUFFICES ASSUME NEW p \in 1..n PROVE owner[p] = M + 1 <=> n <= p /\ p <= n + 1 - 1
        OBVIOUS
      <4>1. CASE p = n
        BY <2>4, <4>1
      <4>2. CASE p # n
        <5>1. p \in 1..k /\ ~(n <= p)
          BY <1>1, <4>2
        <5>2. owner[p] \in 1..M
          BY <1>4, <5>1
        <5> QED
          BY <5>1, <5>2
      <4> QED
        BY <4>1, <4>2
    <3>2. \A j \in 1..1 : x[j] = line[n + j - 1]
      <4>1. n + 1 - 1 = n
        OBVIOUS
      <4> QED
        BY <1>2, <2>2, <4>1
    <3> QED
      BY <2>2, <2>3, <3>1, <3>2 DEF Covers
  <2>6. ASSUME NEW c \in 1..M PROVE \E b : Covers(new[c], b, c, owner, line, n)
    <3>1. PICK b, y : y = clusters[c] /\ Covers(y, b, c, owner, line, k)
      BY <1>3 DEF Gathered
    <3>2. b \in 1..n /\ b + Len(y) - 1 <= k /\ b + Len(y) - 1 < n /\ Len(y) \in Nat
      BY <1>1, <3>1 DEF Covers
    <3>3. \A p \in 1..n : owner[p] = c <=> b <= p /\ p <= b + Len(y) - 1
      <4> SUFFICES ASSUME NEW p \in 1..n PROVE owner[p] = c <=> b <= p /\ p <= b + Len(y) - 1
        OBVIOUS
      <4>1. CASE p = n
        BY <2>4, <3>2, <4>1
      <4>2. CASE p # n
        <5>1. p \in 1..k
          BY <1>1, <4>2
        <5> QED
          BY <3>1, <5>1 DEF Covers
      <4> QED
        BY <4>1, <4>2
    <3>4. new[c] = y
      BY <2>3, <3>1
    <3>5. Covers(y, b, c, owner, line, n)
      BY <3>1, <3>2, <3>3 DEF Covers
    <3> QED
      BY <3>4, <3>5
  <2>7. \A c \in 1..(M + 1) : \E b : Covers(new[c], b, c, owner, line, n)
    <3> SUFFICES ASSUME NEW c \in 1..(M + 1) PROVE \E b : Covers(new[c], b, c, owner, line, n)
      OBVIOUS
    <3>1. c = M + 1 \/ c \in 1..M
      OBVIOUS
    <3> QED
      BY <2>5, <2>6, <3>1
  <2> QED
    BY <1>1, <1>7, <2>3, <2>4, <2>7 DEF Gathered
<1> QED
  BY <1>8, <1>9

\* f are the states of the loop.
ClusterStates(f, E, es, line, w) ==
  /\ f[0] = <<>>
  /\ \A k \in 1..Cardinality(es) : f[k] = Clusters!Grown(E, f[k - 1], line[k], w)
  /\ Clusters!Cluster(E, es, w) = f[Cardinality(es)]

LEMMA GrownType ==
  ASSUME NEW E, NEW w, NEW e \in Nat, NEW clusters \in Seq(Seq(Nat))
  PROVE  Clusters!Grown(E, clusters, e, w) \in Seq(Seq(Nat))
<1>1. PICK S : S = Seq(Nat)
  OBVIOUS
<1>2. clusters \in Seq(S) /\ <<e>> \in S
  BY <1>1
<1>3. CASE clusters # <<>> /\ Clusters!Extends(E, Clusters!Last(clusters), e, w)
  <2>1. PICK n \in 1..Len(clusters) : n = Len(clusters)
    BY <1>2, <1>3, NoElements
  <2>2. clusters[n] \in S
    BY <1>2
  <2>3. PICK x : x = Append(clusters[n], e) /\ x \in S
    <3>1. PICK y \in Seq(Nat) : y = clusters[n]
      BY <1>1, <2>2
    <3>2. Append(y, e) \in Seq(Nat)
      BY <3>1, AppendsLast
    <3> QED
      BY <1>1, <3>1, <3>2
  <2>4. PICK t : t = Clusters!Grown(E, clusters, e, w)
    OBVIOUS
  <2>5. t = [clusters EXCEPT ![n] = x]
    BY <1>3, <2>1, <2>3, <2>4 DEF Clusters!Grown
  <2>6. t \in Seq(S)
    BY <1>2, <2>3, <2>5, OneChanged
  <2> QED
    BY <1>1, <2>4, <2>6
<1>4. CASE ~(clusters # <<>> /\ Clusters!Extends(E, Clusters!Last(clusters), e, w))
  <2>1. PICK x \in S : x = <<e>>
    BY <1>2
  <2>2. Append(clusters, x) \in Seq(S)
    BY <1>2, OneMore
  <2> QED
    BY <1>1, <1>4, <2>1, <2>2 DEF Clusters!Grown
<1> QED
  BY <1>3, <1>4

LEMMA ClusterFolds ==
  ASSUME NEW E, Heard(E), NEW es \in SUBSET (1..Len(E)), NEW w \in Nat,
         NEW line, line = Clusters!InTurn(E, es), Lined(line, Cardinality(es), es, E)
  PROVE  \E f : ClusterStates(f, E, es, line, w)
<1>1. PICK n \in Nat : n = Cardinality(es)
  BY DEF Lined
<1> DEFINE S == Seq(Seq(Nat))
           step == [k \in 1..n |-> [st \in S |-> Clusters!Grown(E, st, line[k], w)]]
<1>2. ASSUME NEW k \in 1..n, NEW st \in S PROVE Clusters!Grown(E, st, line[k], w) \in S
  <2>1. line[k] \in es
    BY <1>1 DEF Lined
  <2>2. line[k] \in Nat
    BY <2>1 DEF Heard
  <2> QED
    BY <2>2, GrownType
<1>3. PICK base \in S : base = <<>>
  <2>1. <<>> \in S
    OBVIOUS
  <2> QED
    BY <2>1
<1>4. step \in [1..n -> [S -> S]]
  BY <1>2
<1>5. \A k \in 1..n : \A st \in S : step[k][st] = Clusters!Grown(E, st, line[k], w)
  OBVIOUS
<1> HIDE DEF S, step
<1>6. PICK g \in [SUBSET (1..n) -> S] : FoldsUp(g, n, base, step)
  BY <1>3, <1>4, FoldExists
<1> DEFINE Value(h, A) == IF A = {} THEN base
                          ELSE Clusters!Grown(E, h[A \ {Clusters!Max(A)}],
                                              line[Clusters!Max(A)], w)
           Works(h) == h = [A \in SUBSET (1..n) |-> Value(h, A)]
<1>7. \A A : Greatest(A) = Clusters!Max(A)
  BY Zenon DEF Greatest, Clusters!Max
<1>8. DOMAIN line = 1..n
  BY <1>1 DEF Lined
<1>9. Works(g)
  <2>1. ASSUME NEW A \in SUBSET (1..n) PROVE g[A] = Value(g, A)
    <3>1. CASE A = {}
      BY <1>6, <3>1 DEF FoldsUp
    <3>2. CASE A # {}
      <4>1. PICK x \in 1..n : x = Greatest(A) /\ x = Clusters!Max(A) /\ A \ {x} \in SUBSET (1..n)
        BY <1>7, <3>2, GreatestIn
      <4>2. g[A] = step[x][g[A \ {x}]] /\ g[A \ {x}] \in S
        BY <1>6, <3>2, <4>1 DEF FoldsUp
      <4> QED
        BY <1>5, <3>2, <4>1, <4>2
    <3> QED
      BY <3>1, <3>2
  <2>2. g = [A \in SUBSET (1..n) |-> g[A]]
    BY <1>6
  <2> QED
    BY <2>1, <2>2
<1>10. Clusters!Cluster(E, es, w) = (CHOOSE h : Works(h))[1..n]
  BY <1>3, <1>8, Zenon DEF Clusters!Cluster, Clusters!FoldLeft, Clusters!MapThenFoldSet
<1>11. PICK h : Works(h) /\ h = (CHOOSE x : Works(x))
  BY <1>9, Zenon
<1>12. h[1..0] = base
  <2>1. 1..0 = {} /\ {} \in SUBSET (1..n)
    OBVIOUS
  <2> QED
    BY <1>11, <2>1
<1>13. ASSUME NEW k \in 1..n PROVE h[1..k] = Clusters!Grown(E, h[1..(k - 1)], line[k], w)
  <2>1. /\ Clusters!Max(1..k) = k /\ (1..k) \ {k} = 1..(k - 1)
        /\ 1..k \in SUBSET (1..n) /\ 1..k # {}
    BY <1>7, FoldTakes
  <2>2. h[1..k] = Value(h, 1..k)
    BY <1>11, <2>1
  <2> QED
    BY <2>1, <2>2
<1> HIDE DEF Works
<1>14. PICK f : f = [k \in 0..n |-> h[1..k]]
  OBVIOUS
<1>15. f[0] = base /\ f[n] = h[1..n]
  BY <1>12, <1>14
<1>16. \A k \in 1..n : f[k] = Clusters!Grown(E, f[k - 1], line[k], w)
  <2> SUFFICES ASSUME NEW k \in 1..n PROVE f[k] = Clusters!Grown(E, f[k - 1], line[k], w)
    OBVIOUS
  <2>1. f[k] = h[1..k] /\ f[k - 1] = h[1..(k - 1)]
    BY <1>14
  <2> QED
    BY <1>13, <2>1
<1> QED
  BY <1>1, <1>3, <1>10, <1>11, <1>15, <1>16 DEF ClusterStates

LEMMA AllGathered ==
  ASSUME NEW E, Heard(E), NEW es \in SUBSET (1..Len(E)), NEW w \in Nat,
         NEW m, m = Cardinality(es), NEW line, line = Clusters!InTurn(E, es), Lined(line, m, es, E),
         NEW owner, Numbers(owner, line, m, E, w)
  PROVE  Gathered(Clusters!Cluster(E, es, w), owner, line, m)
<1>1. PICK f : ClusterStates(f, E, es, line, w)
  BY ClusterFolds
<1>2. /\ f[0] = <<>> /\ Clusters!Cluster(E, es, w) = f[m] /\ m \in Nat
      /\ \A k \in 1..m : f[k] = Clusters!Grown(E, f[k - 1], line[k], w)
  BY <1>1 DEF ClusterStates, Lined
<1> DEFINE A == {k \in Nat : k <= m => Gathered(f[k], owner, line, k)}
<1>3. 0 \in A
  <2>1. owner[0] = 0
    BY DEF Numbers
  <2> QED
    BY <1>2, <2>1, NoneGathered
<1>4. ASSUME NEW k \in Nat, k \in A PROVE k + 1 \in A
  <2> SUFFICES ASSUME k + 1 <= m PROVE Gathered(f[k + 1], owner, line, k + 1)
    OBVIOUS
  <2>1. Gathered(f[k], owner, line, k)
    BY <1>2, <1>4
  <2>2. PICK i \in 1..m : i = k + 1 /\ i - 1 = k
    BY <1>2
  <2>3. f[k + 1] = Clusters!Grown(E, f[k], line[k + 1], w)
    BY <1>2, <2>2
  <2>4. PICK cl : cl = f[k] /\ Gathered(cl, owner, line, k)
    BY <2>1
  <2>5. Gathered(Clusters!Grown(E, cl, line[k + 1], w), owner, line, k + 1)
    BY <2>4, MoreGathered
  <2> QED
    BY <2>3, <2>4, <2>5
<1> HIDE DEF A
<1>5. m \in A
  BY <1>2, <1>3, <1>4, Induction
<1> QED
  BY <1>2, <1>5 DEF A

LEMMA ClusterSum ==
  ASSUME NEW S, IsFiniteSet(S), NEW h \in [S -> Nat]
  PROVE  \E g : SumsUp(g, h, S) /\ Clusters!SumFunction(h) = g[S]
<1> DEFINE g == CHOOSE g : SumsUp(g, h, S)
<1>1. SumsUp(g, h, S)
  BY SumExists, Zenon
<1>2. DOMAIN h = S
  OBVIOUS
<1>3. Clusters!SumFunction(h) = g[S]
  BY <1>2, Zenon DEF Clusters!SumFunction, Clusters!SumFunctionOnSet, Clusters!FoldFunctionOnSet,
       Clusters!MapThenFoldSet, SumsUp
<1> HIDE DEF g
<1> QED
  BY <1>1, <1>3

LEMMA ClusterBounds ==
  ASSUME NEW a \in Nat, NEW b \in Nat, a <= b
  PROVE  /\ Clusters!Min({a, b}) = a /\ Clusters!Max({a, b}) = b
<1>1. Clusters!Min({a, b}) = CHOOSE x \in {a, b} : \A y \in {a, b} : x <= y
  BY Zenon DEF Clusters!Min
<1>2. Clusters!Max({a, b}) = CHOOSE x \in {a, b} : \A y \in {a, b} : x >= y
  BY Zenon DEF Clusters!Max
<1>3. PICK X : X = {a, b}
  OBVIOUS
<1>4. a \in X /\ b \in X /\ (\A y \in X : a <= y) /\ \A y \in X : b >= y
  BY <1>3
<1>5. \A x \in X : ((\A y \in X : x <= y) => x = a) /\ ((\A y \in X : x >= y) => x = b)
  BY <1>3
<1>6. (CHOOSE x \in X : \A y \in X : x <= y) = a
  BY <1>4, <1>5, Zenon
<1>7. (CHOOSE x \in X : \A y \in X : x >= y) = b
  BY <1>4, <1>5, Zenon
<1> QED
  BY <1>1, <1>2, <1>3, <1>6, <1>7

LEMMA LinkedInLine ==
  ASSUME NEW E, Heard(E), NEW es \in SUBSET (1..Len(E)), NEW m, NEW line, Lined(line, m, es, E),
         NEW w \in Nat, NEW p \in 1..m, NEW q \in 1..m, p <= q
  PROVE  Clusters!Linked(E, es, line[p], line[q], w) <=>
           \A r \in (p + 1)..q : Follows(E, line[r - 1], line[r], w)
<1>1. /\ m \in Nat /\ \A k \in 1..m : line[k] \in es
      /\ \A e \in es : \E k \in 1..m : line[k] = e
  BY DEF Lined
<1>2. \A e \in es : E[e].station \in Nat /\ E[e].at \in Nat
  BY DEF Heard
<1>3. PICK st, at : /\ st = [k \in 1..m |-> E[line[k]].station]
                    /\ at = [k \in 1..m |-> E[line[k]].at]
  OBVIOUS
<1>4. \A k \in 1..m : /\ st[k] = E[line[k]].station /\ at[k] = E[line[k]].at
                      /\ st[k] \in Nat /\ at[k] \in Nat
  BY <1>1, <1>2, <1>3
<1>5. InStep(st, at, m)
  <2>1. ASSUME NEW k \in 1..m, NEW l \in 1..m, k < l
        PROVE  st[k] < st[l] \/ (st[k] = st[l] /\ at[k] <= at[l])
    <3>1. Clusters!Before(E, line[k], line[l])
      BY <2>1 DEF Lined
    <3> QED
      BY <1>4, <3>1 DEF Clusters!Before
  <2>2. st \in [1..m -> Nat] /\ at \in [1..m -> Nat]
    BY <1>3, <1>4
  <2> QED
    BY <2>1, <2>2 DEF InStep
<1>6. (\A r \in (p + 1)..q : Follows(E, line[r - 1], line[r], w)) <=>
        \A r \in (p + 1)..q : st[r - 1] = st[r] /\ at[r] - at[r - 1] <= w
  <2>1. ASSUME NEW r \in (p + 1)..q
        PROVE  Follows(E, line[r - 1], line[r], w) <=> st[r - 1] = st[r] /\ at[r] - at[r - 1] <= w
    <3>1. r \in 1..m /\ r - 1 \in 1..m
      BY <1>1
    <3> QED
      BY <1>4, <3>1 DEF Follows
  <2> QED
    BY <2>1
<1>7. CASE st[p] = st[q]
  <2>1. at[p] <= at[q]
    <3>1. p = q \/ p < q
      OBVIOUS
    <3> QED
      BY <1>4, <1>5, <1>7, <3>1 DEF InStep
  <2> DEFINE times == {E[e].at : e \in {e \in es : E[e].station = E[line[p]].station}}
  <2>2. \A t : t \in times <=> \E x \in 1..m : st[x] = st[p] /\ t = at[x]
    <3>1. ASSUME NEW t \in times PROVE \E x \in 1..m : st[x] = st[p] /\ t = at[x]
      <4>1. PICK e \in es : E[e].station = E[line[p]].station /\ t = E[e].at
        OBVIOUS
      <4>2. PICK x \in 1..m : line[x] = e
        BY <1>1
      <4> HIDE DEF times
      <4> QED
        BY <1>4, <4>1, <4>2
    <3>2. ASSUME NEW x \in 1..m, st[x] = st[p] PROVE at[x] \in times
      <4>1. line[x] \in es /\ E[line[x]].station = E[line[p]].station /\ at[x] = E[line[x]].at
        BY <1>1, <1>4, <3>2
      <4> QED
        BY <4>1
    <3> HIDE DEF times
    <3> QED
      BY <3>1, <3>2
  <2>3. /\ Clusters!Min({E[line[p]].at, E[line[q]].at}) = at[p]
        /\ Clusters!Max({E[line[p]].at, E[line[q]].at}) = at[q]
    <3>1. PICK b \in Nat, d \in Nat : b = at[p] /\ d = at[q] /\ b <= d
      BY <1>4, <2>1
    <3>2. E[line[p]].at = b /\ E[line[q]].at = d
      BY <1>4, <3>1
    <3>3. Clusters!Min({b, d}) = b /\ Clusters!Max({b, d}) = d
      BY <3>1, ClusterBounds
    <3> QED
      BY <3>1, <3>2, <3>3
  <2>4. Clusters!Linked(E, es, line[p], line[q], w) <=>
          /\ E[line[p]].station = E[line[q]].station
          /\ \A t \in times :
               (/\ Clusters!Min({E[line[p]].at, E[line[q]].at}) <= t
                /\ t < Clusters!Max({E[line[p]].at, E[line[q]].at}))
               => \E u \in times : t < u /\ u - t <= w
    BY Zenon DEF Clusters!Linked
  <2> HIDE DEF times
  <2>5. Clusters!Linked(E, es, line[p], line[q], w) <=>
          \A t \in times : (at[p] <= t /\ t < at[q]) => \E u \in times : t < u /\ u - t <= w
    BY <1>4, <1>7, <2>3, <2>4
  <2>6. (\A t \in times : (at[p] <= t /\ t < at[q]) => \E u \in times : t < u /\ u - t <= w) <=>
        (\A x \in 1..m : (st[x] = st[p] /\ at[p] <= at[x] /\ at[x] < at[q]) =>
            \E y \in 1..m : st[y] = st[p] /\ at[x] < at[y] /\ at[y] - at[x] <= w)
    <3>1. ASSUME \A t \in times : (at[p] <= t /\ t < at[q]) => \E u \in times : t < u /\ u - t <= w,
                 NEW x \in 1..m, st[x] = st[p], at[p] <= at[x], at[x] < at[q]
          PROVE  \E y \in 1..m : st[y] = st[p] /\ at[x] < at[y] /\ at[y] - at[x] <= w
      <4>1. at[x] \in times
        BY <2>2, <3>1
      <4>2. PICK u \in times : at[x] < u /\ u - at[x] <= w
        BY <3>1, <4>1
      <4>3. PICK y \in 1..m : st[y] = st[p] /\ u = at[y]
        BY <2>2
      <4> QED
        BY <4>2, <4>3
    <3>2. ASSUME \A x \in 1..m : (st[x] = st[p] /\ at[p] <= at[x] /\ at[x] < at[q]) =>
                   \E y \in 1..m : st[y] = st[p] /\ at[x] < at[y] /\ at[y] - at[x] <= w,
                 NEW t \in times, at[p] <= t, t < at[q]
          PROVE  \E u \in times : t < u /\ u - t <= w
      <4>1. PICK x \in 1..m : st[x] = st[p] /\ t = at[x]
        BY <2>2
      <4>2. PICK y \in 1..m : st[y] = st[p] /\ at[x] < at[y] /\ at[y] - at[x] <= w
        BY <3>2, <4>1
      <4>3. at[y] \in times
        BY <2>2, <4>2
      <4> QED
        BY <4>1, <4>2, <4>3
    <3> QED
      BY <3>1, <3>2
  <2>7. (\A r \in (p + 1)..q : st[r - 1] = st[r] /\ at[r] - at[r - 1] <= w) <=>
        (\A x \in 1..m : (st[x] = st[p] /\ at[p] <= at[x] /\ at[x] < at[q]) =>
            \E y \in 1..m : st[y] = st[p] /\ at[x] < at[y] /\ at[y] - at[x] <= w)
    BY <1>1, <1>5, <1>7, NoSilence
  <2> QED
    BY <1>6, <2>5, <2>6, <2>7
<1>8. CASE st[p] # st[q]
  <2>1. ~Clusters!Linked(E, es, line[p], line[q], w)
    <3>1. E[line[p]].station # E[line[q]].station
      BY <1>4, <1>8
    <3> QED
      BY <3>1, Zenon DEF Clusters!Linked
  <2>2. ASSUME \A r \in (p + 1)..q : st[r - 1] = st[r] /\ at[r] - at[r - 1] <= w PROVE FALSE
    <3> DEFINE D == {r \in Nat : r \in p..q /\ st[r] # st[p]}
    <3>1. q \in D /\ D \in SUBSET Nat /\ D # {}
      BY <1>8
    <3>2. PICK y \in D : \A r \in D : y <= r
      BY <3>1, LeastNatural
    <3>3. y \in p..q /\ st[y] # st[p] /\ y # p
      BY <3>2
    <3>4. y \in (p + 1)..q /\ y - 1 \in p..q /\ y - 1 \in Nat
      BY <3>3
    <3>5. st[y - 1] = st[p]
      BY <3>2, <3>4
    <3> QED
      BY <2>2, <3>3, <3>4, <3>5
  <2> QED
    BY <1>6, <2>1, <2>2
<1> QED
  BY <1>7, <1>8

LEMMA LinkedBoth ==
  ASSUME NEW E, NEW es, NEW i, NEW k, NEW w, Clusters!Linked(E, es, i, k, w)
  PROVE  Clusters!Linked(E, es, k, i, w)
<1> DEFINE times(s) == {E[e].at : e \in {e \in es : E[e].station = s}}
           short(a, b, s) == \A t \in times(s) :
                               (Clusters!Min({a, b}) <= t /\ t < Clusters!Max({a, b}))
                               => \E u \in times(s) : t < u /\ u - t <= w
<1>1. \A j, l : Clusters!Linked(E, es, j, l, w) <=>
        E[j].station = E[l].station /\ short(E[j].at, E[l].at, E[j].station)
  BY Zenon DEF Clusters!Linked
<1>2. \A a, b, s : short(a, b, s) => short(b, a, s)
  <2>1. \A a, b : {a, b} = {b, a}
    OBVIOUS
  <2> HIDE DEF times
  <2> QED
    BY <2>1
<1> HIDE DEF short
<1>3. E[i].station = E[k].station /\ short(E[i].at, E[k].at, E[i].station)
  BY <1>1
<1> QED
  BY <1>1, <1>2, <1>3

\* What a cluster has in it: the events at the places of its number.
Holds(x, c, line, owner, m, es) ==
  /\ Clusters!Range(x) \in SUBSET es
  /\ \A e : e \in Clusters!Range(x) <=> \E p \in 1..m : line[p] = e /\ owner[p] = c
  /\ IsFiniteSet(Clusters!Range(x)) /\ Cardinality(Clusters!Range(x)) = Len(x)

LEMMA ClusterRange ==
  ASSUME NEW E, Heard(E), NEW es \in SUBSET (1..Len(E)), NEW m, NEW line, Lined(line, m, es, E),
         NEW owner, NEW x, NEW a, NEW c, Covers(x, a, c, owner, line, m)
  PROVE  Holds(x, c, line, owner, m, es)
<1>1. PICK L \in Nat : /\ L = Len(x) /\ L # 0 /\ x \in Seq(Nat)
                       /\ a \in 1..m /\ a + L - 1 <= m /\ m \in Nat
  BY DEF Covers, Lined
<1>2. /\ \A p \in 1..m : owner[p] = c <=> a <= p /\ p <= a + L - 1
      /\ \A j \in 1..L : x[j] = line[a + j - 1]
  BY <1>1 DEF Covers
<1>3. DOMAIN x = 1..L
  BY <1>1
<1>4. Clusters!Range(x) = {x[j] : j \in 1..L}
  BY <1>3 DEF Clusters!Range
<1>5. ASSUME NEW j \in 1..L
      PROVE  a + j - 1 \in 1..m /\ x[j] \in es /\ owner[a + j - 1] = c /\ x[j] = line[a + j - 1]
  <2>1. PICK p \in 1..m : p = a + j - 1 /\ a <= p /\ p <= a + L - 1
    BY <1>1
  <2>2. x[j] = line[p] /\ owner[p] = c /\ line[p] \in es
    BY <1>2, <2>1 DEF Lined
  <2> QED
    BY <2>1, <2>2
<1>6. ASSUME NEW p \in 1..m, owner[p] = c PROVE \E j \in 1..L : x[j] = line[p]
  <2>1. PICK j \in 1..L : p = a + j - 1
    <3>1. a <= p /\ p <= a + L - 1
      BY <1>2, <1>6
    <3>2. p - a + 1 \in 1..L /\ p = a + (p - a + 1) - 1
      BY <1>1, <3>1
    <3> QED
      BY <3>2
  <2> QED
    BY <1>2, <2>1
<1>7. \A e : e \in Clusters!Range(x) <=> \E p \in 1..m : line[p] = e /\ owner[p] = c
  <2>1. ASSUME NEW e, e \in Clusters!Range(x) PROVE \E p \in 1..m : line[p] = e /\ owner[p] = c
    <3>1. PICK j \in 1..L : e = x[j]
      BY <1>4, <2>1
    <3> QED
      BY <1>5, <3>1
  <2>2. ASSUME NEW p \in 1..m, owner[p] = c PROVE line[p] \in Clusters!Range(x)
    BY <1>4, <1>6, <2>2
  <2> QED
    BY <2>1, <2>2
<1>8. Clusters!Range(x) \in SUBSET es
  BY <1>4, <1>5
<1> DEFINE f == [j \in 1..L |-> x[j]]
           R == {x[j] : j \in 1..L}
<1>9. f \in Bijection(1..L, R)
  <2>1. ASSUME NEW j \in 1..L, NEW k \in 1..L, x[j] = x[k] PROVE j = k
    <3>1. PICK p \in 1..m, q \in 1..m : p = a + j - 1 /\ q = a + k - 1
      BY <1>5
    <3>2. line[p] = line[q]
      BY <1>5, <2>1, <3>1
    <3>3. p = q
      BY <3>2 DEF Lined
    <3> QED
      BY <1>1, <3>1, <3>3
  <2>2. f \in [1..L -> R] /\ \A r \in R : \E j \in 1..L : f[j] = r
    OBVIOUS
  <2>3. \A j, k \in 1..L : f[j] = f[k] => j = k
    BY <2>1
  <2> HIDE DEF f, R
  <2> QED
    BY <2>2, <2>3 DEF Bijection, Injection, Surjection, IsInjective
<1>10. IsFiniteSet(1..L) /\ Cardinality(1..L) = L
  <2>1. 1 \in Int /\ L \in Int /\ (1 > L <=> L = 0) /\ L - 1 + 1 = L
    BY <1>1
  <2>2. IsFiniteSet(1..L) /\ Cardinality(1..L) = IF 1 > L THEN 0 ELSE L - 1 + 1
    BY <2>1, FS_Interval
  <2> QED
    BY <2>1, <2>2
<1> HIDE DEF f
<1>11. ExistsBijection(1..L, R)
  BY <1>9, Zenon DEF ExistsBijection
<1>12. IsFiniteSet(R) /\ Cardinality(R) = L
  BY <1>10, <1>11, FS_Bijection
<1> QED
  BY <1>1, <1>4, <1>7, <1>8, <1>12 DEF Holds

\* The clusters cl are the chains of the events es, each as long as it says.
Grouped(cl, E, es, w) ==
  /\ cl \in Seq(Seq(Nat))
  /\ \A c \in 1..Len(cl) :
       /\ Len(cl[c]) # 0 /\ Clusters!Range(cl[c]) \in SUBSET es
       /\ Cardinality(Clusters!Range(cl[c])) = Len(cl[c])
       /\ 0 <= E[cl[c][Len(cl[c])]].at - E[cl[c][1]].at
       /\ E[cl[c][Len(cl[c])]].at - E[cl[c][1]].at <= (Len(cl[c]) - 1) * w
  /\ \A e \in es : \E c \in 1..Len(cl) : e \in Clusters!Range(cl[c])
  /\ \A c, d \in 1..Len(cl) : \A i \in Clusters!Range(cl[c]), k \in Clusters!Range(cl[d]) :
       c = d <=> Clusters!Linked(E, es, i, k, w)
  /\ \A c \in 2..Len(cl) : Clusters!Before(E, cl[c - 1][1], cl[c][1])

LEMMA ClusterSpan ==
  ASSUME NEW E, Heard(E), NEW es \in SUBSET (1..Len(E)), NEW m, NEW line, Lined(line, m, es, E),
         NEW w \in Nat, NEW owner, Numbers(owner, line, m, E, w),
         NEW x, NEW a, NEW c, Covers(x, a, c, owner, line, m)
  PROVE  /\ 0 <= E[x[Len(x)]].at - E[x[1]].at
         /\ E[x[Len(x)]].at - E[x[1]].at <= (Len(x) - 1) * w
<1>1. PICK L \in Nat : /\ L = Len(x) /\ L # 0 /\ a \in 1..m /\ a + L - 1 <= m /\ m \in Nat
  BY DEF Covers, Lined
<1>2. /\ \A p \in 1..m : owner[p] = c <=> a <= p /\ p <= a + L - 1
      /\ \A j \in 1..L : x[j] = line[a + j - 1]
  BY <1>1 DEF Covers
<1>3. ASSUME NEW j \in 1..L
      PROVE  /\ a + j - 1 \in 1..m /\ owner[a + j - 1] = c /\ x[j] = line[a + j - 1]
             /\ E[x[j]].at \in Nat /\ E[x[j]].station \in Nat
  <2>1. PICK p \in 1..m : p = a + j - 1 /\ a <= p /\ p <= a + L - 1
    BY <1>1
  <2>2. x[j] = line[p] /\ owner[p] = c /\ line[p] \in es
    BY <1>2, <2>1 DEF Lined
  <2>3. line[p] \in 1..Len(E)
    BY <2>2
  <2>4. E[line[p]].at \in Nat /\ E[line[p]].station \in Nat
    BY <2>3 DEF Heard
  <2> QED
    BY <2>1, <2>2, <2>4
<1>4. ASSUME NEW j \in 1..L, j > 1
      PROVE  E[x[j - 1]].at <= E[x[j]].at /\ E[x[j]].at - E[x[j - 1]].at <= w
  <2>1. PICK i \in 1..L : i = j - 1
    BY <1>4
  <2>2. PICK p \in 1..m, q \in 1..m : p = a + i - 1 /\ q = a + j - 1
    BY <1>3
  <2>3. q - 1 = p /\ p < q /\ p <= q /\ q \in (p + 1)..q
    BY <1>1, <2>1, <2>2
  <2>4. owner[p] = owner[q] /\ x[i] = line[p] /\ x[j] = line[q]
    BY <1>3, <2>2
  <2>5. \A r \in (p + 1)..q : Follows(E, line[r - 1], line[r], w)
    <3>1. m \in Nat /\ p <= q /\ owner[p] = owner[q]
      BY <1>1, <2>3, <2>4
    <3> QED
      BY <3>1, NumbersGrow
  <2>6. Follows(E, line[p], line[q], w)
    BY <2>3, <2>5
  <2>7. Clusters!Before(E, line[p], line[q])
    BY <2>3 DEF Lined
  <2>8. PICK u \in Nat, v \in Nat : u = E[x[i]].at /\ v = E[x[j]].at
    BY <1>3
  <2>9. E[x[i]].station = E[x[j]].station /\ v - u <= w
    BY <2>4, <2>6, <2>8 DEF Follows
  <2>10. E[x[i]].station < E[x[j]].station \/ u < v \/ u = v
    BY <2>4, <2>7, <2>8 DEF Clusters!Before
  <2>11. E[x[i]].station \in Nat
    BY <1>3
  <2>12. u <= v
    BY <2>8, <2>9, <2>10, <2>11
  <2> QED
    BY <2>1, <2>8, <2>9, <2>12
<1>5. PICK at : at = [j \in 1..L |-> E[x[j]].at]
  OBVIOUS
<1>6. at \in [1..L -> Nat] /\ \A j \in 1..L : at[j] = E[x[j]].at
  BY <1>3, <1>5
<1>7. ASSUME NEW j \in 1..L, j > 1 PROVE at[j - 1] <= at[j] /\ at[j] - at[j - 1] <= w
  <2>1. PICK i \in 1..L : i = j - 1
    BY <1>7
  <2> QED
    BY <1>4, <1>6, <1>7, <2>1
<1>8. 0 <= at[L] - at[1] /\ at[L] - at[1] <= (L - 1) * w
  BY <1>1, <1>6, <1>7, ShortSteps
<1>9. 1 \in 1..L /\ L \in 1..L
  BY <1>1
<1> QED
  BY <1>1, <1>6, <1>8, <1>9

LEMMA Grouping ==
  ASSUME NEW E, Heard(E), NEW es \in SUBSET (1..Len(E)), NEW w \in Nat
  PROVE  Grouped(Clusters!Cluster(E, es, w), E, es, w)
<1>1. PICK line, m : line = Clusters!InTurn(E, es) /\ m = Cardinality(es) /\ Lined(line, m, es, E)
  BY InTurnSorts
<1>2. m \in Nat /\ \A e \in es : \E k \in 1..m : line[k] = e
  BY <1>1 DEF Lined
<1>3. PICK owner : Numbers(owner, line, m, E, w)
  BY <1>2, NumbersExist
<1>4. PICK cl : cl = Clusters!Cluster(E, es, w) /\ Gathered(cl, owner, line, m)
  BY <1>1, <1>3, AllGathered
<1>5. PICK n \in Nat : n = Len(cl) /\ n = owner[m] /\ cl \in Seq(Seq(Nat))
  BY <1>4 DEF Gathered
<1>6. \A c \in 1..n : \E a : Covers(cl[c], a, c, owner, line, m)
  BY <1>4, <1>5 DEF Gathered
<1>7. ASSUME NEW p \in 1..m PROVE owner[p] \in 1..n
  <2>1. m \in 1..m /\ p <= m
    BY <1>2
  <2>2. owner[p] \in Nat \ {0} /\ owner[p] <= owner[m]
    BY <1>2, <1>3, <2>1, NumbersGrow
  <2> QED
    BY <1>5, <2>2
<1>8. ASSUME NEW c \in 1..n
      PROVE  /\ Len(cl[c]) # 0 /\ Clusters!Range(cl[c]) \in SUBSET es
             /\ Cardinality(Clusters!Range(cl[c])) = Len(cl[c])
             /\ 0 <= E[cl[c][Len(cl[c])]].at - E[cl[c][1]].at
             /\ E[cl[c][Len(cl[c])]].at - E[cl[c][1]].at <= (Len(cl[c]) - 1) * w
             /\ \A e : e \in Clusters!Range(cl[c]) <=> \E p \in 1..m : line[p] = e /\ owner[p] = c
  <2>1. PICK x, a : x = cl[c] /\ Covers(x, a, c, owner, line, m)
    BY <1>6
  <2>2. Len(x) # 0
    BY <2>1 DEF Covers
  <2>3. /\ Clusters!Range(x) \in SUBSET es /\ Cardinality(Clusters!Range(x)) = Len(x)
        /\ \A e : e \in Clusters!Range(x) <=> \E p \in 1..m : line[p] = e /\ owner[p] = c
    <3>1. Holds(x, c, line, owner, m, es)
      BY <1>1, <2>1, ClusterRange
    <3> QED
      BY <3>1 DEF Holds
  <2>4. /\ 0 <= E[x[Len(x)]].at - E[x[1]].at
        /\ E[x[Len(x)]].at - E[x[1]].at <= (Len(x) - 1) * w
    BY <1>1, <1>3, <2>1, ClusterSpan
  <2> QED
    BY <2>1, <2>2, <2>3, <2>4
<1>9. ASSUME NEW e \in es PROVE \E c \in 1..n : e \in Clusters!Range(cl[c])
  <2>1. PICK p \in 1..m : line[p] = e
    BY <1>2
  <2>2. PICK c \in 1..n : c = owner[p]
    BY <1>7
  <2>3. e \in Clusters!Range(cl[c])
    BY <1>8, <2>1, <2>2
  <2> QED
    BY <2>3
<1>10. ASSUME NEW c \in 1..n, NEW d \in 1..n,
              NEW i \in Clusters!Range(cl[c]), NEW k \in Clusters!Range(cl[d])
       PROVE  c = d <=> Clusters!Linked(E, es, i, k, w)
  <2>1. PICK p \in 1..m : line[p] = i /\ owner[p] = c
    BY <1>8
  <2>2. PICK q \in 1..m : line[q] = k /\ owner[q] = d
    BY <1>8
  <2>3. ASSUME NEW r \in 1..m, NEW s \in 1..m, r <= s
        PROVE  owner[r] = owner[s] <=> Clusters!Linked(E, es, line[r], line[s], w)
    <3>1. owner[r] = owner[s] <=> \A t \in (r + 1)..s : Follows(E, line[t - 1], line[t], w)
      BY <1>2, <1>3, <2>3, NumbersGrow
    <3>2. Clusters!Linked(E, es, line[r], line[s], w) <=>
            \A t \in (r + 1)..s : Follows(E, line[t - 1], line[t], w)
      BY <1>1, <2>3, LinkedInLine
    <3> QED
      BY <3>1, <3>2
  <2>4. CASE p <= q
    BY <2>1, <2>2, <2>3, <2>4
  <2>5. CASE q <= p
    <3>1. owner[q] = owner[p] <=> Clusters!Linked(E, es, line[q], line[p], w)
      BY <2>3, <2>5
    <3>2. Clusters!Linked(E, es, k, i, w) <=> Clusters!Linked(E, es, i, k, w)
      BY LinkedBoth
    <3> QED
      BY <2>1, <2>2, <3>1, <3>2
  <2> QED
    BY <2>4, <2>5
<1>11. ASSUME NEW c \in 2..n PROVE Clusters!Before(E, cl[c - 1][1], cl[c][1])
  <2>1. PICK d \in 1..n : d = c - 1 /\ c \in 1..n /\ d < c
    OBVIOUS
  <2>2. PICK x, a : x = cl[d] /\ Covers(x, a, d, owner, line, m)
    BY <1>6
  <2>3. PICK y, b : y = cl[c] /\ Covers(y, b, c, owner, line, m)
    BY <1>6, <2>1
  <2>4. a \in 1..m /\ owner[a] = d /\ x[1] = line[a]
    <3>1. a \in 1..m /\ Len(x) \in Nat /\ Len(x) # 0 /\ a + 1 - 1 = a
      BY <2>2 DEF Covers
    <3>2. 1 \in 1..Len(x) /\ a <= a /\ a <= a + Len(x) - 1
      BY <3>1
    <3> QED
      BY <2>2, <3>1, <3>2 DEF Covers
  <2>5. b \in 1..m /\ owner[b] = c /\ y[1] = line[b]
    <3>1. b \in 1..m /\ Len(y) \in Nat /\ Len(y) # 0 /\ b + 1 - 1 = b
      BY <2>3 DEF Covers
    <3>2. 1 \in 1..Len(y) /\ b <= b /\ b <= b + Len(y) - 1
      BY <3>1
    <3> QED
      BY <2>3, <3>1, <3>2 DEF Covers
  <2>6. a < b
    <3> SUFFICES ASSUME b <= a PROVE FALSE
      BY <2>4, <2>5
    <3>1. owner[b] <= owner[a]
      BY <1>2, <1>3, <2>4, <2>5, NumbersGrow
    <3> QED
      BY <2>1, <2>4, <2>5, <3>1
  <2>7. Clusters!Before(E, line[a], line[b])
    BY <1>1, <2>4, <2>5, <2>6 DEF Lined
  <2> QED
    BY <2>1, <2>2, <2>3, <2>4, <2>5, <2>7
<1>12. Grouped(cl, E, es, w)
  BY <1>5, <1>8, <1>9, <1>10, <1>11 DEF Grouped
<1> QED
  BY <1>4, <1>12

LEMMA ClusterCounts ==
  \A S : Clusters!Cardinality(S) = Cardinality(S)
BY Zenon DEF Clusters!Cardinality, Cardinality

LEMMA Apart ==
  ASSUME NEW cl, NEW E, NEW es, NEW w, Grouped(cl, E, es, w),
         NEW c \in 1..Len(cl), NEW d \in 1..Len(cl), NEW e,
         e \in Clusters!Range(cl[c]), e \in Clusters!Range(cl[d])
  PROVE  c = d
<1>1. \A a, b \in 1..Len(cl) : \A i \in Clusters!Range(cl[a]), k \in Clusters!Range(cl[b]) :
        a = b <=> Clusters!Linked(E, es, i, k, w)
  BY DEF Grouped
<1>2. Clusters!Linked(E, es, e, e, w)
  BY <1>1
<1> QED
  BY <1>1, <1>2

LEMMA PartsSum ==
  ASSUME NEW S, NEW n, NEW P, NEW h, NEW whole, Parts(P, h, S, n, whole)
  PROVE  Clusters!SumFunction(h) = Cardinality(whole)
<1>1. IsFiniteSet(S) /\ h \in [S -> Nat]
  BY DEF Parts
<1>2. PICK g : SumsUp(g, h, S) /\ Clusters!SumFunction(h) = g[S]
  BY <1>1, ClusterSum
<1>3. g[S] = Cardinality(whole)
  BY <1>2, SumOfParts
<1> QED
  BY <1>2, <1>3

LEMMA EventsAreFew ==
  ASSUME NEW E, Heard(E), NEW es \in SUBSET (1..Len(E)), NEW R \in SUBSET es
  PROVE  IsFiniteSet(R) /\ Cardinality(R) \in Nat
<1>1. IsFiniteSet(1..Len(E))
  BY FS_Interval DEF Heard
<1>2. R \in SUBSET (1..Len(E))
  OBVIOUS
<1> QED
  BY <1>1, <1>2, FS_Subset, FS_CardinalityType

\* Grouped events are the chains that are asked for.
LEMMA GroupsAreChains ==
  ASSUME NEW E, Heard(E), NEW es \in SUBSET (1..Len(E)), NEW w, NEW cl, Grouped(cl, E, es, w)
  PROVE  Clusters!AreChains(E, es, w, cl)
<1>1. PICK n \in Nat, N \in Nat : n = Len(cl) /\ N = Len(E)
  BY DEF Grouped, Heard
<1>2. \A c \in 1..n : /\ Clusters!Range(cl[c]) \in SUBSET es /\ cl[c] \in Seq(Nat)
                      /\ Cardinality(Clusters!Range(cl[c])) = Len(cl[c])
  BY <1>1 DEF Grouped
<1>3. \A e : e \in es <=> \E c \in 1..n : e \in Clusters!Range(cl[c])
  BY <1>1, <1>2 DEF Grouped
<1>4. PICK P : P = [c \in 1..n |-> Clusters!Range(cl[c])]
  OBVIOUS
<1>5. PICK h : h = [c \in 1..n |-> Len(cl[c])]
  OBVIOUS
<1>6. P \in [1..n -> SUBSET (1..N)] /\ \A c \in 1..n : P[c] = Clusters!Range(cl[c])
  <2>1. \A c \in 1..n : Clusters!Range(cl[c]) \in SUBSET (1..N)
    BY <1>1, <1>2
  <2> QED
    BY <1>4, <2>1
<1>7. h \in [1..n -> Nat] /\ \A c \in 1..n : h[c] = Cardinality(P[c])
  BY <1>2, <1>5, <1>6
<1>8. \A i, j \in 1..n : i # j => P[i] \cap P[j] = {}
  BY <1>1, <1>6, Apart
<1>9. es = UNION {P[i] : i \in 1..n}
  BY <1>3, <1>6
<1>10. Clusters!SumFunction(h) = Cardinality(es)
  <2>1. IsFiniteSet(1..n)
    BY FS_Interval
  <2>2. Parts(P, h, 1..n, N, es)
    BY <1>6, <1>7, <1>8, <1>9, <2>1 DEF Parts
  <2> QED
    BY <2>2, PartsSum
<1>11. Clusters!SumFunction([c \in 1..Len(cl) |-> Len(cl[c])]) = Clusters!Cardinality(es)
  BY <1>1, <1>5, <1>10, ClusterCounts
<1>12. UNION {Clusters!Range(cl[c]) : c \in 1..Len(cl)} = es
  BY <1>1, <1>3
<1>13. /\ \A c, d \in 1..Len(cl) : \A i \in Clusters!Range(cl[c]), k \in Clusters!Range(cl[d]) :
            c = d <=> Clusters!Linked(E, es, i, k, w)
       /\ \A c \in 2..Len(cl) : Clusters!Before(E, cl[c - 1][1], cl[c][1])
  BY Zenon DEF Grouped
<1> QED
  BY <1>11, <1>12, <1>13, Zenon DEF Clusters!AreChains

\* The channels of events are of more than one if another has another channel.
LEMMA ManyChannels ==
  ASSUME NEW E, NEW R, IsFiniteSet(R), NEW e \in R
  PROVE  /\ Cardinality({E[k].channel : k \in R}) \in Nat
         /\ Cardinality({E[k].channel : k \in R}) >= 2 <=> \E k \in R : E[k].channel # E[e].channel
<1>1. PICK T, f : T = {E[k].channel : k \in R} /\ f = [k \in R |-> E[k].channel]
  OBVIOUS
<1>2. f \in [R -> T] /\ \A t \in T : \E k \in R : f[k] = t
  BY <1>1
<1>3. f \in Surjection(R, T)
  BY <1>2 DEF Surjection
<1>4. IsFiniteSet(T)
  BY <1>3, FS_Surjection
<1>5. E[e].channel \in T
  BY <1>1
<1>6. Cardinality(T) \in Nat /\ (Cardinality(T) >= 2 <=> \E t \in T : t # E[e].channel)
  BY <1>4, <1>5, TwoOrMore
<1>7. (\E t \in T : t # E[e].channel) <=> \E k \in R : E[k].channel # E[e].channel
  BY <1>1
<1> QED
  BY <1>1, <1>6, <1>7

\* The events of the clusters alike are those of causes.
AllOf(alike, causes) == \A e : (\E x \in alike : e \in Clusters!Range(x)) <=> e \in causes

\* The events in the clusters of a common cause are those that have one.
LEMMA CausesAgree ==
  ASSUME NEW E, Heard(E), NEW es \in SUBSET (1..Len(E)), NEW w, NEW cl, Grouped(cl, E, es, w)
  PROVE  AllOf(Clusters!CommonCauseClusters(E, cl), {e \in es : Clusters!CommonCauseOf(E, es, e, w)})
<1>1. PICK n \in Nat : n = Len(cl) /\ cl \in Seq(Seq(Nat))
  BY DEF Grouped
<1>2. /\ \A c \in 1..n : Clusters!Range(cl[c]) \in SUBSET es
      /\ \A e \in es : \E c \in 1..n : e \in Clusters!Range(cl[c])
      /\ \A c, d \in 1..n : \A i \in Clusters!Range(cl[c]), k \in Clusters!Range(cl[d]) :
           c = d <=> Clusters!Linked(E, es, i, k, w)
  BY <1>1 DEF Grouped
<1>3. \A x : x \in Clusters!Range(cl) <=> \E c \in 1..n : x = cl[c]
  BY <1>1 DEF Clusters!Range
<1>4. \A x : x \in Clusters!CommonCauseClusters(E, cl) <=>
               \E c \in 1..n : x = cl[c] /\ Clusters!LikelyCommonCause(E, cl[c])
  BY <1>3, Zenon DEF Clusters!CommonCauseClusters
<1>5. ASSUME NEW c \in 1..n, NEW e \in Clusters!Range(cl[c])
      PROVE  Clusters!LikelyCommonCause(E, cl[c]) <=> Clusters!CommonCauseOf(E, es, e, w)
  <2>1. PICK R : R = Clusters!Range(cl[c]) /\ R \in SUBSET es /\ e \in R /\ IsFiniteSet(R)
    BY <1>2, EventsAreFew
  <2>2. {k \in es : Clusters!Linked(E, es, e, k, w)} = R
    <3>1. ASSUME NEW k \in es PROVE Clusters!Linked(E, es, e, k, w) <=> k \in R
      <4>1. PICK d \in 1..n : k \in Clusters!Range(cl[d])
        BY <1>2
      <4>2. c = d <=> Clusters!Linked(E, es, e, k, w)
        BY <1>2, <4>1
      <4>3. k \in R => c = d
        BY <1>1, <2>1, <4>1, Apart
      <4> QED
        BY <2>1, <4>1, <4>2, <4>3
    <3> QED
      BY <2>1, <3>1
  <2>3. Clusters!CommonCauseOf(E, es, e, w) <=>
          /\ \A k \in R : E[k].severity = "critical"
          /\ \E k \in R : E[k].channel # E[e].channel
    BY <2>2, Zenon DEF Clusters!CommonCauseOf
  <2>4. Clusters!LikelyCommonCause(E, cl[c]) <=>
          /\ \A k \in R : E[k].severity = "critical"
          /\ Cardinality({E[k].channel : k \in R}) >= 2
    BY <2>1, ClusterCounts, Zenon DEF Clusters!LikelyCommonCause
  <2>5. Cardinality({E[k].channel : k \in R}) >= 2 <=> \E k \in R : E[k].channel # E[e].channel
    <3>1. IsFiniteSet(R) /\ e \in R
      BY <2>1
    <3> QED
      BY <3>1, ManyChannels, Zenon
  <2> QED
    BY <2>3, <2>4, <2>5
<1>6. ASSUME NEW e
      PROVE  (\E x \in Clusters!CommonCauseClusters(E, cl) : e \in Clusters!Range(x)) <=>
             (e \in es /\ Clusters!CommonCauseOf(E, es, e, w))
  <2>1. ASSUME NEW x \in Clusters!CommonCauseClusters(E, cl), e \in Clusters!Range(x)
        PROVE  e \in es /\ Clusters!CommonCauseOf(E, es, e, w)
    <3>1. PICK c \in 1..n : x = cl[c] /\ Clusters!LikelyCommonCause(E, cl[c])
      BY <1>4
    <3>2. e \in Clusters!Range(cl[c])
      BY <2>1, <3>1
    <3> QED
      BY <1>2, <1>5, <3>1, <3>2
  <2>2. ASSUME e \in es, Clusters!CommonCauseOf(E, es, e, w)
        PROVE  \E x \in Clusters!CommonCauseClusters(E, cl) : e \in Clusters!Range(x)
    <3>1. PICK c \in 1..n : e \in Clusters!Range(cl[c])
      BY <1>2, <2>2
    <3>2. Clusters!LikelyCommonCause(E, cl[c])
      BY <1>5, <2>2, <3>1
    <3>3. PICK x : x = cl[c]
      OBVIOUS
    <3>4. x \in Clusters!CommonCauseClusters(E, cl)
      BY <1>4, <3>2, <3>3
    <3> QED
      BY <3>1, <3>3, <3>4
  <2> QED
    BY <2>1, <2>2
<1> QED
  BY <1>6 DEF AllOf

\* rank puts the n summaries sm in order.
Ranked(rank, sm, n) ==
  /\ rank \in [1..n -> 1..n] /\ \A c \in 1..n : \E k \in 1..n : rank[k] = c
  /\ \A k, l \in 1..n : rank[k] = rank[l] => k = l
  /\ \A k, l \in 1..n : k <= l => Clusters!Ahead(sm, rank[k], rank[l])

LEMMA RankingSorts ==
  ASSUME NEW n \in Nat, NEW sm, Len(sm) = n,
         \A c \in 1..n : sm[c].count \in Nat /\ sm[c].station \in Nat,
         NEW rank, rank = Clusters!Ranking(sm)
  PROVE  Ranked(rank, sm, n)
<1> DEFINE K == 1..n
           le == {cd \in K \X K : Clusters!Ahead(sm, cd[1], cd[2])}
<1>1. \A c, d \in K : <<c, d>> \in le <=> Clusters!Ahead(sm, c, d)
  OBVIOUS
<1>2. ASSUME NEW c \in K, NEW d \in K
      PROVE  <<c, d>> \in le <=>
               \/ sm[c].count > sm[d].count
               \/ sm[c].count = sm[d].count /\ sm[c].station < sm[d].station
               \/ sm[c].count = sm[d].count /\ sm[c].station = sm[d].station /\ c <= d
  <2>1. PICK a \in Nat, b \in Nat, x \in Nat, y \in Nat :
          a = sm[c].count /\ b = sm[d].count /\ x = sm[c].station /\ y = sm[d].station
    OBVIOUS
  <2>2. Clusters!Ahead(sm, c, d) <=>
          \/ a > b \/ (a = b /\ x < y)
          \/ ~(b > a \/ (b = a /\ y < x)) /\ c <= d
    BY <2>1 DEF Clusters!Ahead, Clusters!Larger
  <2>3. Clusters!Ahead(sm, c, d) <=> a > b \/ (a = b /\ x < y) \/ (a = b /\ x = y /\ c <= d)
    BY <2>2
  <2> HIDE DEF le
  <2> QED
    BY <1>1, <2>1, <2>3
<1>3. \A c \in K : c \in Nat /\ sm[c].count \in Nat /\ sm[c].station \in Nat
  OBVIOUS
<1>4. IsFiniteSet(K) /\ Cardinality(K) = n
  <2>1. 1 \in Int /\ n \in Int /\ (1 > n <=> n = 0) /\ n - 1 + 1 = n
    OBVIOUS
  <2>2. IsFiniteSet(1..n) /\ Cardinality(1..n) = IF 1 > n THEN 0 ELSE n - 1 + 1
    BY <2>1, FS_Interval
  <2> QED
    BY <2>1, <2>2
<1> HIDE DEF le, K
<1>5. /\ \A i \in K : <<i, i>> \in le
      /\ \A i, j \in K : <<i, j>> \in le \/ <<j, i>> \in le
      /\ \A i, j \in K : <<i, j>> \in le /\ <<j, i>> \in le => i = j
      /\ \A i, j, k \in K : <<i, j>> \in le /\ <<j, k>> \in le => <<i, k>> \in le
  <2>1. ASSUME NEW i \in K, NEW j \in K
        PROVE  /\ <<i, i>> \in le /\ (<<i, j>> \in le \/ <<j, i>> \in le)
               /\ (<<i, j>> \in le /\ <<j, i>> \in le) => i = j
    BY <1>2, <1>3
  <2>2. ASSUME NEW i \in K, NEW j \in K, NEW k \in K, <<i, j>> \in le, <<j, k>> \in le
        PROVE  <<i, k>> \in le
    <3>1. PICK a \in Nat, b \in Nat, c \in Nat, x \in Nat, y \in Nat, z \in Nat :
            /\ a = sm[i].count /\ b = sm[j].count /\ c = sm[k].count
            /\ x = sm[i].station /\ y = sm[j].station /\ z = sm[k].station
      BY <1>3
    <3>2. /\ a > b \/ (a = b /\ x < y) \/ (a = b /\ x = y /\ i <= j)
          /\ b > c \/ (b = c /\ y < z) \/ (b = c /\ y = z /\ j <= k)
      BY <1>2, <2>2, <3>1
    <3>3. a > c \/ (a = c /\ x < z) \/ (a = c /\ x = z /\ i <= k)
      BY <1>3, <3>2
    <3> QED
      BY <1>2, <3>1, <3>3
  <2> QED
    BY <2>1, <2>2
<1>6. PlacedBy(rank, n, K, le)
  <2>1. \A c \in K : {b \in K : Clusters!Ahead(sm, b, c)} = {b \in K : <<b, c>> \in le}
    BY <1>1
  <2>2. \A k : \A c \in K : Cardinality({b \in K : Clusters!Ahead(sm, b, c)}) = k
                              <=> Cardinality({b \in K : <<b, c>> \in le}) = k
    BY <2>1
  <2> DEFINE first(k) == CHOOSE c \in K : Cardinality({b \in K : Clusters!Ahead(sm, b, c)}) = k
             other(k) == CHOOSE c \in K : Cardinality({b \in K : <<b, c>> \in le}) = k
  <2>3. \A k : first(k) = other(k)
    BY <2>2, Zenon
  <2>4. rank = [k \in 1..n |-> first(k)]
    <3>1. Clusters!Ranking(sm) =
            [k \in 1..Len(sm) |->
               CHOOSE c \in 1..Len(sm) :
                 Cardinality({b \in 1..Len(sm) : Clusters!Ahead(sm, b, c)}) = k]
      BY Zenon DEF Clusters!Ranking, Clusters!Cardinality, Cardinality
    <3> QED
      BY <3>1, Zenon DEF K
  <2> HIDE DEF first, other
  <2>5. rank = [k \in 1..n |-> other(k)]
    BY <2>3, <2>4
  <2> QED
    BY <2>5, Zenon DEF PlacedBy, other
<1>7. SortedBy(rank, n, K, le)
  BY <1>4, <1>5, <1>6, SortsByCount
<1>8. /\ rank \in [1..n -> K] /\ \A c \in K : \E k \in 1..n : rank[k] = c
      /\ \A k, l \in 1..n : rank[k] = rank[l] => k = l
  BY <1>7 DEF SortedBy, Bijection, Injection, Surjection, IsInjective
<1>9. ASSUME NEW k \in 1..n, NEW l \in 1..n, k <= l PROVE Clusters!Ahead(sm, rank[k], rank[l])
  <2>1. rank[k] \in K /\ rank[l] \in K
    BY <1>8
  <2>2. <<rank[k], rank[l]>> \in le
    BY <1>7, <1>9 DEF SortedBy
  <2> QED
    BY <1>1, <2>1, <2>2
<1> QED
  BY <1>8, <1>9 DEF K, Ranked

\* The summary s tells what is in the cluster of the events R.
Tells(s, R, E, w) ==
  /\ s.count \in Nat /\ s.station \in Nat /\ s.count = Cardinality(R)
  /\ s.critical = Cardinality({e \in R : E[e].severity = "critical"})
  /\ s.critical \in Nat
  /\ 0 <= s.span /\ s.span <= (s.count - 1) * w
  /\ s.common <=> s.critical = s.count /\ Clusters!Cardinality(s.channels) > 1

LEMMA SummaryTells ==
  ASSUME NEW E, Heard(E), NEW es \in SUBSET (1..Len(E)), NEW w \in Nat,
         NEW x \in Seq(Nat), NEW R, R = Clusters!Range(x), R \in SUBSET es, Len(x) # 0,
         Cardinality(R) = Len(x), NEW s, s = Clusters!Summary(E, x),
         0 <= E[x[Len(x)]].at - E[x[1]].at, E[x[Len(x)]].at - E[x[1]].at <= (Len(x) - 1) * w
  PROVE  Tells(s, R, E, w)
<1>1. PICK T : T = {e \in R : E[e].severity = "critical"}
  OBVIOUS
<1>2. IsFiniteSet(R) /\ IsFiniteSet(T) /\ Cardinality(R) \in Nat /\ Cardinality(T) \in Nat
  BY <1>1, EventsAreFew
<1>3. PICK L \in Nat : L = Len(x) /\ 1 \in 1..L /\ L \in 1..L
  OBVIOUS
<1>4. x[1] \in R
  BY <1>3 DEF Clusters!Range
<1>5. /\ s.station = E[x[1]].station /\ s.count = L
      /\ s.channels = {E[e].channel : e \in R}
      /\ s.critical = Clusters!CriticalCount(E, x)
      /\ s.common = Clusters!LikelyCommonCause(E, x)
      /\ s.span = E[x[L]].at - E[x[1]].at
  BY <1>3 DEF Clusters!Summary, Clusters!Last
<1>6. s.critical = Cardinality(T)
  BY <1>1, <1>5, ClusterCounts, Zenon DEF Clusters!CriticalCount
<1>7. Clusters!LikelyCommonCause(E, x) <=>
        (\A e \in R : E[e].severity = "critical") /\ Cardinality(s.channels) >= 2
  BY <1>5, ClusterCounts, Zenon DEF Clusters!LikelyCommonCause
<1>8. (\A e \in R : E[e].severity = "critical") <=> Cardinality(T) = Cardinality(R)
  <2>1. (\A e \in R : E[e].severity = "critical") <=> T = R
    BY <1>1
  <2>2. Cardinality(T) = Cardinality(R) => T = R
    <3>1. T \in SUBSET R
      BY <1>1
    <3> QED
      BY <1>2, <3>1, FS_Subset
  <2> QED
    BY <2>1, <2>2
<1>9. Cardinality(s.channels) \in Nat
  <2>1. Cardinality({E[e].channel : e \in R}) \in Nat
    BY <1>2, <1>4, ManyChannels
  <2> QED
    BY <1>5, <2>1
<1>10. s.common <=> s.critical = s.count /\ Clusters!Cardinality(s.channels) > 1
  <2>1. s.common <=> s.critical = s.count /\ Cardinality(s.channels) >= 2
    BY <1>3, <1>5, <1>6, <1>7, <1>8
  <2>2. Cardinality(s.channels) >= 2 <=> Cardinality(s.channels) > 1
    BY <1>9
  <2> QED
    BY <2>1, <2>2, ClusterCounts
<1>11. s.station \in Nat
  <2>1. x[1] \in 1..Len(E)
    BY <1>4
  <2> QED
    BY <1>5, <2>1 DEF Heard
<1>12. 0 <= s.span /\ s.span <= (s.count - 1) * w
  BY <1>3, <1>5
<1> QED
  BY <1>1, <1>2, <1>3, <1>5, <1>6, <1>10, <1>11, <1>12 DEF Tells

\* The summaries of grouped events tell of all of them, the largest first.
LEMMA GroupsAreSummarized ==
  ASSUME NEW E, Heard(E), NEW es \in SUBSET (1..Len(E)), NEW w \in Nat,
         NEW cl, Grouped(cl, E, es, w)
  PROVE  Clusters!Summarized(E, es, w, Clusters!Summarize(E, cl))
<1>1. PICK n \in Nat, N \in Nat : n = Len(cl) /\ N = Len(E)
  BY DEF Grouped, Heard
<1>2. PICK sm : sm = [c \in 1..n |-> Clusters!Summary(E, cl[c])]
  OBVIOUS
<1>3. Len(sm) = n /\ \A c \in 1..n : sm[c] = Clusters!Summary(E, cl[c])
  <2>1. DOMAIN sm = 1..n /\ sm = [c \in 1..n |-> sm[c]]
    BY <1>2
  <2> QED
    BY <1>2, <2>1, LengthIs
<1>4. ASSUME NEW c \in 1..n PROVE Tells(sm[c], Clusters!Range(cl[c]), E, w)
  <2>1. /\ cl[c] \in Seq(Nat) /\ Len(cl[c]) # 0 /\ Clusters!Range(cl[c]) \in SUBSET es
        /\ Cardinality(Clusters!Range(cl[c])) = Len(cl[c])
        /\ 0 <= E[cl[c][Len(cl[c])]].at - E[cl[c][1]].at
        /\ E[cl[c][Len(cl[c])]].at - E[cl[c][1]].at <= (Len(cl[c]) - 1) * w
    <3>1. cl \in Seq(Seq(Nat)) /\ c \in 1..Len(cl)
      BY <1>1 DEF Grouped
    <3>2. cl[c] \in Seq(Nat)
      BY <3>1
    <3> QED
      BY <3>1, <3>2, Zenon DEF Grouped
  <2>2. PICK x, R, s : x = cl[c] /\ R = Clusters!Range(x) /\ s = Clusters!Summary(E, x)
    OBVIOUS
  <2>3. /\ x \in Seq(Nat) /\ R \in SUBSET es /\ Len(x) # 0 /\ Cardinality(R) = Len(x)
        /\ 0 <= E[x[Len(x)]].at - E[x[1]].at /\ E[x[Len(x)]].at - E[x[1]].at <= (Len(x) - 1) * w
    BY <2>1, <2>2
  <2>4. R = Clusters!Range(x) /\ s = Clusters!Summary(E, x)
    BY <2>2
  <2>5. Tells(s, R, E, w)
    BY <2>3, <2>4, SummaryTells
  <2> QED
    BY <1>3, <2>2, <2>5
<1>5. PICK rank : rank = Clusters!Ranking(sm)
  OBVIOUS
<1>6. /\ rank \in [1..n -> 1..n] /\ \A c \in 1..n : \E k \in 1..n : rank[k] = c
      /\ \A k, l \in 1..n : rank[k] = rank[l] => k = l
      /\ \A k, l \in 1..n : k <= l => Clusters!Ahead(sm, rank[k], rank[l])
  <2>1. \A c \in 1..n : sm[c].count \in Nat /\ sm[c].station \in Nat
    BY <1>4 DEF Tells
  <2>2. Ranked(rank, sm, n)
    BY <1>3, <1>5, <2>1, RankingSorts
  <2> QED
    BY <2>2 DEF Ranked
<1>7. PICK sums : sums = [k \in 1..n |-> sm[rank[k]]]
  OBVIOUS
<1>8. Clusters!Summarize(E, cl) = sums
  <2> DEFINE all == [c \in 1..Len(cl) |-> Clusters!Summary(E, cl[c])]
  <2>1. sm = all
    BY <1>1, <1>2
  <2>2. Clusters!Summarize(E, cl) = [k \in 1..Len(all) |-> all[Clusters!Ranking(all)[k]]]
    BY Zenon DEF Clusters!Summarize
  <2> HIDE DEF all
  <2> QED
    BY <1>3, <1>5, <1>7, <2>1, <2>2
<1>9. Len(sums) = n /\ \A k \in 1..n : sums[k] = sm[rank[k]] /\ rank[k] \in 1..n
  <2>1. DOMAIN sums = 1..n /\ sums = [k \in 1..n |-> sums[k]]
    BY <1>7
  <2> QED
    BY <1>6, <1>7, <2>1, LengthIs
<1>10. ASSUME NEW k \in 1..n PROVE Tells(sums[k], Clusters!Range(cl[rank[k]]), E, w)
  BY <1>4, <1>9
<1>11. \A c \in 1..n : Clusters!Range(cl[c]) \in SUBSET es
  BY <1>1 DEF Grouped
<1>12. \A e \in es : \E c \in 1..n : e \in Clusters!Range(cl[c])
  BY <1>1 DEF Grouped
<1>13. \A c, d \in 1..n : c # d => Clusters!Range(cl[c]) \cap Clusters!Range(cl[d]) = {}
  BY <1>1, Apart
<1>14. IsFiniteSet(1..n)
  BY FS_Interval
<1>15. Clusters!SumFunction([c \in 1..n |-> sums[c].count]) = Cardinality(es)
  <2>1. PICK P : P = [k \in 1..n |-> Clusters!Range(cl[rank[k]])]
    OBVIOUS
  <2>2. PICK h : h = [k \in 1..n |-> sums[k].count]
    OBVIOUS
  <2>3. \A k \in 1..n : P[k] = Clusters!Range(cl[rank[k]]) /\ P[k] \in SUBSET es
    BY <1>9, <1>11, <2>1
  <2>4. P \in [1..n -> SUBSET (1..N)]
    <3>1. \A k \in 1..n : Clusters!Range(cl[rank[k]]) \in SUBSET (1..N)
      BY <1>1, <1>9, <1>11
    <3> QED
      BY <2>1, <3>1
  <2>5. h \in [1..n -> Nat] /\ \A k \in 1..n : h[k] = Cardinality(P[k])
    BY <1>10, <2>2, <2>3 DEF Tells
  <2>6. \A k, l \in 1..n : k # l => P[k] \cap P[l] = {}
    <3> SUFFICES ASSUME NEW k \in 1..n, NEW l \in 1..n, k # l PROVE P[k] \cap P[l] = {}
      OBVIOUS
    <3>1. PICK c \in 1..n, d \in 1..n : c = rank[k] /\ d = rank[l]
      BY <1>9
    <3>2. c # d
      BY <1>6, <3>1
    <3>3. Clusters!Range(cl[c]) \cap Clusters!Range(cl[d]) = {}
      BY <1>13, <3>2
    <3> QED
      BY <2>3, <3>1, <3>3
  <2>7. es = UNION {P[k] : k \in 1..n}
    <3>1. ASSUME NEW e \in es PROVE \E k \in 1..n : e \in P[k]
      <4>1. PICK c \in 1..n : e \in Clusters!Range(cl[c])
        BY <1>12
      <4>2. PICK k \in 1..n : rank[k] = c
        BY <1>6
      <4> QED
        BY <2>3, <4>1, <4>2
    <3> QED
      BY <2>3, <3>1
  <2>8. Parts(P, h, 1..n, N, es)
    BY <1>14, <2>4, <2>5, <2>6, <2>7 DEF Parts
  <2> QED
    BY <2>2, <2>8, PartsSum
<1>16. Clusters!SumFunction([c \in 1..n |-> sums[c].critical]) =
         Cardinality({e \in es : E[e].severity = "critical"})
  <2>0. PICK bad : bad = {e \in es : E[e].severity = "critical"}
    OBVIOUS
  <2>1. PICK P : P = [k \in 1..n |-> {e \in Clusters!Range(cl[rank[k]]) : E[e].severity = "critical"}]
    OBVIOUS
  <2>2. PICK h : h = [k \in 1..n |-> sums[k].critical]
    OBVIOUS
  <2>3. \A k \in 1..n : P[k] = {e \in Clusters!Range(cl[rank[k]]) : E[e].severity = "critical"}
    BY <2>1
  <2>4. P \in [1..n -> SUBSET (1..N)]
    <3>1. \A k \in 1..n : {e \in Clusters!Range(cl[rank[k]]) : E[e].severity = "critical"}
                            \in SUBSET (1..N)
      BY <1>1, <1>9, <1>11
    <3> QED
      BY <2>1, <3>1
  <2>5. h \in [1..n -> Nat] /\ \A k \in 1..n : h[k] = Cardinality(P[k])
    BY <1>10, <2>2, <2>3 DEF Tells
  <2>6. \A k, l \in 1..n : k # l => P[k] \cap P[l] = {}
    <3> SUFFICES ASSUME NEW k \in 1..n, NEW l \in 1..n, k # l PROVE P[k] \cap P[l] = {}
      OBVIOUS
    <3>1. PICK c \in 1..n, d \in 1..n : c = rank[k] /\ d = rank[l]
      BY <1>9
    <3>2. c # d
      BY <1>6, <3>1
    <3>3. Clusters!Range(cl[c]) \cap Clusters!Range(cl[d]) = {}
      BY <1>13, <3>2
    <3> QED
      BY <2>3, <3>1, <3>3
  <2>7. bad = UNION {P[k] : k \in 1..n}
    <3>1. ASSUME NEW e \in bad PROVE \E k \in 1..n : e \in P[k]
      <4>1. PICK c \in 1..n : e \in Clusters!Range(cl[c])
        BY <1>12, <2>0
      <4>2. PICK k \in 1..n : rank[k] = c
        BY <1>6
      <4> QED
        BY <2>0, <2>3, <4>1, <4>2
    <3>2. \A k \in 1..n : P[k] \in SUBSET bad
      BY <1>9, <1>11, <2>0, <2>3
    <3> QED
      BY <3>1, <3>2
  <2>8. Parts(P, h, 1..n, N, bad)
    BY <1>14, <2>4, <2>5, <2>6, <2>7 DEF Parts
  <2> QED
    BY <2>0, <2>2, <2>8, PartsSum
<1>17. \A c \in 1..n :
         /\ 0 <= sums[c].span /\ sums[c].span <= (sums[c].count - 1) * w
         /\ sums[c].common <=>
              sums[c].critical = sums[c].count /\ Clusters!Cardinality(sums[c].channels) > 1
  BY <1>10 DEF Tells
<1>18. ASSUME NEW c \in 2..n PROVE ~Clusters!Larger(sums[c], sums[c - 1])
  <2>1. PICK d \in 1..n : d = c - 1 /\ c \in 1..n /\ d <= c
    OBVIOUS
  <2>2. Clusters!Ahead(sm, rank[d], rank[c])
    BY <1>6, <2>1
  <2>3. sums[d] = sm[rank[d]] /\ sums[c] = sm[rank[c]]
    BY <1>9, <2>1
  <2>4. Clusters!Larger(sums[d], sums[c]) \/ ~Clusters!Larger(sums[c], sums[d])
    BY <2>2, <2>3, Zenon DEF Clusters!Ahead
  <2>5. /\ sums[d].count \in Nat /\ sums[d].station \in Nat
        /\ sums[c].count \in Nat /\ sums[c].station \in Nat
    BY <1>10, <2>1 DEF Tells
  <2>6. ~Clusters!Larger(sums[c], sums[d])
    BY <2>4, <2>5 DEF Clusters!Larger
  <2> QED
    BY <2>1, <2>6
<1>19. /\ Clusters!SumFunction([c \in 1..Len(sums) |-> sums[c].count]) = Clusters!Cardinality(es)
       /\ Clusters!SumFunction([c \in 1..Len(sums) |-> sums[c].critical]) =
            Clusters!Cardinality({e \in es : E[e].severity = "critical"})
  BY <1>9, <1>15, <1>16, ClusterCounts
<1>20. Clusters!Summarized(E, es, w, sums)
  BY <1>9, <1>17, <1>18, <1>19, Zenon DEF Clusters!Summarized
<1> QED
  BY <1>8, <1>20

LEMMA EventsAreIncidents == LibrarySpec => [](events \in Seq(Incident))
<1>1. LibraryInit => events \in Seq(Incident)
  BY DEF LibraryInit, Init
<1>2. events \in Seq(Incident) /\ [LibraryNext]_libraryVars => (events \in Seq(Incident))'
  <2> SUFFICES ASSUME events \in Seq(Incident), [LibraryNext]_libraryVars
               PROVE  events' \in Seq(Incident)
    OBVIOUS
  <2>1. CASE part = "telemetry" /\ Next
    <3>1. events' = events \/ \E e \in Incident : events' = Append(events, e)
      BY <2>1 DEF Next, Sampled, Detected, Stored
    <3> QED
      BY <3>1
  <2>2. CASE UNCHANGED telemetryVars
    BY <2>2 DEF telemetryVars
  <2>3. CASE UNCHANGED libraryVars
    BY <2>3 DEF libraryVars, telemetryVars
  <2> QED
    BY <2>1, <2>2, <2>3 DEF LibraryNext
<1> QED
  BY <1>1, <1>2, PTL DEF LibrarySpec

LEMMA IncidentsAreHeard ==
  ASSUME events \in Seq(Incident)
  PROVE  Heard(events)
<1>1. Len(events) \in Nat /\ \A i \in 1..Len(events) : events[i] \in Incident
  OBVIOUS
<1>2. \A e \in Incident : e.station \in Nat /\ e.at \in Nat /\ e.channel \in Nat
  BY InputAssumption
<1> QED
  BY <1>1, <1>2 DEF Heard

\* Whatever events come in and in whatever order, the clusters are the chains
\* of events of a station with no silence longer than the window, in order, of
\* all events as of the open ones; the open events of common causes are those
\* whose chains are critical throughout and of several channels; and the
\* summaries leave no event out.
THEOREM ClustersAreRight == LibrarySpec => []ClustersAreChains
<1>1. events \in Seq(Incident) => ClustersAreChains
  <2> SUFFICES ASSUME events \in Seq(Incident) PROVE ClustersAreChains
    OBVIOUS
  <2>1. Heard(events) /\ Span \in Nat
    BY IncidentsAreHeard, InputAssumption
  <2>2. ASSUME NEW es \in SUBSET (1..Len(events)), NEW cl, cl = Clusters!Cluster(events, es, Span)
        PROVE  Grouped(cl, events, es, Span) /\ Clusters!AreChains(events, es, Span, cl)
    BY <2>1, <2>2, Grouping, GroupsAreChains
  <2>3. PICK all, open : all = 1..Len(events) /\ open = Clusters!OpenOnly(events)
    OBVIOUS
  <2>4. all \in SUBSET (1..Len(events)) /\ open \in SUBSET (1..Len(events))
    BY <2>3 DEF Clusters!OpenOnly
  <2>5. PICK ca, co : /\ ca = Clusters!Cluster(events, all, Span)
                      /\ co = Clusters!Cluster(events, open, Span)
    OBVIOUS
  <2>6. Clusters!ClusterByStation(events, Span) = ca /\ Clusters!OpenClusters(events, Span) = co
    BY <2>3, <2>5, Zenon DEF Clusters!ClusterByStation, Clusters!OpenClusters
  <2>7. /\ Grouped(ca, events, all, Span) /\ Clusters!AreChains(events, all, Span, ca)
        /\ Grouped(co, events, open, Span) /\ Clusters!AreChains(events, open, Span, co)
    BY <2>2, <2>4, <2>5
  <2>8. Clusters!Summarized(events, all, Span, Clusters!Summarize(events, ca))
    BY <2>1, <2>4, <2>7, GroupsAreSummarized
  <2>9. UNION {Range(c) : c \in Clusters!CommonCauseClusters(events, co)} =
          {e \in open : Clusters!CommonCauseOf(events, open, e, Span)}
    <3>1. PICK alike, causes : /\ alike = Clusters!CommonCauseClusters(events, co)
                               /\ causes = {e \in open : Clusters!CommonCauseOf(events, open, e, Span)}
      OBVIOUS
    <3>2. AllOf(alike, causes)
      BY <2>1, <2>4, <2>7, <3>1, CausesAgree
    <3>3. \A x : Clusters!Range(x) = Range(x)
      BY Zenon DEF Clusters!Range, Range
    <3>4. UNION {Range(c) : c \in alike} = causes
      BY <3>2, <3>3 DEF AllOf
    <3> QED
      BY <3>1, <3>4
  <2>10. /\ Clusters!AreChains(events, 1..Len(events), Span, Clusters!ClusterByStation(events, Span))
         /\ Clusters!AreChains(events, Clusters!OpenOnly(events), Span,
                               Clusters!OpenClusters(events, Span))
         /\ UNION {Range(c) : c \in Clusters!CommonCauseClusters(events,
                                      Clusters!OpenClusters(events, Span))} =
              {e \in Clusters!OpenOnly(events) :
                 Clusters!CommonCauseOf(events, Clusters!OpenOnly(events), e, Span)}
         /\ Clusters!Summarized(events, 1..Len(events), Span,
                                Clusters!Summarize(events, Clusters!ClusterByStation(events, Span)))
    BY <2>3, <2>6, <2>7, <2>8, <2>9
  <2> QED
    BY <2>10, Zenon DEF ClustersAreChains
<1>2. LibrarySpec => [](events \in Seq(Incident))
  BY EventsAreIncidents
<1> QED
  BY <1>1, <1>2, PTL
-----------------------------------------------------------------------------
(* The gaps. *)

\* The frames of a table have what is asked of them.
Recorded(F) ==
  /\ Len(F) \in Nat
  /\ \A i \in 1..Len(F) : /\ F[i].channel \in Nat /\ F[i].start \in Nat /\ F[i].end \in Nat
                          /\ F[i].start <= F[i].end

LEMMA TimingCounts ==
  \A S : Timing!Cardinality(S) = Cardinality(S)
BY Zenon DEF Timing!Cardinality, Cardinality

LEMMA TimingSum ==
  ASSUME NEW S, IsFiniteSet(S), NEW h \in [S -> Nat]
  PROVE  \E g : SumsUp(g, h, S) /\ Timing!SumFunction(h) = g[S]
<1> DEFINE g == CHOOSE g : SumsUp(g, h, S)
<1>1. SumsUp(g, h, S)
  BY SumExists, Zenon
<1>2. DOMAIN h = S
  OBVIOUS
<1>3. Timing!SumFunction(h) = g[S]
  BY <1>2, Zenon DEF Timing!SumFunction, Timing!SumFunctionOnSet, Timing!FoldFunctionOnSet,
       Timing!MapThenFoldSet, SumsUp
<1> HIDE DEF g
<1> QED
  BY <1>1, <1>3

\* Zero, or the largest of the values of h.
Most(n, h, S) == n \in Nat /\ (\A x \in S : h[x] <= n) /\ (n = 0 \/ \E x \in S : n = h[x])

\* What the tally r of h tells.
Tallied(r, h, S) ==
  /\ r.gaps = Cardinality(S) /\ Most(r.max, h, S)
  /\ \E g : SumsUp(g, h, S) /\ r.total = g[S]

LEMMA TallyTells ==
  ASSUME NEW S, IsFiniteSet(S), NEW h \in [S -> Nat]
  PROVE  Tallied(Timing!Tally(h), h, S)
<1>1. PICK r : r = Timing!Tally(h)
  OBVIOUS
<1>2. r = [gaps |-> Timing!Cardinality(DOMAIN h), total |-> Timing!SumFunction(h),
           max |-> Timing!Max({0} \cup Timing!Range(h))]
  BY <1>1, Zenon DEF Timing!Tally
<1>3. PICK g : SumsUp(g, h, S) /\ Timing!SumFunction(h) = g[S]
  BY TimingSum
<1>4. r.gaps = Cardinality(S)
  <2>1. DOMAIN h = S
    OBVIOUS
  <2> QED
    BY <1>2, <2>1, TimingCounts
<1>5. AddsUp(g, h, S)
  BY <1>3, SumTakesAny
<1>6. g[S] \in Nat /\ \A x \in S : h[x] <= g[S]
  <2>1. ASSUME NEW x \in S PROVE h[x] <= g[S]
    <3>1. S \in SUBSET S /\ S \ {x} \in SUBSET S
      OBVIOUS
    <3>2. g[S \ {x}] \in Nat /\ g[S] = h[x] + g[S \ {x}]
      BY <1>5, <3>1 DEF AddsUp
    <3>3. h[x] \in Nat
      OBVIOUS
    <3> QED
      BY <3>2, <3>3
  <2>2. S \in SUBSET S
    OBVIOUS
  <2>3. g[S] \in Nat
    BY <1>5, <2>2 DEF AddsUp
  <2> QED
    BY <2>1, <2>3
<1>7. PICK A : A = {0} \cup {h[x] : x \in S}
  OBVIOUS
<1>8. A \subseteq Nat /\ A # {} /\ \A k \in A : k <= g[S]
  BY <1>6, <1>7
<1>9. PICK n : Largest(n, A)
  BY <1>6, <1>8, LargestExists
<1>10. r.max = n
  <2>1. Timing!Range(h) = {h[x] : x \in S}
    <3>1. DOMAIN h = S
      OBVIOUS
    <3> QED
      BY <3>1, Zenon DEF Timing!Range
  <2>2. A \subseteq Int
    BY <1>8
  <2>3. Timing!Max(A) = Max(A)
    BY Zenon DEF Timing!Max, Max
  <2> QED
    BY <1>2, <1>7, <1>9, <2>1, <2>2, <2>3, MaxIs
<1>11. Most(n, h, S)
  <2>1. n \in A /\ \A k \in A : n >= k
    BY <1>9 DEF Largest
  <2>2. n \in Nat /\ (n = 0 \/ \E x \in S : n = h[x])
    BY <1>7, <1>8, <2>1
  <2>3. \A x \in S : h[x] <= n
    BY <1>7, <2>1
  <2> QED
    BY <2>2, <2>3 DEF Most
<1>12. Most(r.max, h, S)
  BY <1>10, <1>11
<1>13. Tallied(r, h, S)
  <2>1. r.total = g[S]
    BY <1>2, <1>3
  <2> QED
    BY <1>3, <1>4, <1>12, <2>1, Zenon DEF Tallied
<1> QED
  BY <1>1, <1>13

\* What fits tells no more.
NoMore(q, r) ==
  /\ q.gaps \in Nat /\ q.total \in Nat /\ q.max \in Nat
  /\ r.gaps \in Nat /\ r.total \in Nat /\ r.max \in Nat
  /\ q.gaps <= r.gaps /\ q.total <= r.total /\ q.max <= r.max

LEMMA TallyFits ==
  ASSUME NEW f, NEW h, NEW S, NEW d, NEW T, Fits(f, h, S, d, T),
         NEW q, Tallied(q, h, S), NEW r, Tallied(r, d, T)
  PROVE  NoMore(q, r)
<1>1. q.gaps \in Nat /\ r.gaps \in Nat /\ q.gaps <= r.gaps
  BY FittingCounts DEF Tallied
<1>2. q.total \in Nat /\ r.total \in Nat /\ q.total <= r.total
  <2>1. PICK g : SumsUp(g, h, S) /\ q.total = g[S]
    BY DEF Tallied
  <2>2. PICK e : SumsUp(e, d, T) /\ r.total = e[T]
    BY DEF Tallied
  <2> QED
    BY <2>1, <2>2, SumOfFitting
<1>3. q.max \in Nat /\ r.max \in Nat /\ q.max <= r.max
  <2>1. Most(q.max, h, S) /\ Most(r.max, d, T)
    BY DEF Tallied
  <2>2. q.max \in Nat /\ r.max \in Nat
    BY <2>1 DEF Most
  <2>3. CASE q.max = 0
    BY <2>2, <2>3
  <2>4. ASSUME NEW x \in S, q.max = h[x] PROVE q.max <= r.max
    <3>1. /\ h[x] <= d[f[x]] /\ f[x] \in T /\ h[x] \in Nat /\ d[f[x]] \in Nat
      BY DEF Fits
    <3>2. d[f[x]] <= r.max
      BY <2>1, <3>1 DEF Most
    <3> QED
      BY <2>2, <2>4, <3>1, <3>2
  <2> QED
    BY <2>1, <2>2, <2>3, <2>4 DEF Most
<1> QED
  BY <1>1, <1>2, <1>3 DEF NoMore

\* The longest time that is no gap.
Brief == (Threshold + 1) * PerMilli - 1

LEMMA MillisecondsAre ==
  ASSUME NEW v \in Int
  PROVE  /\ Brief \in Nat /\ PerMilli \in Nat \ {0} /\ Timing!Milliseconds(v) \in Int
         /\ v >= 0 => Timing!Milliseconds(v) = v \div PerMilli
         /\ v < 0 => Timing!Milliseconds(v) = -((-v) \div PerMilli)
         /\ Timing!Milliseconds(v) > Threshold <=> v > Brief
         /\ v > Brief <=> v >= (Threshold + 1) * PerMilli
<1>1. Threshold \in Nat /\ PerMilli \in Nat \ {0}
  BY InputAssumption
<1>2. PICK t \in Nat, p \in Nat \ {0} : t = Threshold /\ p = PerMilli
  BY <1>1
<1>3. PICK z \in Nat : z = (t + 1) * p
  OBVIOUS
<1>4. z >= p
  <2>1. (t + 1) * p = t * p + p /\ t * p \in Nat
    OBVIOUS
  <2> QED
    BY <1>3, <2>1
<1>5. Brief = z - 1 /\ Brief \in Nat /\ (v > Brief <=> v >= z)
  BY <1>2, <1>3, <1>4 DEF Brief
<1>6. Timing!Milliseconds(v) = IF v < 0 THEN -((-v) \div p) ELSE v \div p
  BY <1>2 DEF Timing!Milliseconds
<1>7. CASE v >= 0
  <2>1. PICK q \in Nat : q = v \div p /\ q * p <= v /\ v < (q + 1) * p
    BY <1>7, Quotient
  <2>2. Timing!Milliseconds(v) = q
    BY <1>6, <1>7, <2>1
  <2>3. ASSUME q > t PROVE v >= z
    <3>1. q * p >= (t + 1) * p
      BY <2>3
    <3> QED
      BY <1>3, <2>1, <3>1
  <2>4. ASSUME ~(q > t) PROVE ~(v >= z)
    <3>1. (q + 1) * p <= (t + 1) * p
      BY <2>4
    <3> QED
      BY <1>3, <2>1, <3>1
  <2> QED
    BY <1>2, <1>3, <1>5, <1>7, <2>1, <2>2, <2>3, <2>4
<1>8. CASE v < 0
  <2>1. PICK u \in Nat : u = -v
    BY <1>8
  <2>2. PICK q \in Nat : q = u \div p
    BY Quotient
  <2>3. Timing!Milliseconds(v) = -q /\ ~(-q > t)
    BY <1>6, <1>8, <2>1, <2>2
  <2> QED
    BY <1>2, <1>3, <1>5, <1>8, <2>1, <2>2, <2>3
<1> QED
  BY <1>7, <1>8

LEMMA GapIs ==
  \A v \in Int : /\ Timing!Gap(v) = IF v >= 0 THEN v ELSE 0
                 /\ Timing!Overlap(v) = IF 0 >= v THEN -v ELSE 0
<1> SUFFICES ASSUME NEW v \in Int
             PROVE  /\ Timing!Gap(v) = IF v >= 0 THEN v ELSE 0
                    /\ Timing!Overlap(v) = IF 0 >= v THEN -v ELSE 0
  OBVIOUS
<1>1. \A A : Timing!Max(A) = Max(A)
  BY Zenon DEF Timing!Max, Max
<1>2. ASSUME NEW w \in Int PROVE Max({w, 0}) = IF w >= 0 THEN w ELSE 0
  <2>1. {w, 0} \subseteq Int
    OBVIOUS
  <2>2. Largest(IF w >= 0 THEN w ELSE 0, {w, 0})
    BY DEF Largest
  <2> QED
    BY <2>1, <2>2, MaxIs
<1>3. -v \in Int
  OBVIOUS
<1>4. Timing!Gap(v) = Max({v, 0}) /\ Timing!Overlap(v) = Max({-v, 0})
  BY <1>1 DEF Timing!Gap, Timing!Overlap
<1>5. Max({v, 0}) = (IF v >= 0 THEN v ELSE 0) /\ Max({-v, 0}) = (IF -v >= 0 THEN -v ELSE 0)
  BY <1>2, <1>3
<1>6. -v >= 0 <=> 0 >= v
  OBVIOUS
<1> QED
  BY <1>4, <1>5, <1>6

\* What a joint is short of, or has too much, in whole milliseconds.
LEMMA GapInParts ==
  ASSUME NEW a \in Nat, NEW b \in Nat, NEW v, v = Timing!Milliseconds(a - b),
         NEW g, g = IF a >= b THEN a - b ELSE 0, NEW o, o = IF b >= a THEN b - a ELSE 0
  PROVE  /\ Timing!Gap(v) \in Nat /\ Timing!Overlap(v) \in Nat
         /\ PerMilli * Timing!Gap(v) <= g /\ g <= PerMilli * Timing!Gap(v) + (PerMilli - 1)
         /\ PerMilli * Timing!Overlap(v) <= o
         /\ o <= PerMilli * Timing!Overlap(v) + (PerMilli - 1)
<1>1. PICK p \in Nat \ {0} : p = PerMilli
  BY InputAssumption
<1>2. ASSUME NEW n \in Nat
      PROVE  n \div p \in Nat /\ p * (n \div p) <= n /\ n <= p * (n \div p) + (p - 1)
  <2>1. PICK q \in Nat : q = n \div p /\ q * p <= n /\ n < (q + 1) * p
    BY Quotient
  <2>2. q * p = p * q /\ (q + 1) * p = p * q + p /\ p * q \in Nat
    OBVIOUS
  <2> QED
    BY <2>1, <2>2
<1>3. CASE a >= b
  <2>1. a - b \in Nat /\ g = a - b /\ o = 0
    BY <1>3
  <2>2. PICK q \in Nat : q = (a - b) \div p /\ p * q <= g /\ g <= p * q + (p - 1)
    BY <1>2, <2>1
  <2>3. v = q
    BY <1>1, <2>1, <2>2, MillisecondsAre
  <2>4. Timing!Gap(v) = q /\ Timing!Overlap(v) = 0
    BY <2>3, GapIs
  <2>5. p * 0 = 0
    OBVIOUS
  <2> QED
    BY <1>1, <2>1, <2>2, <2>4, <2>5
<1>4. CASE ~(a >= b)
  <2>1. b - a \in Nat /\ g = 0 /\ o = b - a /\ -(a - b) = b - a /\ a - b < 0 /\ a - b \in Int
    BY <1>4
  <2>2. PICK q \in Nat : q = (b - a) \div p /\ p * q <= o /\ o <= p * q + (p - 1)
    BY <1>2, <2>1
  <2>3. v = -q
    <3>1. Timing!Milliseconds(a - b) = -((-(a - b)) \div PerMilli)
      BY <2>1, MillisecondsAre
    <3> QED
      BY <1>1, <2>1, <2>2, <3>1
  <2>4. Timing!Gap(v) = 0 /\ Timing!Overlap(v) = q
    BY <2>3, GapIs
  <2>5. p * 0 = 0
    OBVIOUS
  <2> QED
    BY <1>1, <2>1, <2>2, <2>4, <2>5
<1> QED
  BY <1>3, <1>4

\* The frames es are along line in the order of their starts.
Placed(line, m, es, F) ==
  /\ m \in Nat /\ line \in [1..m -> es]
  /\ \A i \in es : \E k \in 1..m : line[k] = i
  /\ \A k, l \in 1..m : line[k] = line[l] => k = l
  /\ \A k, l \in 1..m : k <= l => F[line[k]].start <= F[line[l]].start

LEMMA TimelineSorts ==
  ASSUME NEW F, Recorded(F), NEW es \in SUBSET (1..Len(F))
  PROVE  IsFiniteSet(es) /\ Placed(Timing!Timeline(F, es), Cardinality(es), es, F)
<1> DEFINE le == {ik \in es \X es : Timing!NotLater(F, ik[1], ik[2])}
           m == Cardinality(es)
           line == Timing!Timeline(F, es)
<1>1. \A i, k \in es : <<i, k>> \in le <=> Timing!NotLater(F, i, k)
  OBVIOUS
<1>2. \A i, k \in es : Timing!NotLater(F, i, k) <=>
                         F[i].start < F[k].start \/ (F[i].start = F[k].start /\ i <= k)
  BY DEF Timing!NotLater
<1>3. \A i \in es : i \in Nat /\ F[i].start \in Nat
  BY DEF Recorded
<1>4. IsFiniteSet(es)
  <2>1. IsFiniteSet(1..Len(F))
    BY FS_Interval DEF Recorded
  <2> QED
    BY <2>1, FS_Subset
<1> HIDE DEF le
<1>5. /\ \A i \in es : <<i, i>> \in le
      /\ \A i, j \in es : <<i, j>> \in le \/ <<j, i>> \in le
      /\ \A i, j \in es : <<i, j>> \in le /\ <<j, i>> \in le => i = j
      /\ \A i, j, k \in es : <<i, j>> \in le /\ <<j, k>> \in le => <<i, k>> \in le
  <2>1. ASSUME NEW i \in es, NEW j \in es
        PROVE  /\ <<i, i>> \in le /\ (<<i, j>> \in le \/ <<j, i>> \in le)
               /\ (<<i, j>> \in le /\ <<j, i>> \in le) => i = j
    BY <1>1, <1>2, <1>3
  <2>2. ASSUME NEW i \in es, NEW j \in es, NEW k \in es, <<i, j>> \in le, <<j, k>> \in le
        PROVE  <<i, k>> \in le
    <3>1. /\ F[i].start < F[j].start \/ (F[i].start = F[j].start /\ i <= j)
          /\ F[j].start < F[k].start \/ (F[j].start = F[k].start /\ j <= k)
      BY <1>1, <1>2, <2>2
    <3>2. F[i].start < F[k].start \/ (F[i].start = F[k].start /\ i <= k)
      BY <1>3, <3>1
    <3> QED
      BY <1>1, <1>2, <3>2
  <2> QED
    BY <2>1, <2>2
<1>6. PlacedBy(line, m, es, le)
  <2>1. \A i \in es : {k \in es : Timing!NotLater(F, k, i)} = {k \in es : <<k, i>> \in le}
    BY <1>1
  <2>2. \A n : \A i \in es : Cardinality({k \in es : Timing!NotLater(F, k, i)}) = n
                               <=> Cardinality({k \in es : <<k, i>> \in le}) = n
    BY <2>1
  <2> DEFINE first(n) == CHOOSE i \in es : Cardinality({k \in es : Timing!NotLater(F, k, i)}) = n
             other(n) == CHOOSE i \in es : Cardinality({k \in es : <<k, i>> \in le}) = n
  <2>3. \A n : first(n) = other(n)
    BY <2>2, Zenon
  <2>4. line = [n \in 1..m |-> first(n)]
    BY Zenon DEF Timing!Timeline, Timing!Cardinality, Cardinality
  <2> HIDE DEF first, other
  <2>5. line = [n \in 1..m |-> other(n)]
    BY <2>3, <2>4
  <2> QED
    BY <2>5, Zenon DEF PlacedBy, other
<1>7. m \in Nat /\ SortedBy(line, m, es, le)
  BY <1>4, <1>5, <1>6, SortsByCount
<1> HIDE DEF m, line
<1>8. /\ line \in [1..m -> es] /\ \A i \in es : \E k \in 1..m : line[k] = i
      /\ \A k, l \in 1..m : line[k] = line[l] => k = l
  BY <1>7 DEF SortedBy, Bijection, Injection, Surjection, IsInjective
<1>9. ASSUME NEW k \in 1..m, NEW l \in 1..m, k <= l
      PROVE  F[line[k]].start <= F[line[l]].start
  <2>1. line[k] \in es /\ line[l] \in es
    BY <1>8
  <2>2. <<line[k], line[l]>> \in le
    BY <1>7, <1>9 DEF SortedBy
  <2>3. F[line[k]].start < F[line[l]].start \/ F[line[k]].start = F[line[l]].start
    BY <1>1, <1>2, <2>1, <2>2
  <2>4. F[line[k]].start \in Nat /\ F[line[l]].start \in Nat
    BY <1>3, <2>1
  <2> QED
    BY <2>3, <2>4
<1> QED
  BY <1>4, <1>7, <1>8, <1>9 DEF Placed, m, line

\* When the frames along line start and end.
StartsOf(F, line, m) == [k \in 1..m |-> F[line[k]].start]

EndsOf(F, line, m) == [k \in 1..m |-> F[line[k]].end]

LEMMA LineStretches ==
  ASSUME NEW F, Recorded(F), NEW es \in SUBSET (1..Len(F)), NEW m, NEW line,
         Placed(line, m, es, F)
  PROVE  Stretches(StartsOf(F, line, m), EndsOf(F, line, m), m)
<1>1. \A k \in 1..m : /\ F[line[k]].start \in Nat /\ F[line[k]].end \in Nat
                      /\ F[line[k]].start <= F[line[k]].end
  BY DEF Placed, Recorded
<1>2. m \in Nat /\ \A k, l \in 1..m : k <= l => F[line[k]].start <= F[line[l]].start
  BY DEF Placed
<1> QED
  BY <1>1, <1>2 DEF Stretches, StartsOf, EndsOf

LEMMA SilenceIsBetween ==
  ASSUME NEW F, Recorded(F), NEW es \in SUBSET (1..Len(F)), NEW m, NEW line,
         Placed(line, m, es, F)
  PROVE  Timing!Silence(F, es) = Between(StartsOf(F, line, m), EndsOf(F, line, m), m, Brief)
<1>1. PICK st, en : st = StartsOf(F, line, m) /\ en = EndsOf(F, line, m)
  OBVIOUS
<1>2. \A k \in 1..m : st[k] = F[line[k]].start /\ en[k] = F[line[k]].end /\ line[k] \in es
  BY <1>1 DEF StartsOf, EndsOf, Placed
<1>3. \A i \in es : \E k \in 1..m : line[k] = i
  BY DEF Placed
<1>4. \A k \in 1..m : st[k] \in Nat /\ en[k] \in Nat
  <2>1. Stretches(StartsOf(F, line, m), EndsOf(F, line, m), m)
    BY LineStretches
  <2>2. Stretches(st, en, m)
    BY <1>1, <2>1
  <2> QED
    BY <2>2 DEF Stretches
<1> DEFINE longest == (Threshold + 1) * PerMilli
<1>5. Timing!Silence(F, es) =
        {ab \in {F[i].end : i \in es} \X {F[i].start : i \in es} :
           ab[2] - ab[1] >= longest /\ \A i \in es : F[i].end <= ab[1] \/ ab[2] <= F[i].start}
  BY Zenon DEF Timing!Silence
<1> HIDE DEF longest
<1>6. {F[i].start : i \in es} = {st[k] : k \in 1..m} /\ {F[i].end : i \in es} = {en[k] : k \in 1..m}
  <2>1. \A k \in 1..m : \E i \in es : st[k] = F[i].start /\ en[k] = F[i].end
    BY <1>2
  <2>2. \A i \in es : \E k \in 1..m : st[k] = F[i].start /\ en[k] = F[i].end
    <3> SUFFICES ASSUME NEW i \in es
                 PROVE  \E k \in 1..m : st[k] = F[i].start /\ en[k] = F[i].end
      OBVIOUS
    <3>1. PICK k \in 1..m : line[k] = i
      BY <1>3
    <3> QED
      BY <1>2, <3>1
  <2> QED
    BY <2>1, <2>2
<1>7. \A a, b : (\A i \in es : F[i].end <= a \/ b <= F[i].start) <=>
                (\A k \in 1..m : en[k] <= a \/ b <= st[k])
  <2> TAKE a, b
  <2>1. ASSUME \A i \in es : F[i].end <= a \/ b <= F[i].start
        PROVE  \A k \in 1..m : en[k] <= a \/ b <= st[k]
    BY <1>2, <2>1
  <2>2. ASSUME \A k \in 1..m : en[k] <= a \/ b <= st[k], NEW i \in es
        PROVE  F[i].end <= a \/ b <= F[i].start
    <3>1. PICK k \in 1..m : line[k] = i
      BY <1>3
    <3> QED
      BY <1>2, <2>2, <3>1
  <2> QED
    BY <2>1, <2>2
<1>8. \A ab \in {en[k] : k \in 1..m} \X {st[k] : k \in 1..m} :
        ab[2] - ab[1] >= longest <=> ab[2] - ab[1] > Brief
  <2> SUFFICES ASSUME NEW a \in {en[k] : k \in 1..m}, NEW b \in {st[k] : k \in 1..m}
               PROVE  b - a >= longest <=> b - a > Brief
    OBVIOUS
  <2>1. b - a \in Int
    BY <1>4
  <2> QED
    BY <2>1, MillisecondsAre DEF longest
<1>9. Timing!Silence(F, es) =
        {ab \in {en[k] : k \in 1..m} \X {st[k] : k \in 1..m} :
           ab[2] - ab[1] > Brief /\ \A k \in 1..m : en[k] <= ab[1] \/ ab[2] <= st[k]}
  BY <1>5, <1>6, <1>7, <1>8
<1> QED
  BY <1>1, <1>9, Zenon DEF Between

LEMMA DriftsInLine ==
  ASSUME NEW F, Recorded(F), NEW es \in SUBSET (1..Len(F)), NEW m, m = Cardinality(es),
         NEW line, line = Timing!Timeline(F, es), Placed(line, m, es, F),
         NEW st, st = StartsOf(F, line, m), NEW en, en = EndsOf(F, line, m)
  PROVE  /\ Timing!Drifts(F, es) = [k \in 1..(m - 1) |-> Timing!Milliseconds(st[k + 1] - en[k])]
         /\ \A k \in 1..(m - 1) : st[k + 1] \in Nat /\ en[k] \in Nat
<1>1. m \in Nat /\ \A k \in 1..(m - 1) : k \in 1..m /\ k + 1 \in 1..m
  BY DEF Placed
<1>2. \A k \in 1..(m - 1) : /\ st[k + 1] = F[line[k + 1]].start /\ en[k] = F[line[k]].end
                            /\ st[k + 1] \in Nat /\ en[k] \in Nat
  <2>1. Stretches(st, en, m)
    BY LineStretches
  <2> QED
    BY <1>1, <2>1 DEF StartsOf, EndsOf, Stretches
<1>3. Timing!Drifts(F, es) =
        [k \in 1..(m - 1) |-> Timing!Milliseconds(F[line[k + 1]].start - F[line[k]].end)]
  <2>1. Timing!Drifts(F, es) =
          [k \in 1..(m - 1) |-> Timing!Drift(F, line[k], line[k + 1])]
    BY TimingCounts DEF Timing!Drifts
  <2> QED
    BY <2>1, Zenon DEF Timing!Drift
<1> QED
  BY <1>2, <1>3

\* The report of the frames es tells no less than their silences, and the same
\* if none outlasts another.
LEMMA SilencesAreTold ==
  ASSUME NEW F, Recorded(F), NEW es \in SUBSET (1..Len(F)), NEW rep,
         \E all : /\ all = Timing!Measured(Timing!Drifts(F, es))
                  /\ rep.gaps = all.gaps /\ rep.total = all.total /\ rep.max = all.max
  PROVE  /\ rep.total \in Nat /\ Timing!TellsSilences(F, es, rep)
         /\ (\A k \in DOMAIN Timing!Drifts(F, es) : ~(Timing!Drifts(F, es)[k] > Threshold))
              => rep.gaps = 0
<1>1. PICK m, line : m = Cardinality(es) /\ line = Timing!Timeline(F, es)
  OBVIOUS
<1>2. Placed(line, m, es, F)
  BY <1>1, TimelineSorts
<1>3. PICK st, en : st = StartsOf(F, line, m) /\ en = EndsOf(F, line, m)
  OBVIOUS
<1>4. Stretches(st, en, m) /\ Brief \in Nat /\ PerMilli \in Nat \ {0}
  BY <1>2, <1>3, LineStretches, MillisecondsAre
<1>5. PICK B, J : B = Between(st, en, m, Brief) /\ J = Joints(st, en, m, Brief)
  OBVIOUS
<1>6. PICK h, d : /\ h = InParts(LengthsOf(st, en, m, Brief), B, PerMilli)
                  /\ d = InParts(DriftsOf(st, en, m, Brief), J, PerMilli)
  OBVIOUS
<1>7. PICK drifts : drifts = Timing!Drifts(F, es)
  OBVIOUS
<1>8. /\ drifts = [k \in 1..(m - 1) |-> Timing!Milliseconds(st[k + 1] - en[k])]
      /\ \A k \in 1..(m - 1) : st[k + 1] - en[k] \in Int
  <2>1. /\ drifts = [k \in 1..(m - 1) |-> Timing!Milliseconds(st[k + 1] - en[k])]
        /\ \A k \in 1..(m - 1) : st[k + 1] \in Nat /\ en[k] \in Nat
    BY <1>1, <1>2, <1>3, <1>7, DriftsInLine
  <2> QED
    BY <2>1
<1>9. /\ J = {k \in DOMAIN drifts : drifts[k] > Threshold}
      /\ \A k \in J : drifts[k] = (st[k + 1] - en[k]) \div PerMilli
  <2>1. J = {k \in 1..(m - 1) : st[k + 1] - en[k] > Brief}
    BY <1>5 DEF Joints
  <2>2. ASSUME NEW k \in 1..(m - 1)
        PROVE  /\ drifts[k] > Threshold <=> st[k + 1] - en[k] > Brief
               /\ st[k + 1] - en[k] > Brief =>
                    drifts[k] = (st[k + 1] - en[k]) \div PerMilli
    <3>1. PICK v \in Int : v = st[k + 1] - en[k] /\ drifts[k] = Timing!Milliseconds(v)
      BY <1>8
    <3> QED
      BY <1>4, <3>1, MillisecondsAre
  <2>3. DOMAIN drifts = 1..(m - 1)
    BY <1>8
  <2> QED
    BY <2>1, <2>2, <2>3
<1>10. d = [k \in {k \in DOMAIN drifts : drifts[k] > Threshold} |-> drifts[k]]
  <2>1. d = [k \in J |-> (st[k + 1] - en[k]) \div PerMilli]
    BY <1>5, <1>6 DEF DriftsOf, InParts
  <2>2. d = [k \in J |-> drifts[k]]
    BY <1>9, <2>1
  <2> QED
    BY <1>9, <2>2
<1>11. PICK all, real : all = Timing!Tally(d) /\ real = Timing!Tally(h)
  OBVIOUS
<1>21. PICK f : Fits(f, h, B, d, J)
  BY <1>4, <1>5, <1>6, BetweenFitsJoints, FitsInParts
<1>22. IsFiniteSet(B) /\ IsFiniteSet(J) /\ h \in [B -> Nat] /\ d \in [J -> Nat]
  BY <1>21 DEF Fits
<1>12. Tallied(all, d, J) /\ Tallied(real, h, B)
  BY <1>11, <1>22, TallyTells
<1>13. rep.gaps = all.gaps /\ rep.total = all.total /\ rep.max = all.max
  <2>1. Timing!Measured(drifts) = all
    BY <1>10, <1>11, Zenon DEF Timing!Measured
  <2> QED
    BY <1>7, <2>1
<1>14. Timing!SilenceOf(F, es) = real
  <2>1. Timing!Silence(F, es) = B
    BY <1>2, <1>3, <1>5, SilenceIsBetween
  <2>2. h = [ab \in B |-> (ab[2] - ab[1]) \div PerMilli]
    BY <1>5, <1>6 DEF LengthsOf, InParts
  <2>3. ASSUME NEW ab \in B PROVE Timing!Milliseconds(ab[2] - ab[1]) = (ab[2] - ab[1]) \div PerMilli
    <3>1. ab[1] \in Nat /\ ab[2] \in Nat /\ ab[2] - ab[1] > Brief
      BY <1>4, <1>5, BetweenHasJoint
    <3>2. PICK v \in Int : v = ab[2] - ab[1] /\ v >= 0
      BY <1>4, <3>1
    <3> QED
      BY <3>2, MillisecondsAre
  <2>4. h = [ab \in B |-> Timing!Milliseconds(ab[2] - ab[1])]
    BY <2>2, <2>3
  <2> QED
    BY <1>11, <2>1, <2>4, Zenon DEF Timing!SilenceOf
<1>15. NoMore(real, all)
  BY <1>12, <1>21, TallyFits
<1>16. ASSUME Timing!InOrder(F, es) PROVE NoMore(all, real)
  <2>1. \A j, k \in 1..m : st[j] <= st[k] => en[j] <= en[k]
    <3>1. \A k \in 1..m : line[k] \in es /\ st[k] = F[line[k]].start /\ en[k] = F[line[k]].end
      BY <1>2, <1>3 DEF StartsOf, EndsOf, Placed
    <3>2. \A i, k \in es : F[i].start <= F[k].start => F[i].end <= F[k].end
      BY <1>16, Zenon DEF Timing!InOrder
    <3> QED
      BY <3>1, <3>2
  <2>2. PICK e : Fits(e, d, J, h, B)
    BY <1>4, <1>5, <1>6, <2>1, JointsFitBetween, FitsInParts
  <2> QED
    BY <1>12, <2>2, TallyFits
<1>17. rep.gaps >= real.gaps /\ rep.total >= real.total /\ rep.max >= real.max
  BY <1>13, <1>15 DEF NoMore
<1>18. ASSUME Timing!InOrder(F, es)
       PROVE  rep.gaps = real.gaps /\ rep.total = real.total /\ rep.max = real.max
  BY <1>13, <1>15, <1>16, <1>18 DEF NoMore
<1>19. Timing!TellsSilences(F, es, rep)
  BY <1>14, <1>17, <1>18, Zenon DEF Timing!TellsSilences
<1>20. ASSUME \A k \in DOMAIN drifts : ~(drifts[k] > Threshold) PROVE rep.gaps = 0
  <2>1. J = {}
    BY <1>9, <1>20
  <2>2. rep.gaps = Cardinality(J)
    BY <1>12, <1>13 DEF Tallied
  <2> QED
    BY <2>1, <2>2, FS_EmptySet
<1>23. rep.total \in Nat
  BY <1>13, <1>15 DEF NoMore
<1> QED
  BY <1>7, <1>19, <1>20, <1>23

\* The sum over the frames is that along their line.
LEMMA LengthsInLine ==
  ASSUME NEW F, Recorded(F), NEW es \in SUBSET (1..Len(F)), IsFiniteSet(es),
         NEW m, NEW line, Placed(line, m, es, F),
         NEW st, st = StartsOf(F, line, m), NEW en, en = EndsOf(F, line, m),
         NEW L, SumsUp(L, [k \in 1..m |-> en[k] - st[k]], 1..m)
  PROVE  Timing!SumFunction([i \in es |-> F[i].end - F[i].start]) = L[1..m]
<1> DEFINE len == [k \in 1..m |-> en[k] - st[k]]
           own == [i \in es |-> F[i].end - F[i].start]
<1>1. /\ m \in Nat /\ line \in [1..m -> es] /\ \A i \in es : \E k \in 1..m : line[k] = i
      /\ \A k, l \in 1..m : line[k] = line[l] => k = l
  BY DEF Placed
<1>2. \A i \in es : F[i].end - F[i].start \in Nat
  BY DEF Recorded
<1>3. own \in [es -> Nat]
  BY <1>2
<1>4. \A k \in 1..m : en[k] - st[k] = F[line[k]].end - F[line[k]].start
  BY DEF StartsOf, EndsOf
<1>5. len \in [1..m -> Nat] /\ \A k \in 1..m : len[k] = own[line[k]]
  BY <1>1, <1>2, <1>4
<1>6. SumsUp(L, len, 1..m) /\ IsFiniteSet(1..m)
  BY <1>1, FS_Interval
<1> HIDE DEF len, own
<1>7. PICK g : SumsUp(g, own, es) /\ Timing!SumFunction(own) = g[es]
  BY <1>3, TimingSum
<1>8. Fits(line, len, 1..m, own, es)
  <2>1. \A k \in 1..m : own[line[k]] \in Nat
    BY <1>1, <1>3
  <2>2. \A k \in 1..m : len[k] <= own[line[k]]
    BY <1>5, <2>1
  <2> QED
    BY <1>1, <1>3, <1>5, <1>6, <2>2, Zenon DEF Fits
<1>9. PICK f : f = [i \in es |-> CHOOSE k \in 1..m : line[k] = i]
  OBVIOUS
<1>10. \A i \in es : f[i] \in 1..m /\ line[f[i]] = i
  BY <1>1, <1>9
<1>11. Fits(f, own, es, len, 1..m)
  <2>1. f \in [es -> 1..m] /\ \A i, j \in es : f[i] = f[j] => i = j
    BY <1>9, <1>10
  <2>2. \A i \in es : own[i] <= len[f[i]]
    <3> SUFFICES ASSUME NEW i \in es PROVE own[i] <= len[f[i]]
      OBVIOUS
    <3>1. len[f[i]] = own[i] /\ own[i] \in Nat
      BY <1>3, <1>5, <1>10
    <3> QED
      BY <3>1
  <2> QED
    BY <1>3, <1>5, <1>6, <2>1, <2>2, Zenon DEF Fits
<1>12. L[1..m] <= g[es] /\ g[es] <= L[1..m] /\ L[1..m] \in Nat /\ g[es] \in Nat
  <2>1. L[1..m] \in Nat /\ g[es] \in Nat /\ L[1..m] <= g[es]
    BY <1>6, <1>7, <1>8, SumOfFitting
  <2>2. g[es] <= L[1..m]
    BY <1>6, <1>7, <1>11, SumOfFitting
  <2> QED
    BY <2>1, <2>2
<1> QED
  BY <1>7, <1>12 DEF own

\* Frames, gaps and overlaps account for the time from first to last, but for
\* less than a millisecond at each joint.
LEMMA AllAccounted ==
  ASSUME NEW F, Recorded(F), NEW es \in SUBSET (1..Len(F)), es # {}
  PROVE  Timing!AccountedFor(F, es)
<1>1. PICK m, line : m = Cardinality(es) /\ line = Timing!Timeline(F, es)
  OBVIOUS
<1>2. Placed(line, m, es, F) /\ IsFiniteSet(es)
  BY <1>1, TimelineSorts
<1>3. PICK st, en : st = StartsOf(F, line, m) /\ en = EndsOf(F, line, m)
  OBVIOUS
<1>4. Stretches(st, en, m)
  BY <1>2, <1>3, LineStretches
<1>5. m \in Nat /\ m # 0
  BY <1>1, <1>2, FS_EmptySet DEF Placed
<1>6. PICK J : J = 1..(m - 1)
  OBVIOUS
<1>7. IsFiniteSet(J) /\ IsFiniteSet(1..m) /\ Cardinality(J) = m - 1
  <2>1. m - 1 \in Nat
    BY <1>5
  <2>2. Cardinality(1..(m - 1)) = m - 1
    BY <2>1, FS_Interval
  <2> QED
    BY <1>5, <1>6, <2>1, <2>2, FS_Interval
<1>8. PICK drifts : drifts = Timing!Drifts(F, es)
  OBVIOUS
<1>9. /\ drifts = [k \in J |-> Timing!Milliseconds(st[k + 1] - en[k])]
      /\ \A k \in J : st[k + 1] \in Nat /\ en[k] \in Nat
  BY <1>1, <1>2, <1>3, <1>6, <1>8, DriftsInLine
<1>10. PICK gap, lap, len, most, less :
         /\ gap = [k \in J |-> IF st[k + 1] >= en[k] THEN st[k + 1] - en[k] ELSE 0]
         /\ lap = [k \in J |-> IF en[k] >= st[k + 1] THEN en[k] - st[k + 1] ELSE 0]
         /\ len = [k \in 1..m |-> en[k] - st[k]]
         /\ most = [k \in DOMAIN drifts |-> Timing!Gap(drifts[k])]
         /\ less = [k \in DOMAIN drifts |-> Timing!Overlap(drifts[k])]
  OBVIOUS
<1>11. gap \in [J -> Nat] /\ lap \in [J -> Nat] /\ len \in [1..m -> Nat]
  <2>1. \A a, b \in Nat : (IF a >= b THEN a - b ELSE 0) \in Nat
    OBVIOUS
  <2>2. \A k \in 1..m : st[k] \in Nat /\ en[k] \in Nat /\ st[k] <= en[k]
    BY <1>4 DEF Stretches
  <2>3. \A k \in 1..m : en[k] - st[k] \in Nat
    BY <2>2
  <2> QED
    BY <1>9, <1>10, <2>1, <2>3
<1>12. PICK p \in Nat \ {0} : p = PerMilli
  BY InputAssumption
<1>13. ASSUME NEW k \in J
       PROVE  /\ most[k] \in Nat /\ less[k] \in Nat
              /\ p * most[k] <= gap[k] /\ gap[k] <= p * most[k] + (p - 1)
              /\ p * less[k] <= lap[k] /\ lap[k] <= p * less[k] + (p - 1)
  <2>1. PICK a \in Nat, b \in Nat : a = st[k + 1] /\ b = en[k]
    BY <1>9
  <2>2. PICK v : v = Timing!Milliseconds(a - b)
    OBVIOUS
  <2>3. most[k] = Timing!Gap(v) /\ less[k] = Timing!Overlap(v)
    BY <1>9, <1>10, <2>1, <2>2
  <2>4. /\ gap[k] = IF a >= b THEN a - b ELSE 0
        /\ lap[k] = IF b >= a THEN b - a ELSE 0
    BY <1>10, <2>1
  <2> QED
    BY <1>12, <2>2, <2>3, <2>4, GapInParts
<1>14. most \in [J -> Nat] /\ less \in [J -> Nat]
  <2>1. DOMAIN drifts = J
    BY <1>9
  <2>2. most = [k \in J |-> most[k]] /\ less = [k \in J |-> less[k]]
    BY <1>10, <2>1
  <2> QED
    BY <1>13, <2>2
<1>15. PICK G, O, L, M, N :
         /\ SumsUp(G, gap, J) /\ SumsUp(O, lap, J) /\ SumsUp(L, len, 1..m)
         /\ SumsUp(M, most, J) /\ Timing!SumFunction(most) = M[J]
         /\ SumsUp(N, less, J) /\ Timing!SumFunction(less) = N[J]
  <2>1. PICK G : SumsUp(G, gap, J)
    BY <1>7, <1>11, SumExists
  <2>2. PICK O : SumsUp(O, lap, J)
    BY <1>7, <1>11, SumExists
  <2>3. PICK L : SumsUp(L, len, 1..m)
    BY <1>7, <1>11, SumExists
  <2>4. PICK M : SumsUp(M, most, J) /\ Timing!SumFunction(most) = M[J]
    BY <1>7, <1>14, TimingSum
  <2>5. PICK N : SumsUp(N, less, J) /\ Timing!SumFunction(less) = N[J]
    BY <1>7, <1>14, TimingSum
  <2> QED
    BY <2>1, <2>2, <2>3, <2>4, <2>5
<1>16. Timing!SumFunction([i \in es |-> F[i].end - F[i].start]) = L[1..m]
  BY <1>2, <1>3, <1>10, <1>15, LengthsInLine
<1>17. /\ G[J] \in Nat /\ O[J] \in Nat /\ L[1..m] \in Nat
       /\ en[m] - st[1] = L[1..m] + G[J] - O[J]
  <2>1. gap = Gapped(st, en, m) /\ lap = Lapped(st, en, m) /\ len = Lasting(st, en, m)
    BY <1>6, <1>10 DEF Gapped, Lapped, Lasting
  <2>2. /\ G[1..(m - 1)] \in Nat /\ O[1..(m - 1)] \in Nat /\ L[1..m] \in Nat
        /\ en[m] - st[1] = L[1..m] + G[1..(m - 1)] - O[1..(m - 1)]
    BY <1>4, <1>5, <1>6, <1>15, <2>1, Telescope
  <2> QED
    BY <1>6, <2>2
<1>18. Timing!Extent(F, es) = en[m] - st[1]
  <2>1. 1 \in 1..m /\ m \in 1..m
    BY <1>5
  <2>2. en[m] = F[line[m]].end /\ st[1] = F[line[1]].start
    BY <1>3, <2>1 DEF StartsOf, EndsOf
  <2>3. Timing!Extent(F, es) = F[line[m]].end - F[line[1]].start
    BY <1>1, TimingCounts DEF Timing!Extent
  <2> QED
    BY <2>2, <2>3
<1>19. Timing!Accounted(F, es) = L[1..m] + p * M[J] - p * N[J]
  <2>1. Timing!Accounted(F, es) =
          Timing!SumFunction([i \in es |-> F[i].end - F[i].start])
            + PerMilli * Timing!SumFunction([k \in DOMAIN drifts |-> Timing!Gap(drifts[k])])
            - PerMilli * Timing!SumFunction([k \in DOMAIN drifts |-> Timing!Overlap(drifts[k])])
    BY <1>8, Zenon DEF Timing!Accounted
  <2> QED
    BY <1>10, <1>12, <1>15, <1>16, <2>1
<1>20. /\ M[J] \in Nat /\ p * M[J] <= G[J] /\ G[J] <= p * M[J] + (p - 1) * (m - 1)
       /\ N[J] \in Nat /\ p * N[J] <= O[J] /\ O[J] <= p * N[J] + (p - 1) * (m - 1)
  <2>1. p - 1 \in Nat
    OBVIOUS
  <2>2. /\ M[J] \in Nat /\ p * M[J] <= G[J]
        /\ G[J] <= p * M[J] + (p - 1) * Cardinality(J)
    BY <1>7, <1>11, <1>13, <1>14, <1>15, <2>1, SumOfParted
  <2>3. /\ N[J] \in Nat /\ p * N[J] <= O[J]
        /\ O[J] <= p * N[J] + (p - 1) * Cardinality(J)
    BY <1>7, <1>11, <1>13, <1>14, <1>15, <2>1, SumOfParted
  <2> QED
    BY <1>7, <2>2, <2>3
<1>21. PICK g \in Nat, o \in Nat, l \in Nat, u \in Nat, w \in Nat, z \in Nat :
         /\ g = G[J] /\ o = O[J] /\ l = L[1..m] /\ u = p * M[J] /\ w = p * N[J]
         /\ z = (p - 1) * (m - 1)
  <2>1. p \in Nat /\ (p - 1) \in Nat /\ (m - 1) \in Nat
    BY <1>5
  <2>2. PICK a \in Nat, b \in Nat, c \in Nat, d \in Nat, q \in Nat :
          a = p /\ b = M[J] /\ c = N[J] /\ d = p - 1 /\ q = m - 1
    BY <1>20, <2>1
  <2>3. a * b \in Nat /\ a * c \in Nat /\ d * q \in Nat
    OBVIOUS
  <2>4. p * M[J] \in Nat /\ p * N[J] \in Nat /\ (p - 1) * (m - 1) \in Nat
    BY <2>2, <2>3
  <2> QED
    BY <1>17, <2>4
<1>22. PICK x \in Int : x = Timing!Extent(F, es) - Timing!Accounted(F, es) /\ -z <= x /\ x <= z
  <2>1. u <= g /\ g <= u + z /\ w <= o /\ o <= w + z
    BY <1>20, <1>21
  <2>2. Timing!Extent(F, es) - Timing!Accounted(F, es) = (l + g - o) - (l + u - w)
    BY <1>17, <1>18, <1>19, <1>21
  <2>3. /\ (l + g - o) - (l + u - w) \in Int /\ -z <= (l + g - o) - (l + u - w)
        /\ (l + g - o) - (l + u - w) <= z
    BY <2>1
  <2> QED
    BY <2>2, <2>3
<1>23. Timing!AbsI64(x) <= z
  BY <1>22 DEF Timing!AbsI64
<1>24. z = (PerMilli - 1) * (Timing!Cardinality(es) - 1)
  BY <1>1, <1>12, <1>21, TimingCounts
<1>25. Timing!AbsI64(Timing!Extent(F, es) - Timing!Accounted(F, es))
         <= (PerMilli - 1) * (Timing!Cardinality(es) - 1)
  BY <1>22, <1>23, <1>24
<1> QED
  BY <1>25, Zenon DEF Timing!AccountedFor

\* A summary has the report of every channel of open, once, the worst first.
Summed(summary, reports, open) ==
  /\ Len(summary) = Cardinality(open)
  /\ {summary[k].channel : k \in 1..Len(summary)} = open
  /\ \A k \in 2..Len(summary) : summary[k - 1].total >= summary[k].total

LEMMA SummarySorts ==
  ASSUME NEW open \in SUBSET Nat, IsFiniteSet(open), NEW reports,
         \A c \in open : reports[c].total \in Nat /\ reports[c].channel = c,
         NEW summary, summary = Timing!WorstFirst(reports, open)
  PROVE  Summed(summary, reports, open)
<1> DEFINE le == {bc \in open \X open : Timing!NotBehind(reports, bc[1], bc[2])}
           m == Cardinality(open)
           first(n) == CHOOSE c \in open : Cardinality({b \in open : Timing!NotBehind(reports, b, c)}) = n
           other(n) == CHOOSE c \in open : Cardinality({b \in open : <<b, c>> \in le}) = n
<1>1. \A b, c \in open : <<b, c>> \in le <=> Timing!NotBehind(reports, b, c)
  OBVIOUS
<1>2. \A b, c \in open : Timing!NotBehind(reports, b, c) <=>
        reports[b].total > reports[c].total \/ (reports[b].total = reports[c].total /\ b <= c)
  BY DEF Timing!NotBehind
<1>3. \A c \in open : c \in Nat /\ reports[c].total \in Nat
  OBVIOUS
<1>4. \A n : first(n) = other(n)
  <2> HIDE DEF le
  <2>1. \A c \in open : {b \in open : Timing!NotBehind(reports, b, c)} = {b \in open : <<b, c>> \in le}
    BY <1>1
  <2>2. \A n : \A c \in open : Cardinality({b \in open : Timing!NotBehind(reports, b, c)}) = n
                               <=> Cardinality({b \in open : <<b, c>> \in le}) = n
    BY <2>1
  <2> QED
    BY <2>2, Zenon
<1> HIDE DEF le
<1>5. PICK pos : pos = [n \in 1..m |-> other(n)]
  OBVIOUS
<1>6. PlacedBy(pos, m, open, le)
  BY <1>5, Zenon DEF PlacedBy
<1>7. summary = [n \in 1..m |-> reports[pos[n]]]
  <2>1. summary = [n \in 1..m |-> reports[first(n)]]
    BY Zenon DEF Timing!WorstFirst, Timing!Cardinality, Cardinality
  <2> HIDE DEF first, other
  <2> QED
    BY <1>4, <1>5, <2>1
<1> HIDE DEF first, other
<1>8. /\ \A i \in open : <<i, i>> \in le
      /\ \A i, j \in open : <<i, j>> \in le \/ <<j, i>> \in le
      /\ \A i, j \in open : <<i, j>> \in le /\ <<j, i>> \in le => i = j
      /\ \A i, j, k \in open : <<i, j>> \in le /\ <<j, k>> \in le => <<i, k>> \in le
  <2>1. ASSUME NEW i \in open, NEW j \in open
        PROVE  /\ <<i, i>> \in le /\ (<<i, j>> \in le \/ <<j, i>> \in le)
               /\ (<<i, j>> \in le /\ <<j, i>> \in le) => i = j
    BY <1>1, <1>2, <1>3
  <2>2. ASSUME NEW i \in open, NEW j \in open, NEW k \in open, <<i, j>> \in le, <<j, k>> \in le
        PROVE  <<i, k>> \in le
    <3>1. PICK a \in Nat, b \in Nat, c \in Nat :
            a = reports[i].total /\ b = reports[j].total /\ c = reports[k].total
      BY <1>3
    <3>2. (a > b \/ (a = b /\ i <= j)) /\ (b > c \/ (b = c /\ j <= k))
      BY <1>1, <1>2, <2>2, <3>1
    <3>3. a > c \/ (a = c /\ i <= k)
      BY <1>3, <3>2
    <3> QED
      BY <1>1, <1>2, <3>1, <3>3
  <2> QED
    BY <2>1, <2>2
<1>9. m \in Nat /\ SortedBy(pos, m, open, le)
  BY <1>6, <1>8, SortsByCount
<1> HIDE DEF m
<1>10. pos \in [1..m -> open] /\ \A c \in open : \E k \in 1..m : pos[k] = c
  BY <1>9 DEF SortedBy, Bijection, Injection, Surjection
<1>11. Len(summary) = m /\ \A k \in 1..m : summary[k] = reports[pos[k]]
  <2>1. DOMAIN summary = 1..m /\ summary = [k \in 1..m |-> summary[k]]
    BY <1>7
  <2> QED
    BY <1>7, <1>9, <2>1, LengthIs
<1>12. {summary[k].channel : k \in 1..m} = open
  <2>1. \A k \in 1..m : summary[k].channel = pos[k] /\ pos[k] \in open
    BY <1>10, <1>11
  <2>2. {summary[k].channel : k \in 1..m} = {pos[k] : k \in 1..m}
    BY <2>1
  <2> QED
    BY <1>10, <2>2
<1>13. ASSUME NEW k \in 2..m PROVE summary[k - 1].total >= summary[k].total
  <2>1. k - 1 \in 1..m /\ k \in 1..m /\ k - 1 <= k
    BY <1>9
  <2>2. <<pos[k - 1], pos[k]>> \in le /\ pos[k - 1] \in open /\ pos[k] \in open
    BY <1>9, <1>10, <2>1 DEF SortedBy
  <2>3. PICK a \in Nat, b \in Nat : a = reports[pos[k - 1]].total /\ b = reports[pos[k]].total
    BY <1>3, <2>2
  <2>4. a > b \/ a = b
    BY <1>1, <1>2, <2>2, <2>3
  <2>5. summary[k - 1].total = a /\ summary[k].total = b
    BY <1>11, <2>1, <2>3
  <2> QED
    BY <2>3, <2>4, <2>5
<1> QED
  BY <1>11, <1>12, <1>13 DEF m, Summed

\* The times and channels of a table of frames.
LEMMA FramesAreRecorded ==
  ASSUME frames \in Seq(StoredFrame)
  PROVE  /\ Recorded(frames) /\ Channels \in SUBSET Nat /\ IsFiniteSet(Channels)
         /\ \A to \in Ends : to \in Nat \ {0}
<1>1. Len(frames) \in Nat /\ \A i \in 1..Len(frames) : frames[i] \in StoredFrame
  OBVIOUS
<1>2. \A f \in StoredFrame : f.channel \in Nat /\ f.start \in Nat /\ f.end \in Nat /\ f.start <= f.end
  <2> SUFFICES ASSUME NEW f \in StoredFrame
               PROVE  f.channel \in Nat /\ f.start \in Nat /\ f.end \in Nat /\ f.start <= f.end
    OBVIOUS
  <2>1. f \in [channel : Nat, start : Nat, end : Nat] /\ f.start < f.end
    BY InputAssumption
  <2> QED
    BY <2>1
<1>3. \A f \in Range(frames) : f \in StoredFrame
  BY <1>1 DEF Range
<1>4. \A to \in Ends : to \in Nat \ {0}
  BY <1>2, <1>3 DEF Ends
<1>5. IsFiniteSet(Channels) /\ Channels \in SUBSET Nat
  BY <1>2, InputAssumption DEF Channels
<1> QED
  BY <1>1, <1>2, <1>4, <1>5 DEF Recorded

LEMMA GapsHold ==
  ASSUME frames \in Seq(StoredFrame)
  PROVE  GapsAreSilences
<1>1. /\ Recorded(frames) /\ Channels \in SUBSET Nat /\ IsFiniteSet(Channels)
      /\ \A to \in Ends : to \in Nat \ {0}
  BY FramesAreRecorded
<1>2. Threshold \in Nat
  BY InputAssumption
<1>3. \A ch, to : Timing!InRange(frames, ch, 0, to) \in SUBSET (1..Len(frames))
  BY DEF Timing!InRange
<1>4. ASSUME NEW ch, NEW to, NEW es, es = Timing!InRange(frames, ch, 0, to),
             NEW rep, rep = Timing!Analyze(frames, ch, 0, to)
      PROVE  /\ rep.channel = ch
             /\ \E all : /\ all = Timing!Measured(Timing!Drifts(frames, es))
                         /\ rep.gaps = all.gaps /\ rep.total = all.total /\ rep.max = all.max
  <2>1. PICK all : all = Timing!Measured(Timing!Drifts(frames, es))
    OBVIOUS
  <2>2. rep = [channel |-> ch, frames |-> Timing!Cardinality(es),
               gaps |-> all.gaps, total |-> all.total, max |-> all.max]
    BY <1>4, <2>1, Zenon DEF Timing!Analyze
  <2> QED
    BY <2>1, <2>2
<1>5. ASSUME NEW to \in Ends, NEW ch \in Channels,
             NEW es, es = Timing!InRange(frames, ch, 0, to),
             NEW rep, rep = Timing!Analyze(frames, ch, 0, to),
             NEW drifts, drifts = Timing!Drifts(frames, es)
      PROVE  /\ Timing!TellsSilences(frames, es, rep)
             /\ \A tolerance \in 0..Threshold, period \in 0..((Threshold + 1) * PerMilli) :
                  (\A k \in DOMAIN drifts : Timing!Continuous(drifts[k], tolerance, period))
                    => rep.gaps = 0
             /\ es # {} => Timing!AccountedFor(frames, es)
  <2>1. es \in SUBSET (1..Len(frames))
    BY <1>3, <1>5
  <2>2. /\ Timing!TellsSilences(frames, es, rep)
        /\ (\A k \in DOMAIN drifts : ~(drifts[k] > Threshold)) => rep.gaps = 0
    BY <1>1, <1>4, <1>5, <2>1, SilencesAreTold
  <2>3. ASSUME NEW tolerance \in 0..Threshold, NEW period \in 0..((Threshold + 1) * PerMilli),
               \A k \in DOMAIN drifts : Timing!Continuous(drifts[k], tolerance, period)
        PROVE  rep.gaps = 0
    <3>1. \A k \in DOMAIN drifts : drifts[k] \in Int
      <4>1. PICK m, line : m = Cardinality(es) /\ line = Timing!Timeline(frames, es)
        OBVIOUS
      <4>2. Placed(line, m, es, frames)
        BY <1>1, <2>1, <4>1, TimelineSorts
      <4>3. PICK st, en : st = StartsOf(frames, line, m) /\ en = EndsOf(frames, line, m)
        OBVIOUS
      <4>4. /\ drifts = [k \in 1..(m - 1) |-> Timing!Milliseconds(st[k + 1] - en[k])]
            /\ \A k \in 1..(m - 1) : st[k + 1] \in Nat /\ en[k] \in Nat
        BY <1>1, <1>5, <2>1, <4>1, <4>2, <4>3, DriftsInLine
      <4>5. \A k \in 1..(m - 1) : st[k + 1] - en[k] \in Int
        BY <4>4
      <4> QED
        BY <4>4, <4>5, MillisecondsAre
    <3>2. ASSUME NEW k \in DOMAIN drifts PROVE ~(drifts[k] > Threshold)
      <4>1. PICK v \in Int : v = drifts[k]
        BY <3>1
      <4>2. Timing!Continuous(v, tolerance, period)
        BY <2>3, <4>1
      <4>3. v = 0 \/ ~(Timing!AbsI64(v) > Timing!AbsI64(tolerance))
        BY <4>2 DEF Timing!Continuous, Timing!IsClockJump
      <4>4. /\ Timing!AbsI64(v) = IF v < 0 THEN -v ELSE v
            /\ Timing!AbsI64(tolerance) = IF tolerance < 0 THEN -tolerance ELSE tolerance
        BY DEF Timing!AbsI64
      <4>5. tolerance \in Int /\ 0 <= tolerance /\ tolerance <= Threshold
        BY <1>2
      <4>6. ~(v > Threshold)
        BY <1>2, <4>3, <4>4, <4>5
      <4> QED
        BY <4>1, <4>6
    <3> QED
      BY <2>2, <3>2
  <2>4. es # {} => Timing!AccountedFor(frames, es)
    BY <1>1, <2>1, AllAccounted
  <2> QED
    BY <2>2, <2>3, <2>4
<1>6. ASSUME NEW to \in Ends, NEW closed \in SUBSET Channels,
             NEW summary, summary = Timing!ChannelGapSummary(frames, Channels, closed, 0, to)
      PROVE  /\ Len(summary) = Cardinality(Channels \ closed)
             /\ {summary[k].channel : k \in 1..Len(summary)} = Channels \ closed
             /\ \A k \in 2..Len(summary) : summary[k - 1].total >= summary[k].total
  <2>1. PICK open : open = {ch \in Channels : Timing!Analyzable(ch, closed, 0, to)}
    OBVIOUS
  <2>2. open = Channels \ closed
    <3>1. 0 < to
      BY <1>1
    <3> QED
      BY <2>1, <3>1 DEF Timing!Analyzable
  <2>3. PICK reports : reports = [ch \in open |-> Timing!Analyze(frames, ch, 0, to)]
    OBVIOUS
  <2>4. ASSUME NEW c \in open PROVE reports[c].total \in Nat /\ reports[c].channel = c
    <3>1. PICK es, rep : es = Timing!InRange(frames, c, 0, to) /\ rep = Timing!Analyze(frames, c, 0, to)
      OBVIOUS
    <3>2. rep.channel = c /\ \E all : /\ all = Timing!Measured(Timing!Drifts(frames, es))
                                      /\ rep.gaps = all.gaps /\ rep.total = all.total /\ rep.max = all.max
      BY <1>4, <3>1
    <3>3. es \in SUBSET (1..Len(frames))
      BY <1>3, <3>1
    <3>4. rep.total \in Nat
      BY <1>1, <3>2, <3>3, SilencesAreTold
    <3> QED
      BY <2>3, <3>1, <3>2, <3>4
  <2>5. summary = Timing!WorstFirst(reports, open)
    BY <1>6, <2>1, <2>3, Zenon DEF Timing!ChannelGapSummary
  <2>6. open \in SUBSET Nat /\ IsFiniteSet(open)
    BY <1>1, <2>2, FS_Subset
  <2>7. Summed(summary, reports, open)
    BY <2>4, <2>5, <2>6, SummarySorts
  <2> QED
    BY <2>2, <2>7 DEF Summed
<1> QED
  BY <1>5, <1>6, Zenon DEF GapsAreSilences

LEMMA FramesAreStored == LibrarySpec => [](frames \in Seq(StoredFrame))
<1>1. LibraryInit => frames \in Seq(StoredFrame)
  BY DEF LibraryInit, Init
<1>2. frames \in Seq(StoredFrame) /\ [LibraryNext]_libraryVars => (frames \in Seq(StoredFrame))'
  <2> SUFFICES ASSUME frames \in Seq(StoredFrame), [LibraryNext]_libraryVars
               PROVE  frames' \in Seq(StoredFrame)
    OBVIOUS
  <2>1. CASE part = "telemetry" /\ Next
    <3>1. frames' = frames \/ \E f \in StoredFrame : frames' = Append(frames, f)
      BY <2>1 DEF Next, Sampled, Detected, Stored
    <3> QED
      BY <3>1
  <2>2. CASE UNCHANGED telemetryVars
    BY <2>2 DEF telemetryVars
  <2>3. CASE UNCHANGED libraryVars
    BY <2>3 DEF libraryVars, telemetryVars
  <2> QED
    BY <2>1, <2>2, <2>3 DEF LibraryNext
<1> QED
  BY <1>1, <1>2, PTL DEF LibrarySpec

\* Whatever frames are stored and in whatever order, the analysis of a channel
\* reports no fewer gaps than there are silences a millisecond longer than the
\* threshold, in number, whole milliseconds and maximum, and exactly those if no
\* frame outlasts a later one; joints that VerifyTiming calls continuous are no
\* gaps; what the frames, the gaps and the overlaps account for is the time from
\* first to last, but for less than a millisecond a joint; and the summary has
\* every channel that is not closed, the worst first.
THEOREM GapsAreRight == LibrarySpec => []GapsAreSilences
<1>1. frames \in Seq(StoredFrame) => GapsAreSilences
  BY GapsHold
<1>2. LibrarySpec => [](frames \in Seq(StoredFrame))
  BY FramesAreStored
<1> QED
  BY <1>1, <1>2, PTL
-----------------------------------------------------------------------------
(* The health scores. *)

\* The events of a list have what is asked of them.
Scored(E) ==
  /\ Len(E) \in Nat
  /\ \A i \in 1..Len(E) : /\ E[i].station \in Nat /\ E[i].at \in Nat /\ E[i].at <= Now
                          /\ E[i].severity \in {"critical", "warn", "info"}

LEMMA HealthNames ==
  /\ \A S : Health!Cardinality(S) = Cardinality(S)
  /\ \A S : Health!Max(S) = Max(S) /\ Health!Min(S) = Min(S) /\ Health!Range(S) = Range(S)
<1>1. \A S : Health!Cardinality(S) = Cardinality(S)
  BY Zenon DEF Health!Cardinality, Cardinality
<1>2. \A S : Health!Max(S) = Max(S) /\ Health!Min(S) = Min(S) /\ Health!Range(S) = Range(S)
  BY Zenon DEF Health!Max, Max, Health!Min, Min, Health!Range, Range
<1> QED
  BY <1>1, <1>2

LEMMA HealthSum ==
  ASSUME NEW S, IsFiniteSet(S), NEW h \in [S -> Nat]
  PROVE  \E g : SumsUp(g, h, S) /\ Health!SumFunction(h) = g[S]
<1> DEFINE g == CHOOSE g : SumsUp(g, h, S)
<1>1. SumsUp(g, h, S)
  BY SumExists, Zenon
<1>2. DOMAIN h = S
  OBVIOUS
<1>3. Health!SumFunction(h) = g[S]
  BY <1>2, Zenon DEF Health!SumFunction, Health!SumFunctionOnSet, Health!FoldFunctionOnSet,
       Health!MapThenFoldSet, SumsUp
<1> HIDE DEF g
<1> QED
  BY <1>1, <1>3

LEMMA PlainSum ==
  ASSUME NEW S, IsFiniteSet(S), NEW h \in [S -> Nat]
  PROVE  \E g : SumsUp(g, h, S) /\ SumFunction(h) = g[S]
<1> DEFINE g == CHOOSE g : SumsUp(g, h, S)
<1>1. SumsUp(g, h, S)
  BY SumExists, Zenon
<1>2. DOMAIN h = S
  OBVIOUS
<1>3. SumFunction(h) = g[S]
  BY <1>2, Zenon DEF SumFunction, SumFunctionOnSet, FoldFunctionOnSet, MapThenFoldSet, SumsUp
<1> HIDE DEF g
<1> QED
  BY <1>1, <1>3

\* The open ones among es, and their penalties.
OpenAmong(E, es) == {e \in es : Health!IsOpen(E, e)}

Prices(E, es) == [e \in OpenAmong(E, es) |-> Health!Penalty[E[e].severity]]

\* g adds them up, and p points are left.
Left(p, g, E, es) ==
  /\ SumsUp(g, Prices(E, es), OpenAmong(E, es)) /\ g[OpenAmong(E, es)] \in Nat
  /\ p = IF g[OpenAmong(E, es)] >= Perfect THEN 0 ELSE Perfect - g[OpenAmong(E, es)]

LEMMA PointsAreLeft ==
  ASSUME NEW E, Scored(E), NEW es \in SUBSET (1..Len(E))
  PROVE  /\ IsFiniteSet(OpenAmong(E, es)) /\ Prices(E, es) \in [OpenAmong(E, es) -> Nat]
         /\ \E g : Left(Health!PointsLeft(E, es), g, E, es)
         /\ Perfect \in Nat \ {0}
<1>1. PICK S, h, p : S = OpenAmong(E, es) /\ h = Prices(E, es) /\ p = Health!PointsLeft(E, es)
  OBVIOUS
<1>2. S \in SUBSET (1..Len(E))
  BY <1>1 DEF OpenAmong
<1>3. IsFiniteSet(S)
  <2>1. IsFiniteSet(1..Len(E))
    BY FS_Interval DEF Scored
  <2> QED
    BY <1>2, <2>1, FS_Subset
<1>4. h = [e \in S |-> Health!Penalty[E[e].severity]]
  BY <1>1 DEF Prices
<1>5. h \in [S -> Nat]
  <2>1. \A e \in S : Health!Penalty[E[e].severity] \in Nat
    <3> SUFFICES ASSUME NEW e \in S PROVE Health!Penalty[E[e].severity] \in Nat
      OBVIOUS
    <3>1. E[e].severity \in {"critical", "warn", "info"}
      BY <1>2 DEF Scored
    <3> QED
      BY <3>1 DEF Health!Penalty
  <2> QED
    BY <1>4, <2>1
<1>6. PICK g : SumsUp(g, h, S) /\ Health!SumFunction(h) = g[S]
  BY <1>3, <1>5, HealthSum
<1>7. g[S] \in Nat
  <2>1. AddsUp(g, h, S) /\ S \in SUBSET S
    BY <1>3, <1>5, <1>6, SumTakesAny
  <2> QED
    BY <2>1 DEF AddsUp
<1>8. Perfect \in Nat \ {0}
  BY InputAssumption DEF Health!ScoreParameters
<1>9. Health!Cost(E, es) = g[S]
  <2>1. S = {e \in es : Health!IsOpen(E, e)}
    BY <1>1 DEF OpenAmong
  <2> QED
    BY <1>4, <1>6, <2>1, Zenon DEF Health!Cost
<1>10. p = IF g[S] >= Perfect THEN 0 ELSE Perfect - g[S]
  <2>1. p = Max({0, Perfect - g[S]})
    BY <1>1, <1>9, HealthNames DEF Health!PointsLeft
  <2>2. PICK v \in Int : v = Perfect - g[S] /\ (v <= 0 <=> g[S] >= Perfect)
    BY <1>7, <1>8
  <2>3. {0, v} \subseteq Int
    OBVIOUS
  <2>4. Largest(IF v <= 0 THEN 0 ELSE v, {0, v})
    BY DEF Largest
  <2>5. Max({0, v}) = IF v <= 0 THEN 0 ELSE v
    BY <2>3, <2>4, MaxIs
  <2> QED
    BY <2>1, <2>2, <2>5
<1>11. Left(p, g, E, es)
  BY <1>1, <1>6, <1>7, <1>10 DEF Left
<1> QED
  BY <1>1, <1>3, <1>5, <1>8, <1>11

\* Fewer events cost no more.
LEMMA FewerCostLess ==
  ASSUME NEW E, Scored(E), NEW all \in SUBSET (1..Len(E)), NEW es \in SUBSET all
  PROVE  Health!PointsLeft(E, es) >= Health!PointsLeft(E, all)
<1>1. PICK S, T, h, d : /\ S = OpenAmong(E, es) /\ h = Prices(E, es)
                        /\ T = OpenAmong(E, all) /\ d = Prices(E, all)
  OBVIOUS
<1>2. es \in SUBSET (1..Len(E))
  OBVIOUS
<1>3. /\ IsFiniteSet(S) /\ h \in [S -> Nat] /\ IsFiniteSet(T) /\ d \in [T -> Nat]
      /\ Perfect \in Nat
  BY <1>1, <1>2, PointsAreLeft
<1>4. PICK g, f : /\ Left(Health!PointsLeft(E, es), g, E, es)
                  /\ Left(Health!PointsLeft(E, all), f, E, all)
  <2>1. PICK g : Left(Health!PointsLeft(E, es), g, E, es)
    BY <1>2, PointsAreLeft
  <2>2. PICK f : Left(Health!PointsLeft(E, all), f, E, all)
    BY PointsAreLeft
  <2> QED
    BY <2>1, <2>2
<1>5. Fits([e \in S |-> e], h, S, d, T)
  <2>1. S \in SUBSET T
    BY <1>1 DEF OpenAmong
  <2>2. \A e \in S : h[e] = d[e]
    BY <1>1, <2>1 DEF Prices
  <2>3. \A e \in S : h[e] \in Nat
    BY <1>3
  <2>4. \A e \in S : h[e] <= d[e]
    BY <2>2, <2>3
  <2> QED
    BY <1>3, <2>1, <2>4 DEF Fits
<1>6. SumsUp(g, h, S) /\ SumsUp(f, d, T)
  BY <1>1, <1>4 DEF Left
<1>7. g[S] <= f[T] /\ g[S] \in Nat /\ f[T] \in Nat
  BY <1>5, <1>6, SumOfFitting
<1>8. /\ Health!PointsLeft(E, es) = IF g[S] >= Perfect THEN 0 ELSE Perfect - g[S]
      /\ Health!PointsLeft(E, all) = IF f[T] >= Perfect THEN 0 ELSE Perfect - f[T]
  BY <1>1, <1>4 DEF Left
<1> QED
  BY <1>3, <1>7, <1>8

LEMMA SmallerOf ==
  ASSUME NEW a \in Nat, NEW b \in Nat
  PROVE  /\ Min({a, b}) = IF a <= b THEN a ELSE b
         /\ Health!Min({a, b}) = IF a <= b THEN a ELSE b
<1>1. {a, b} \subseteq Int /\ Smallest(IF a <= b THEN a ELSE b, {a, b})
  BY DEF Smallest
<1> QED
  BY <1>1, MinIs, HealthNames

\* The live score is that of all open events of the station, or better.
LEMMA LiveScore ==
  ASSUME NEW E, Scored(E), NEW s, NEW all, all = Health!AtStation(E, s)
  PROVE  /\ all \in SUBSET (1..Len(E)) /\ IsFiniteSet(all) /\ Cardinality(all) \in Nat
         /\ \A score \in Health!Scores(E, s) :
              /\ score >= Health!PointsLeft(E, all)
              /\ Cardinality(all) <= ScoreLimit => score = Health!PointsLeft(E, all)
<1>1. all \in SUBSET (1..Len(E))
  BY DEF Health!AtStation
<1>2. IsFiniteSet(all) /\ Cardinality(all) \in Nat
  <2>1. IsFiniteSet(1..Len(E))
    BY FS_Interval DEF Scored
  <2> QED
    BY <1>1, <2>1, FS_Subset, FS_CardinalityType
<1>3. ScoreLimit \in Nat
  BY InputAssumption DEF Health!ScoreParameters
<1>4. ASSUME NEW score \in Health!Scores(E, s)
      PROVE  /\ score >= Health!PointsLeft(E, all)
             /\ Cardinality(all) <= ScoreLimit => score = Health!PointsLeft(E, all)
  <2>1. PICK es \in Health!Listed(E, s) : score = Health!PointsLeft(E, es)
    BY DEF Health!Scores
  <2>2. es \in SUBSET all /\ Cardinality(es) = Min({ScoreLimit, Cardinality(all)})
    BY HealthNames DEF Health!Listed
  <2>3. score >= Health!PointsLeft(E, all)
    BY <1>1, <2>1, <2>2, FewerCostLess
  <2>4. ASSUME Cardinality(all) <= ScoreLimit PROVE es = all
    <3>1. Cardinality(es) = Cardinality(all)
      BY <1>2, <1>3, <2>2, <2>4, SmallerOf
    <3> QED
      BY <1>2, <2>2, <3>1, FS_Subset
  <2> QED
    BY <2>1, <2>3, <2>4
<1> QED
  BY <1>1, <1>2, <1>4

\* The history hist of days days has the score that the events all leave of
\* each day.
Daily(hist, days, E, all) ==
  /\ Len(hist) = days /\ DOMAIN hist = 1..days
  /\ \A k \in 1..days : /\ hist[k].day = (Now \div DayLength) - (days - k)
                        /\ hist[k].score = Health!PointsLeft(E, {e \in all : Health!Day(E[e].at) = hist[k].day})

\* Only open events cost points.
LEMMA OpenCost ==
  ASSUME NEW E, NEW A, NEW B, OpenAmong(E, A) = OpenAmong(E, B)
  PROVE  Health!PointsLeft(E, A) = Health!PointsLeft(E, B)
<1>1. {e \in A : Health!IsOpen(E, e)} = {e \in B : Health!IsOpen(E, e)}
  BY DEF OpenAmong
<1>2. Health!Cost(E, A) = Health!Cost(E, B)
  BY <1>1, Zenon DEF Health!Cost
<1> QED
  BY <1>2, Zenon DEF Health!PointsLeft

\* The open events since the start of the series are enough to make it.
LEMMA SeriesIsDaily ==
  ASSUME NEW E, Scored(E), NEW s, NEW all, all = Health!AtStation(E, s), NEW days \in Nat \ {0},
         NEW counted \in SUBSET all,
         \A e \in all : (Health!IsOpen(E, e) /\ E[e].at >= Health!Since(Now, days)) => e \in counted
  PROVE  Daily(Health!DayScores(E, counted, Now, days), days, E, all)
<1>1. PICK hist : hist = Health!DayScores(E, counted, Now, days)
  OBVIOUS
<1>2. Now \in Nat /\ DayLength \in Nat \ {0} /\ all \in SUBSET (1..Len(E))
  BY InputAssumption, LiveScore DEF Health!ScoreParameters
<1>3. hist = [k \in 1..days |->
                [day |-> Health!Day(Now) - (days - k),
                 score |-> Health!PointsLeft(E, {e \in counted : Health!Day(E[e].at) = Health!Day(Now) - (days - k)})]]
  BY <1>1, Zenon DEF Health!DayScores
<1>4. ASSUME NEW k \in 1..days
      PROVE  Health!PointsLeft(E, {e \in counted : Health!Day(E[e].at) = Health!Day(Now) - (days - k)}) =
               Health!PointsLeft(E, {e \in all : Health!Day(E[e].at) = Health!Day(Now) - (days - k)})
  <2>1. PICK A, B : /\ A = {e \in counted : Health!Day(E[e].at) = Health!Day(Now) - (days - k)}
                    /\ B = {e \in all : Health!Day(E[e].at) = Health!Day(Now) - (days - k)}
    OBVIOUS
  <2>2. ASSUME NEW e \in B, Health!IsOpen(E, e) PROVE e \in A
    <3>1. e \in all /\ Health!Day(E[e].at) = Health!Day(Now) - (days - k)
      BY <2>1
    <3>2. E[e].at \in Nat
      BY <1>2, <3>1 DEF Scored
    <3>3. Now \div DayLength \in Nat
      BY <1>2, Quotient
    <3>4. E[e].at \div DayLength > (Now \div DayLength) - days
      BY <3>1, <3>3 DEF Health!Day
    <3>5. E[e].at >= Now - days * DayLength
      BY <1>2, <3>2, <3>4, WithinParts
    <3>6. e \in counted
      BY <2>2, <3>1, <3>5 DEF Health!Since
    <3> QED
      BY <2>1, <3>1, <3>6
  <2>3. A \in SUBSET B
    BY <2>1
  <2>4. OpenAmong(E, A) = OpenAmong(E, B)
    BY <2>2, <2>3 DEF OpenAmong
  <2> QED
    BY <2>1, <2>4, OpenCost
<1>5. ASSUME NEW k \in 1..days
      PROVE  /\ hist[k].day = Health!Day(Now) - (days - k)
             /\ hist[k].score = Health!PointsLeft(E, {e \in all : Health!Day(E[e].at) = hist[k].day})
  <2>1. /\ hist[k].day = Health!Day(Now) - (days - k)
        /\ hist[k].score = Health!PointsLeft(E, {e \in counted : Health!Day(E[e].at) = Health!Day(Now) - (days - k)})
    BY <1>3
  <2> QED
    BY <1>4, <2>1
<1>6. Len(hist) = days /\ DOMAIN hist = 1..days
  <2>1. DOMAIN hist = 1..days /\ hist = [k \in 1..days |-> hist[k]]
    BY <1>3
  <2> QED
    BY <2>1, LengthIs
<1> QED
  BY <1>1, <1>5, <1>6 DEF Daily, Health!Day

\* A day that cost points has events.
LEMMA FiredOnThatDay ==
  ASSUME NEW E, Scored(E), NEW s, NEW all, all = Health!AtStation(E, s), NEW day,
         Health!PointsLeft(E, {e \in all : Health!Day(E[e].at) = day}) < Perfect
  PROVE  Health!Fired(E, s, day, 0, Now + 1) # {}
<1>1. PICK es : es = {e \in all : Health!Day(E[e].at) = day}
  OBVIOUS
<1>2. es \in SUBSET (1..Len(E)) /\ Now \in Nat
  BY <1>1, LiveScore, InputAssumption
<1>3. OpenAmong(E, es) # {}
  <2> SUFFICES ASSUME OpenAmong(E, es) = {} PROVE FALSE
    OBVIOUS
  <2>1. PICK g : Left(Health!PointsLeft(E, es), g, E, es)
    BY <1>2, PointsAreLeft
  <2>2. Perfect \in Nat \ {0}
    BY <1>2, PointsAreLeft
  <2>3. g[OpenAmong(E, es)] = 0
    BY <2>1 DEF Left, SumsUp
  <2>4. Health!PointsLeft(E, es) = Perfect
    BY <2>1, <2>2, <2>3 DEF Left
  <2> QED
    BY <1>1, <2>2, <2>4
<1>4. PICK e \in es : TRUE
  BY <1>3 DEF OpenAmong
<1>5. e \in all /\ Health!Day(E[e].at) = day /\ E[e].at \in Nat /\ E[e].at <= Now
  BY <1>1, <1>2, <1>4 DEF Scored
<1>6. 0 <= E[e].at /\ E[e].at < Now + 1
  BY <1>2, <1>5
<1>7. e \in Health!Fired(E, s, day, 0, Now + 1)
  BY <1>5, <1>6 DEF Health!Fired
<1> QED
  BY <1>7

\* No day that is left out is worse than one of the worst.
LEMMA WorstAreWorst ==
  ASSUME NEW hist, NEW days \in Nat, Len(hist) = days, DOMAIN hist = 1..days,
         \A k \in 1..days : hist[k].score \in Nat /\ hist[k].day \in Int,
         \A j, k \in 1..days : hist[j].day = hist[k].day => j = k,
         NEW worst, worst = Health!WorstDays(hist, 2)
  PROVE  \A k \in 1..days : \A w \in 1..Len(worst) :
           hist[k] \notin Range(worst) => worst[w].score <= hist[k].score
<1> DEFINE K == {hist[k] : k \in 1..days}
           le == {cd \in K \X K : ~Health!Lower(cd[2], cd[1])}
           first(n) == CHOOSE c \in K : Cardinality({d \in K : ~Health!Lower(c, d)}) = n
           other(n) == CHOOSE c \in K : Cardinality({d \in K : <<d, c>> \in le}) = n
<1>1. \A c, d \in K : <<c, d>> \in le <=> ~Health!Lower(d, c)
  OBVIOUS
<1>2. \A c \in K : c.score \in Nat /\ c.day \in Int
  OBVIOUS
<1>3. \A c, d \in K : c.day = d.day => c = d
  OBVIOUS
<1>4. Range(hist) = K
  BY DEF Range
<1>5. IsFiniteSet(K) /\ Cardinality(K) = days
  <2> DEFINE f == [k \in 1..days |-> hist[k]]
  <2>1. IsFiniteSet(1..days) /\ Cardinality(1..days) = days
    BY FS_Interval
  <2>2. f \in [1..days -> K] /\ \A c \in K : \E k \in 1..days : f[k] = c
    OBVIOUS
  <2>3. \A j, k \in 1..days : f[j] = f[k] => j = k
    OBVIOUS
  <2> HIDE DEF K, f
  <2>4. f \in Surjection(1..days, K) /\ f \in Bijection(1..days, K)
    BY <2>2, <2>3 DEF Bijection, Injection, Surjection, IsInjective
  <2>5. IsFiniteSet(K)
    BY <2>1, <2>4, FS_Surjection
  <2>6. Cardinality(K) = days
    BY <2>4, FS_CountingElements DEF ExistsBijection
  <2> QED
    BY <2>5, <2>6
<1>6. \A n : first(n) = other(n)
  <2> HIDE DEF le
  <2>1. \A c \in K : {d \in K : ~Health!Lower(c, d)} = {d \in K : <<d, c>> \in le}
    BY <1>1
  <2>2. \A n : \A c \in K : Cardinality({d \in K : ~Health!Lower(c, d)}) = n
                              <=> Cardinality({d \in K : <<d, c>> \in le}) = n
    BY <2>1
  <2> HIDE DEF K
  <2> QED
    BY <2>2, Zenon
<1> HIDE DEF le
<1>7. PICK pos : pos = [n \in 1..days |-> other(n)]
  OBVIOUS
<1>8. PlacedBy(pos, days, K, le)
  BY <1>7, Zenon DEF PlacedBy
<1>9. PICK m : m = IF 2 <= days THEN 2 ELSE days
  OBVIOUS
<1>10. m \in Nat /\ m <= days /\ Health!Min({2, Len(hist)}) = m
  <2>1. 2 \in Nat /\ days \in Nat
    OBVIOUS
  <2>2. Health!Min({2, days}) = IF 2 <= days THEN 2 ELSE days
    BY <2>1, SmallerOf, Zenon
  <2>3. m \in Nat /\ m <= days
    BY <1>9
  <2> QED
    BY <1>9, <2>2, <2>3, Zenon
<1>11. worst = [n \in 1..m |-> pos[n]]
  <2>1. worst = [n \in 1..Health!Min({2, Len(hist)}) |->
                   CHOOSE c \in Health!Range(hist) :
                     Health!Cardinality({d \in Health!Range(hist) : ~Health!Lower(c, d)}) = n]
    BY Zenon DEF Health!WorstDays
  <2>2. \A n : first(n) = CHOOSE c \in Health!Range(hist) :
                            Health!Cardinality({d \in Health!Range(hist) : ~Health!Lower(c, d)}) = n
    BY <1>4, HealthNames
  <2> HIDE DEF first, other
  <2>3. worst = [n \in 1..m |-> first(n)]
    BY <1>10, <2>1, <2>2
  <2>4. \A n \in 1..m : n \in 1..days
    BY <1>10
  <2> QED
    BY <1>6, <1>7, <2>3, <2>4
<1> HIDE DEF first, other
<1>12. \A c, d \in K : <<c, d>> \in le <=>
                         c.score < d.score \/ (c.score = d.score /\ c.day <= d.day)
  <2> SUFFICES ASSUME NEW c \in K, NEW d \in K
               PROVE  <<c, d>> \in le <=> c.score < d.score \/ (c.score = d.score /\ c.day <= d.day)
    OBVIOUS
  <2>1. PICK a \in Nat, b \in Nat, x \in Int, y \in Int :
          a = c.score /\ b = d.score /\ x = c.day /\ y = d.day
    BY <1>2
  <2>2. Health!Lower(d, c) <=> b < a \/ (b = a /\ y < x)
    BY <2>1 DEF Health!Lower
  <2>3. ~(b < a \/ (b = a /\ y < x)) <=> a < b \/ (a = b /\ x <= y)
    BY <2>1
  <2> QED
    BY <1>1, <2>1, <2>2, <2>3
<1> HIDE DEF K
<1>13. /\ \A i \in K : <<i, i>> \in le
       /\ \A i, j \in K : <<i, j>> \in le \/ <<j, i>> \in le
       /\ \A i, j \in K : <<i, j>> \in le /\ <<j, i>> \in le => i = j
       /\ \A i, j, k \in K : <<i, j>> \in le /\ <<j, k>> \in le => <<i, k>> \in le
  <2>1. ASSUME NEW i \in K, NEW j \in K
        PROVE  /\ <<i, i>> \in le /\ (<<i, j>> \in le \/ <<j, i>> \in le)
               /\ (<<i, j>> \in le /\ <<j, i>> \in le) => i = j
    <3>1. PICK a \in Nat, b \in Nat, x \in Int, y \in Int :
            a = i.score /\ b = j.score /\ x = i.day /\ y = j.day
      BY <1>2
    <3>2. /\ <<i, i>> \in le <=> a < a \/ (a = a /\ x <= x)
          /\ <<i, j>> \in le <=> a < b \/ (a = b /\ x <= y)
          /\ <<j, i>> \in le <=> b < a \/ (b = a /\ y <= x)
      BY <1>12, <3>1
    <3>3. (<<i, j>> \in le /\ <<j, i>> \in le) => x = y
      BY <3>2
    <3> QED
      BY <1>3, <3>1, <3>2, <3>3
  <2>2. ASSUME NEW i \in K, NEW j \in K, NEW k \in K, <<i, j>> \in le, <<j, k>> \in le
        PROVE  <<i, k>> \in le
    <3>1. PICK a \in Nat, b \in Nat, c \in Nat, x \in Int, y \in Int, z \in Int :
            /\ a = i.score /\ b = j.score /\ c = k.score
            /\ x = i.day /\ y = j.day /\ z = k.day
      BY <1>2
    <3>2. (a < b \/ (a = b /\ x <= y)) /\ (b < c \/ (b = c /\ y <= z))
      BY <1>12, <2>2, <3>1
    <3>3. a < c \/ (a = c /\ x <= z)
      BY <3>2
    <3> QED
      BY <1>12, <3>1, <3>3
  <2> QED
    BY <2>1, <2>2
<1>14. SortedBy(pos, days, K, le)
  BY <1>5, <1>8, <1>13, SortsByCount
<1>15. pos \in [1..days -> K] /\ \A c \in K : \E k \in 1..days : pos[k] = c
  BY <1>14 DEF SortedBy, Bijection, Injection, Surjection
<1>16. Len(worst) = m /\ DOMAIN worst = 1..m /\ \A n \in 1..m : worst[n] = pos[n]
  <2>1. DOMAIN worst = 1..m /\ worst = [n \in 1..m |-> worst[n]]
    BY <1>11
  <2> QED
    BY <1>10, <1>11, <2>1, LengthIs
<1>17. ASSUME NEW k \in 1..days, NEW w \in 1..m, hist[k] \notin Range(worst)
       PROVE  worst[w].score <= hist[k].score
  <2>1. PICK c \in K : c = hist[k]
    BY DEF K
  <2>2. PICK l \in 1..days : pos[l] = c
    BY <1>15
  <2>3. ~(l <= m)
    <3> SUFFICES ASSUME l <= m PROVE FALSE
      OBVIOUS
    <3>1. l \in 1..m
      BY <1>10
    <3>2. worst[l] = c
      BY <1>16, <2>2, <3>1
    <3> QED
      BY <1>16, <1>17, <2>1, <3>1, <3>2 DEF Range
  <2>4. w <= l /\ w \in 1..days
    BY <1>10, <2>3
  <2>5. <<pos[w], pos[l]>> \in le /\ pos[w] \in K
    BY <1>14, <1>15, <2>4 DEF SortedBy
  <2>6. pos[w].score < c.score \/ pos[w].score = c.score
    BY <1>12, <2>2, <2>5
  <2>7. pos[w].score \in Nat /\ c.score \in Nat
    BY <1>2, <2>5
  <2> QED
    BY <1>16, <2>1, <2>6, <2>7
<1> QED
  BY <1>16, <1>17

\* Of a day, the history loses what that day's open events cost, or all.
LEMMA DayLoses ==
  ASSUME NEW E, Scored(E), NEW es \in SUBSET (1..Len(E)), NEW p, p = Health!PointsLeft(E, es)
  PROVE  /\ p \in Nat /\ p <= Perfect
         /\ \A g : SumsUp(g, Prices(E, es), OpenAmong(E, es)) =>
              \/ Perfect - p >= Perfect
              \/ Perfect - p = g[OpenAmong(E, es)]
<1>1. PICK f : Left(p, f, E, es)
  BY PointsAreLeft
<1>2. Perfect \in Nat \ {0}
  BY PointsAreLeft
<1>3. PICK c \in Nat : c = f[OpenAmong(E, es)] /\ p = IF c >= Perfect THEN 0 ELSE Perfect - c
  BY <1>1 DEF Left
<1>4. p \in Nat /\ p <= Perfect
  BY <1>2, <1>3
<1>5. Perfect - p >= Perfect \/ Perfect - p = c
  BY <1>2, <1>3
<1>6. \A g : SumsUp(g, Prices(E, es), OpenAmong(E, es)) => g = f
  BY <1>1 DEF Left, SumsUp
<1> QED
  BY <1>3, <1>4, <1>5, <1>6

\* The days since the start of time lose all that the live score loses.
LEMMA HistoryLoses ==
  ASSUME NEW E, Scored(E), NEW s, NEW all, all = Health!AtStation(E, s),
         NEW days, days = (Now \div DayLength) + 1, NEW hist, Daily(hist, days, E, all),
         NEW lost, lost = SumFunction([k \in 1..days |-> Perfect - hist[k].score])
  PROVE  lost >= Perfect - Health!PointsLeft(E, all)
<1>1. /\ Now \in Nat /\ DayLength \in Nat \ {0} /\ Perfect \in Nat \ {0}
      /\ all \in SUBSET (1..Len(E)) /\ days \in Nat \ {0}
  <2>1. Now \in Nat /\ DayLength \in Nat \ {0} /\ Perfect \in Nat \ {0}
    BY InputAssumption DEF Health!ScoreParameters
  <2>2. Now \div DayLength \in Nat
    BY <2>1, Quotient
  <2> QED
    BY <2>1, <2>2, LiveScore
<1>2. PICK S, h : S = OpenAmong(E, all) /\ h = Prices(E, all)
  OBVIOUS
<1>3. IsFiniteSet(S) /\ h \in [S -> Nat] /\ S \in SUBSET all
  BY <1>1, <1>2, PointsAreLeft DEF OpenAmong
<1>4. PICK place : place = [e \in S |-> (E[e].at \div DayLength) + 1]
  OBVIOUS
<1>5. place \in [S -> 1..days]
  <2> SUFFICES ASSUME NEW e \in S PROVE (E[e].at \div DayLength) + 1 \in 1..days
    BY <1>4
  <2>1. E[e].at \in Nat /\ E[e].at <= Now
    BY <1>1, <1>3 DEF Scored
  <2>2. E[e].at \div DayLength \in Nat /\ E[e].at \div DayLength <= Now \div DayLength
    BY <1>1, <2>1, Quotient, QuotientGrows
  <2>3. Now \div DayLength \in Nat
    BY <1>1, Quotient
  <2> QED
    BY <2>2, <2>3
<1>6. PICK t : t = [k \in 1..days |-> Perfect - hist[k].score]
  OBVIOUS
<1> DEFINE D(k) == {e \in all : Health!Day(E[e].at) = hist[k].day}
<1>7. ASSUME NEW k \in 1..days
      PROVE  /\ hist[k].score = Health!PointsLeft(E, D(k)) /\ D(k) \in SUBSET (1..Len(E))
             /\ OpenAmong(E, D(k)) = PlacedAt(place, S, k)
             /\ Prices(E, D(k)) = [x \in PlacedAt(place, S, k) |-> h[x]]
  <2>1. /\ hist[k].score = Health!PointsLeft(E, D(k))
        /\ hist[k].day = (Now \div DayLength) - (days - k)
    BY DEF Daily
  <2>2. hist[k].day = k - 1
    <3>1. Now \div DayLength \in Nat
      BY <1>1, Quotient
    <3> QED
      BY <2>1, <3>1
  <2>3. \A e \in S : Health!Day(E[e].at) = hist[k].day <=> place[e] = k
    <3> SUFFICES ASSUME NEW e \in S
                 PROVE  Health!Day(E[e].at) = hist[k].day <=> place[e] = k
      OBVIOUS
    <3>1. E[e].at \div DayLength \in Nat
      BY <1>1, <1>3, Quotient DEF Scored
    <3>2. place[e] = (E[e].at \div DayLength) + 1
      BY <1>4
    <3> QED
      BY <2>2, <3>1, <3>2 DEF Health!Day
  <2>4. OpenAmong(E, D(k)) = PlacedAt(place, S, k)
    BY <1>2, <2>3 DEF OpenAmong, PlacedAt
  <2>5. Prices(E, D(k)) = [x \in PlacedAt(place, S, k) |-> h[x]]
    <3>1. \A x \in PlacedAt(place, S, k) : h[x] = Health!Penalty[E[x].severity]
      BY <1>2 DEF PlacedAt, Prices
    <3>2. Prices(E, D(k)) = [x \in PlacedAt(place, S, k) |-> Health!Penalty[E[x].severity]]
      BY <2>4, Zenon DEF Prices
    <3> HIDE DEF D
    <3> QED
      BY <3>1, <3>2
  <2>6. D(k) \in SUBSET (1..Len(E))
    BY <1>1
  <2> QED
    BY <2>1, <2>4, <2>5, <2>6
<1>8. CappedByPlace(t, Perfect, h, S, place, days)
  <2>1. ASSUME NEW k \in 1..days
        PROVE  /\ t[k] \in Nat
               /\ \/ t[k] >= Perfect
                  \/ \E g : /\ SumsUp(g, [x \in PlacedAt(place, S, k) |-> h[x]], PlacedAt(place, S, k))
                            /\ t[k] >= g[PlacedAt(place, S, k)]
    <3>1. PICK es : es = D(k)
      OBVIOUS
    <3>2. /\ es \in SUBSET (1..Len(E)) /\ hist[k].score = Health!PointsLeft(E, es)
          /\ OpenAmong(E, es) = PlacedAt(place, S, k)
          /\ Prices(E, es) = [x \in PlacedAt(place, S, k) |-> h[x]]
      BY <1>7, <3>1
    <3>3. PICK p : p = hist[k].score /\ t[k] = Perfect - p
      BY <1>6
    <3>4. PICK g : Left(p, g, E, es)
      BY <3>2, <3>3, PointsAreLeft
    <3>5. SumsUp(g, Prices(E, es), OpenAmong(E, es))
      BY <3>4 DEF Left
    <3>6. /\ p \in Nat /\ p <= Perfect
          /\ Perfect - p >= Perfect \/ Perfect - p = g[OpenAmong(E, es)]
      BY <3>2, <3>3, <3>5, DayLoses
    <3>7. t[k] \in Nat
      BY <1>1, <3>3, <3>6
    <3>8. t[k] >= Perfect \/ t[k] >= g[OpenAmong(E, es)]
      BY <1>1, <3>3, <3>6, <3>7
    <3> QED
      BY <3>2, <3>5, <3>7, <3>8
  <2>2. t \in [1..days -> Nat]
    BY <1>6, <2>1
  <2> HIDE DEF D
  <2> QED
    BY <1>1, <1>3, <1>5, <2>1, <2>2 DEF CappedByPlace
<1>9. PICK T : SumsUp(T, t, 1..days) /\ lost = T[1..days]
  <2>1. IsFiniteSet(1..days)
    BY <1>1, FS_Interval
  <2>2. t \in [1..days -> Nat]
    BY <1>8 DEF CappedByPlace
  <2> QED
    BY <1>6, <2>1, <2>2, PlainSum
<1>10. PICK G : Left(Health!PointsLeft(E, all), G, E, all)
  BY <1>1, PointsAreLeft
<1>11. SumsUp(G, h, S)
  BY <1>2, <1>10 DEF Left
<1>12. T[1..days] \in Nat /\ G[S] \in Nat /\ (T[1..days] >= Perfect \/ T[1..days] >= G[S])
  BY <1>8, <1>9, <1>11, SumOfCapped
<1>13. Health!PointsLeft(E, all) = IF G[S] >= Perfect THEN 0 ELSE Perfect - G[S]
  BY <1>2, <1>10 DEF Left
<1> QED
  BY <1>1, <1>9, <1>12, <1>13

\* The offenders O, with their open critical events o, from the worst on.
Offending(O, o, m, pos, E, stations) ==
  /\ m \in Nat /\ m = Cardinality(O) /\ O \in SUBSET stations /\ IsFiniteSet(O)
  /\ pos \in [1..m -> O] /\ (\A s \in O : \E k \in 1..m : pos[k] = s)
  /\ (\A j, k \in 1..m : pos[j] = pos[k] => j = k)
  /\ (\A j, k \in 1..m : j <= k => o[pos[j]] >= o[pos[k]])
  /\ o = [s \in stations |-> Health!OpenCritical(E, s)]
  /\ (\A s \in stations : o[s] \in Nat)
  /\ O = {s \in stations : o[s] > 0}
  /\ \A n \in Nat : Health!TopOffenders(E, stations, n) =
              [k \in 1..Health!Min({n, m}) |-> [station |-> pos[k], open |-> o[pos[k]]]]

LEMMA OpenAreFew ==
  ASSUME NEW E, Scored(E), NEW s
  PROVE  /\ Health!OpenOf(E, "critical") \in SUBSET (1..Len(E))
         /\ Health!OpenCritical(E, s) = Cardinality(Health!OpenOf(E, "critical") \cap Health!AtStation(E, s))
         /\ Health!OpenCritical(E, s) \in Nat
         /\ Health!OpenCritical(E, s) > 0 <=> Health!OpenOf(E, "critical") \cap Health!AtStation(E, s) # {}
<1>1. PICK A : A = Health!OpenOf(E, "critical") \cap Health!AtStation(E, s)
  OBVIOUS
<1>2. Health!OpenOf(E, "critical") \in SUBSET (1..Len(E))
  BY DEF Health!OpenOf
<1>3. IsFiniteSet(A)
  <2>1. IsFiniteSet(1..Len(E))
    BY FS_Interval DEF Scored
  <2> QED
    BY <1>1, <1>2, <2>1, FS_Subset
<1>4. Health!OpenCritical(E, s) = Cardinality(A)
  BY <1>1, HealthNames DEF Health!OpenCritical
<1>5. Cardinality(A) \in Nat /\ (Cardinality(A) = 0 <=> A = {})
  BY <1>3, FS_CardinalityType, FS_EmptySet
<1> QED
  BY <1>1, <1>2, <1>4, <1>5

LEMMA OffendersAreRanked ==
  ASSUME NEW E, Scored(E), NEW stations, IsFiniteSet(stations), stations \subseteq Nat
  PROVE  \E O, o, m, pos : Offending(O, o, m, pos, E, stations)
<1>1. PICK o : o = [s \in stations |-> Health!OpenCritical(E, s)]
  OBVIOUS
<1>2. \A s \in stations : o[s] \in Nat
  BY <1>1, OpenAreFew
<1>3. PICK O : O = {s \in stations : o[s] > 0}
  OBVIOUS
<1>4. IsFiniteSet(O) /\ O \in SUBSET stations
  BY <1>3, FS_Subset
<1>5. PICK m \in Nat : m = Cardinality(O)
  BY <1>4, FS_CardinalityType
<1>6. PICK le : le = {cd \in O \X O : ~Health!Worse(E, cd[2], cd[1])}
  OBVIOUS
<1>7. \A s, t \in O : <<t, s>> \in le <=> ~Health!Worse(E, s, t)
  BY <1>6
<1>8. \A s, t \in O : <<t, s>> \in le <=> o[s] < o[t] \/ (o[s] = o[t] /\ t <= s)
  <2> SUFFICES ASSUME NEW s \in O, NEW t \in O
               PROVE  <<t, s>> \in le <=> o[s] < o[t] \/ (o[s] = o[t] /\ t <= s)
    OBVIOUS
  <2>1. PICK a \in Nat, b \in Nat : a = o[s] /\ b = o[t]
    BY <1>2, <1>4
  <2>2. a = Health!OpenCritical(E, s) /\ b = Health!OpenCritical(E, t) /\ s \in Nat /\ t \in Nat
    BY <1>1, <1>4, <2>1
  <2>3. Health!Worse(E, s, t) <=> a > b \/ (a = b /\ s < t)
    BY <2>2, Zenon DEF Health!Worse
  <2>4. ~(a > b \/ (a = b /\ s < t)) <=> a < b \/ (a = b /\ t <= s)
    BY <2>2
  <2> QED
    BY <1>7, <2>1, <2>3, <2>4
<1>9. /\ \A i \in O : <<i, i>> \in le
      /\ \A i, j \in O : <<i, j>> \in le \/ <<j, i>> \in le
      /\ \A i, j \in O : <<i, j>> \in le /\ <<j, i>> \in le => i = j
      /\ \A i, j, k \in O : <<i, j>> \in le /\ <<j, k>> \in le => <<i, k>> \in le
  <2>1. ASSUME NEW i \in O, NEW j \in O
        PROVE  /\ <<i, i>> \in le /\ (<<i, j>> \in le \/ <<j, i>> \in le)
               /\ (<<i, j>> \in le /\ <<j, i>> \in le) => i = j
    <3>1. PICK a \in Nat, b \in Nat : a = o[i] /\ b = o[j]
      BY <1>2, <1>4
    <3>2. i \in Nat /\ j \in Nat
      BY <1>4
    <3>3. /\ <<i, i>> \in le <=> a < a \/ (a = a /\ i <= i)
          /\ <<i, j>> \in le <=> b < a \/ (b = a /\ i <= j)
          /\ <<j, i>> \in le <=> a < b \/ (a = b /\ j <= i)
      BY <1>8, <3>1
    <3> QED
      BY <3>2, <3>3
  <2>2. ASSUME NEW i \in O, NEW j \in O, NEW k \in O, <<i, j>> \in le, <<j, k>> \in le
        PROVE  <<i, k>> \in le
    <3>1. PICK a \in Nat, b \in Nat, c \in Nat : a = o[i] /\ b = o[j] /\ c = o[k]
      BY <1>2, <1>4
    <3>2. i \in Nat /\ j \in Nat /\ k \in Nat
      BY <1>4
    <3>3. (b < a \/ (b = a /\ i <= j)) /\ (c < b \/ (c = b /\ j <= k))
      BY <1>8, <2>2, <3>1
    <3>4. c < a \/ (c = a /\ i <= k)
      BY <3>2, <3>3
    <3> QED
      BY <1>8, <3>1, <3>4
  <2> QED
    BY <2>1, <2>2
<1> DEFINE first(n) == CHOOSE s \in O : Cardinality({t \in O : ~Health!Worse(E, s, t)}) = n
           other(n) == CHOOSE s \in O : Cardinality({t \in O : <<t, s>> \in le}) = n
<1>10. \A n : first(n) = other(n)
  <2>1. \A s \in O : {t \in O : ~Health!Worse(E, s, t)} = {t \in O : <<t, s>> \in le}
    BY <1>7
  <2>2. \A n : \A s \in O : Cardinality({t \in O : ~Health!Worse(E, s, t)}) = n
                              <=> Cardinality({t \in O : <<t, s>> \in le}) = n
    BY <2>1
  <2> QED
    BY <2>2, Zenon
<1>11. PICK pos : pos = [n \in 1..m |-> other(n)]
  OBVIOUS
<1>12. PlacedBy(pos, m, O, le)
  BY <1>11, Zenon DEF PlacedBy
<1>13. SortedBy(pos, m, O, le)
  BY <1>4, <1>5, <1>9, <1>12, SortsByCount
<1>14. /\ pos \in [1..m -> O] /\ (\A s \in O : \E k \in 1..m : pos[k] = s)
       /\ \A j, k \in 1..m : pos[j] = pos[k] => j = k
  BY <1>13 DEF SortedBy, Bijection, Injection, Surjection, IsInjective
<1>15. \A j, k \in 1..m : j <= k => o[pos[j]] >= o[pos[k]]
  <2> SUFFICES ASSUME NEW j \in 1..m, NEW k \in 1..m, j <= k PROVE o[pos[j]] >= o[pos[k]]
    OBVIOUS
  <2>1. pos[j] \in O /\ pos[k] \in O /\ <<pos[j], pos[k]>> \in le
    BY <1>13, <1>14 DEF SortedBy
  <2>2. o[pos[j]] \in Nat /\ o[pos[k]] \in Nat
    BY <1>2, <1>4, <2>1
  <2>3. o[pos[k]] < o[pos[j]] \/ o[pos[k]] = o[pos[j]]
    BY <1>8, <2>1
  <2> QED
    BY <2>2, <2>3
<1>16. ASSUME NEW n \in Nat
       PROVE  Health!TopOffenders(E, stations, n) =
                [k \in 1..Health!Min({n, m}) |-> [station |-> pos[k], open |-> o[pos[k]]]]
  <2>1. O = {s \in stations : Health!OpenCritical(E, s) > 0}
    BY <1>1, <1>3
  <2>2. m = Health!Cardinality(O)
    BY <1>5, HealthNames
  <2>3. Health!TopOffenders(E, stations, n) =
          [k \in 1..Health!Min({n, m}) |->
             [station |-> Health!OffenderAt(E, O, k),
              open |-> Health!OpenCritical(E, Health!OffenderAt(E, O, k))]]
    BY <2>1, <2>2, Zenon DEF Health!TopOffenders
  <2>4. \A k : Health!OffenderAt(E, O, k) = first(k)
    BY HealthNames DEF Health!OffenderAt
  <2> HIDE DEF first, other
  <2>5. ASSUME NEW k \in 1..Health!Min({n, m})
        PROVE  Health!OffenderAt(E, O, k) = pos[k]
    <3>1. Health!Min({n, m}) \in Nat /\ Health!Min({n, m}) <= m
      BY SmallerOf
    <3>2. k \in 1..m
      BY <3>1
    <3> QED
      BY <1>10, <1>11, <2>4, <3>2
  <2>6. \A k \in 1..Health!Min({n, m}) : Health!OpenCritical(E, pos[k]) = o[pos[k]]
    <3>1. Health!Min({n, m}) \in Nat /\ Health!Min({n, m}) <= m
      BY SmallerOf
    <3>2. \A k \in 1..Health!Min({n, m}) : k \in 1..m
      BY <3>1
    <3>3. \A k \in 1..Health!Min({n, m}) : pos[k] \in stations
      BY <1>4, <1>14, <3>2
    <3> QED
      BY <1>1, <3>3
  <2>7. \A k \in 1..Health!Min({n, m}) :
          [station |-> Health!OffenderAt(E, O, k), open |-> Health!OpenCritical(E, Health!OffenderAt(E, O, k))]
            = [station |-> pos[k], open |-> o[pos[k]]]
    BY <2>5, <2>6
  <2> QED
    BY <2>3, <2>7, Zenon
<1> HIDE DEF first, other
<1>17. Offending(O, o, m, pos, E, stations)
  <2>1. m \in Nat /\ m = Cardinality(O) /\ O \in SUBSET stations /\ IsFiniteSet(O)
    BY <1>4, <1>5
  <2> QED
    BY <1>1, <1>2, <1>3, <1>14, <1>15, <1>16, <2>1, Zenon DEF Offending
<1> QED
  BY <1>17

\* The events of a list are of these stations.
Located(E, stations) ==
  /\ Scored(E) /\ IsFiniteSet(stations) /\ stations \subseteq Nat
  /\ \A i \in 1..Len(E) : E[i].station \in stations

TopAgrees(E, stations, top) ==
  /\ SumFunction([k \in 1..Len(top) |-> top[k].open]) = Cardinality(Health!OpenOf(E, "critical"))
  /\ \A k \in 2..Len(top) : top[k - 1].open >= top[k].open
  /\ Health!TopOffenders(E, stations, 1) = SubSeq(top, 1, Min({1, Len(top)}))

\* Between them they have all open critical events, from the most on; the
\* first alone is the first of all.
LEMMA TopIsAll ==
  ASSUME NEW E, NEW stations, Located(E, stations),
         NEW top, top = Health!TopOffenders(E, stations, Cardinality(stations))
  PROVE  TopAgrees(E, stations, top)
<1>0. /\ Scored(E) /\ IsFiniteSet(stations) /\ stations \subseteq Nat
      /\ \A i \in 1..Len(E) : E[i].station \in stations
  BY DEF Located
<1>1. PICK O, o, m, pos : Offending(O, o, m, pos, E, stations)
  BY <1>0, OffendersAreRanked
<1>2. /\ m \in Nat /\ m = Cardinality(O) /\ O \in SUBSET stations /\ IsFiniteSet(O)
      /\ pos \in [1..m -> O] /\ (\A s \in O : \E k \in 1..m : pos[k] = s)
      /\ (\A j, k \in 1..m : pos[j] = pos[k] => j = k)
      /\ (\A j, k \in 1..m : j <= k => o[pos[j]] >= o[pos[k]])
      /\ o = [s \in stations |-> Health!OpenCritical(E, s)]
      /\ (\A s \in stations : o[s] \in Nat) /\ O = {s \in stations : o[s] > 0}
  BY <1>1 DEF Offending
<1>3. \A n \in Nat : Health!TopOffenders(E, stations, n) =
                       [k \in 1..Health!Min({n, m}) |-> [station |-> pos[k], open |-> o[pos[k]]]]
  BY <1>1 DEF Offending
<1>4. top = [k \in 1..m |-> [station |-> pos[k], open |-> o[pos[k]]]]
  <2>1. m <= Cardinality(stations) /\ Cardinality(stations) \in Nat
    BY <1>0, <1>2, FS_Subset, FS_CardinalityType
  <2>2. PICK c \in Nat : c = Cardinality(stations)
    BY <2>1
  <2>3. Health!Min({c, m}) = IF c <= m THEN c ELSE m
    BY <1>2, SmallerOf, Zenon
  <2>4. Health!Min({Cardinality(stations), m}) = m
    BY <1>2, <2>1, <2>2, <2>3
  <2> QED
    BY <1>3, <2>1, <2>4
<1>5. Len(top) = m /\ \A k \in 1..m : top[k].open = o[pos[k]]
  <2>1. DOMAIN top = 1..m
    BY <1>4, Zenon
  <2>2. \A k \in 1..m : top[k] = [station |-> pos[k], open |-> o[pos[k]]]
    BY <1>4, Zenon
  <2>3. top = [k \in 1..m |-> top[k]]
    BY <1>4, <2>2, Zenon
  <2>4. Len(top) = m
    BY <1>2, <2>1, <2>3, LengthIs
  <2> QED
    BY <2>2, <2>4
<1>6. \A k \in 2..m : top[k - 1].open >= top[k].open
  <2> SUFFICES ASSUME NEW k \in 2..m PROVE top[k - 1].open >= top[k].open
    OBVIOUS
  <2>1. PICK j : j = k - 1
    OBVIOUS
  <2>2. j \in 1..m /\ k \in 1..m /\ j <= k
    BY <1>2, <2>1
  <2>3. o[pos[j]] >= o[pos[k]] /\ top[j].open = o[pos[j]] /\ top[k].open = o[pos[k]]
    BY <1>2, <1>5, <2>2
  <2> QED
    BY <2>1, <2>3
<1>7. Health!TopOffenders(E, stations, 1) = SubSeq(top, 1, Min({1, m}))
  <2>1. PICK l \in Nat : l = Min({1, m}) /\ l = Health!Min({1, m}) /\ l <= m
    BY <1>2, SmallerOf
  <2>2. PICK S : S = {[station |-> pos[k], open |-> o[pos[k]]] : k \in 1..m}
    OBVIOUS
  <2>3. top \in Seq(S)
    <3>1. PICK v : v = [k \in 1..m |-> [station |-> pos[k], open |-> o[pos[k]]]]
      OBVIOUS
    <3>2. v \in [1..m -> S]
      BY <2>2, <3>1
    <3>3. v \in Seq(S)
      BY <1>2, <3>2
    <3> QED
      BY <1>4, <3>1, <3>3
  <2>4. SubSeq(top, 1, l) = [k \in 1..l |-> top[k]]
    BY <1>5, <2>1, <2>3, FrontPart
  <2>5. \A k \in 1..l : top[k] = [station |-> pos[k], open |-> o[pos[k]]]
    <3>1. \A k \in 1..l : k \in 1..m
      BY <1>2, <2>1
    <3> QED
      BY <1>4, <3>1, Zenon
  <2>6. Health!TopOffenders(E, stations, 1) = [k \in 1..l |-> [station |-> pos[k], open |-> o[pos[k]]]]
    BY <1>3, <2>1
  <2> QED
    BY <2>1, <2>4, <2>5, <2>6
<1>8. PICK h, P, all : /\ h = [k \in 1..m |-> top[k].open] /\ all = Health!OpenOf(E, "critical")
                       /\ P = [k \in 1..m |-> all \cap Health!AtStation(E, pos[k])]
  OBVIOUS
<1>9. /\ all \in SUBSET (1..Len(E)) /\ Len(E) \in Nat
      /\ \A k \in 1..m : h[k] = Cardinality(P[k]) /\ h[k] \in Nat
  <2>1. all \in SUBSET (1..Len(E)) /\ Len(E) \in Nat
    BY <1>0, <1>8, OpenAreFew DEF Scored
  <2>2. ASSUME NEW k \in 1..m PROVE h[k] = Cardinality(P[k]) /\ h[k] \in Nat
    <3>1. pos[k] \in stations
      BY <1>2
    <3>2. h[k] = Health!OpenCritical(E, pos[k])
      BY <1>2, <1>5, <1>8, <3>1
    <3>3. /\ Health!OpenCritical(E, pos[k]) = Cardinality(all \cap Health!AtStation(E, pos[k]))
          /\ Health!OpenCritical(E, pos[k]) \in Nat
      BY <1>0, <1>8, OpenAreFew
    <3>4. P[k] = all \cap Health!AtStation(E, pos[k])
      BY <1>8
    <3> QED
      BY <3>2, <3>3, <3>4
  <2> QED
    BY <2>1, <2>2
<1>10. Parts(P, h, 1..m, Len(E), all)
  <2>1. P \in [1..m -> SUBSET (1..Len(E))] /\ h \in [1..m -> Nat]
    BY <1>8, <1>9
  <2>2. ASSUME NEW i \in 1..m, NEW j \in 1..m, i # j PROVE P[i] \cap P[j] = {}
    <3>1. pos[i] # pos[j]
      BY <1>2, <2>2
    <3> QED
      BY <1>8, <3>1 DEF Health!AtStation
  <2>3. ASSUME NEW e \in all PROVE \E k \in 1..m : e \in P[k]
    <3>1. PICK s \in stations : s = E[e].station
      BY <1>0, <1>9
    <3>2. e \in Health!AtStation(E, s)
      BY <1>9, <3>1 DEF Health!AtStation
    <3>3. all \cap Health!AtStation(E, s) # {}
      BY <3>2
    <3>4. Health!OpenCritical(E, s) > 0
      BY <1>8, <3>3, <1>0, OpenAreFew
    <3>5. s \in O
      BY <1>2, <3>4
    <3>6. PICK k \in 1..m : pos[k] = s
      BY <1>2, <3>5
    <3> QED
      BY <1>8, <3>2, <3>6
  <2>4. all = UNION {P[k] : k \in 1..m}
    <3>1. \A k \in 1..m : P[k] \in SUBSET all
      BY <1>8
    <3> QED
      BY <2>3, <3>1
  <2>5. IsFiniteSet(1..m)
    BY <1>2, FS_Interval
  <2> QED
    BY <1>9, <2>1, <2>2, <2>4, <2>5 DEF Parts
<1>11. SumFunction(h) = Cardinality(all)
  <2>1. IsFiniteSet(1..m) /\ h \in [1..m -> Nat]
    BY <1>10 DEF Parts
  <2>2. PICK g : SumsUp(g, h, 1..m) /\ SumFunction(h) = g[1..m]
    BY <2>1, PlainSum
  <2> QED
    BY <1>10, <2>2, SumOfParts
<1> QED
  BY <1>5, <1>6, <1>7, <1>8, <1>11 DEF TopAgrees

\* A series with the score of each day tells what is asked of it.
LEMMA SeriesTells ==
  ASSUME Scored(events), NEW s, NEW days \in 1..(Health!Day(Now) + 1), NEW history,
         Daily(history, days, events, Health!AtStation(events, s))
  PROVE  TellsDays(history, s, days)
<1> DEFINE all == Health!AtStation(events, s)
           worst == Health!WorstDays(history, 2)
           lost == SumFunction([k \in 1..days |-> Perfect - history[k].score])
<1>0. /\ all = Health!AtStation(events, s) /\ worst = Health!WorstDays(history, 2)
      /\ lost = SumFunction([k \in 1..days |-> Perfect - history[k].score])
  OBVIOUS
<1> HIDE DEF all, worst, lost
<1>1. PICK today \in Nat : today = Now \div DayLength /\ today = Health!Day(Now)
  <2>1. Now \in Nat /\ DayLength \in Nat \ {0}
    BY InputAssumption DEF Health!ScoreParameters
  <2> QED
    BY <2>1, Quotient DEF Health!Day
<1>2. days \in Nat \ {0} /\ Scored(events)
  BY <1>1
<1>3. Daily(history, days, events, all)
  BY <1>0
<1>4. /\ Len(history) = days /\ DOMAIN history = 1..days
      /\ \A k \in 1..days :
           /\ history[k].day = today - (days - k)
           /\ history[k].score = Health!PointsLeft(events, {e \in all : Health!Day(events[e].at) = history[k].day})
  BY <1>1, <1>3 DEF Daily
<1>5. history[days].day = Health!Day(Now)
  <2>1. days \in 1..days
    BY <1>2
  <2>2. history[days].day = today - (days - days)
    BY <1>4, <2>1
  <2> QED
    BY <1>1, <1>2, <2>2
<1>6. \A k \in 1..days : history[k].score < Perfect => Health!Fired(events, s, history[k].day, 0, Now + 1) # {}
  <2> SUFFICES ASSUME NEW k \in 1..days, history[k].score < Perfect
               PROVE  Health!Fired(events, s, history[k].day, 0, Now + 1) # {}
    OBVIOUS
  <2>1. PICK day : day = history[k].day
    OBVIOUS
  <2>2. Health!PointsLeft(events, {e \in all : Health!Day(events[e].at) = day}) < Perfect
    BY <1>4, <2>1
  <2> QED
    BY <1>0, <1>2, <2>1, <2>2, FiredOnThatDay
<1>7. \A k \in 1..days : history[k].score \in Nat /\ history[k].day \in Int
  <2> SUFFICES ASSUME NEW k \in 1..days PROVE history[k].score \in Nat /\ history[k].day \in Int
    OBVIOUS
  <2>1. PICK es : es = {e \in all : Health!Day(events[e].at) = history[k].day}
    OBVIOUS
  <2>2. es \in SUBSET (1..Len(events))
    BY <1>0, <1>2, <2>1, LiveScore
  <2>3. history[k].score = Health!PointsLeft(events, es) /\ history[k].day = today - (days - k)
    BY <1>4, <2>1
  <2>4. history[k].score \in Nat
    BY <1>2, <2>2, <2>3, DayLoses
  <2>5. today - (days - k) \in Int
    BY <1>2
  <2> QED
    BY <2>3, <2>4, <2>5
<1>8. \A j, k \in 1..days : history[j].day = history[k].day => j = k
  <2> SUFFICES ASSUME NEW j \in 1..days, NEW k \in 1..days, history[j].day = history[k].day
               PROVE  j = k
    OBVIOUS
  <2>1. today - (days - j) = today - (days - k)
    BY <1>4
  <2> QED
    BY <1>2, <2>1
<1>9. \A k \in 1..days : \A w \in 1..Len(worst) :
        history[k] \notin Range(worst) => worst[w].score <= history[k].score
  BY <1>0, <1>2, <1>4, <1>7, <1>8, WorstAreWorst
<1>10. days = Health!Day(Now) + 1 => lost >= Perfect - Health!PointsLeft(events, all)
  BY <1>0, <1>1, <1>2, <1>3, HistoryLoses
<1> QED
  BY <1>4, <1>5, <1>6, <1>9, <1>10, Zenon DEF TellsDays, all, worst, lost

LEMMA ScoresHold ==
  ASSUME events \in Seq(Incident)
  PROVE  ScoresAgree
<1>1. Scored(events) /\ (\A i \in 1..Len(events) : events[i].station \in Stations)
  <2>1. Len(events) \in Nat /\ \A i \in 1..Len(events) : events[i] \in Incident
    BY SeqElements
  <2>2. \A e \in Incident : /\ e.station \in Nat /\ e.at \in Nat /\ e.at <= Now
                            /\ e.severity \in {"critical", "warn", "info"}
    BY InputAssumption
  <2> QED
    BY <2>1, <2>2 DEF Scored, Stations
<1>2. IsFiniteSet(Stations) /\ Stations \subseteq Nat
  BY InputAssumption DEF Stations
<1>3. Now \in Nat /\ DayLength \in Nat \ {0} /\ Perfect \in Nat \ {0}
  BY InputAssumption DEF Health!ScoreParameters
<1>5. ASSUME NEW s \in Stations, NEW days \in 1..(Health!Day(Now) + 1)
      PROVE  LET all == Health!AtStation(events, s)
                 answer == Health!History(events, s, Now, days)
             IN  /\ TellsDays(Health!DayScores(events, all, Now, days), s, days)
                 /\ answer.ok => TellsDays(answer.days, s, days)
                 /\ ~answer.ok => \E e \in all : /\ Health!IsOpen(events, e)
                                                 /\ events[e].at + days * DayLength >= Now
  <2>1. PICK all, answer, counted :
          /\ all = Health!AtStation(events, s) /\ answer = Health!History(events, s, Now, days)
          /\ counted = {e \in all : Health!IsOpen(events, e) /\ events[e].at >= Health!Since(Now, days)}
    OBVIOUS
  <2>2. Now \div DayLength \in Nat /\ days \in Nat \ {0}
    <3>1. Now \div DayLength \in Nat
      BY <1>3, Quotient
    <3> QED
      BY <3>1 DEF Health!Day
  <2>3. all \in SUBSET all /\ counted \in SUBSET all
    BY <2>1
  <2>4. TellsDays(Health!DayScores(events, all, Now, days), s, days)
    <3>1. Daily(Health!DayScores(events, all, Now, days), days, events, all)
      BY <1>1, <2>1, <2>2, SeriesIsDaily
    <3> QED
      BY <1>1, <2>1, <3>1, SeriesTells
  <2>5. TellsDays(Health!DayScores(events, counted, Now, days), s, days)
    <3>1. Daily(Health!DayScores(events, counted, Now, days), days, events, all)
      BY <1>1, <2>1, <2>2, <2>3, SeriesIsDaily
    <3> QED
      BY <1>1, <2>1, <3>1, SeriesTells
  <2>6. answer = IF \E e \in counted : Health!DateOf(events[e].at) = "NULL"
                 THEN [ok |-> FALSE, days |-> <<>>]
                 ELSE [ok |-> TRUE, days |-> Health!DayScores(events, counted, Now, days)]
    BY <2>1, Zenon DEF Health!History
  <2>7. answer.ok => answer.days = Health!DayScores(events, counted, Now, days)
    BY <2>6
  <2>8. ASSUME ~answer.ok
        PROVE  \E e \in all : Health!IsOpen(events, e) /\ events[e].at + days * DayLength >= Now
    <3>1. PICK e \in counted : TRUE
      BY <2>6, <2>8
    <3>2. e \in all /\ Health!IsOpen(events, e) /\ events[e].at >= Now - days * DayLength
      BY <2>1, <3>1 DEF Health!Since
    <3>3. events[e].at \in Nat
      BY <1>1, <2>1, <3>2, LiveScore DEF Scored
    <3>4. PICK n \in Nat : n = days * DayLength
      BY <1>3, <2>2
    <3>5. events[e].at + n >= Now
      BY <1>3, <3>2, <3>3, <3>4
    <3> QED
      BY <3>2, <3>4, <3>5
  <2>9. answer.ok => TellsDays(answer.days, s, days)
    BY <2>5, <2>7
  <2> QED
    BY <2>1, <2>4, <2>8, <2>9
<1>6. ASSUME NEW s \in Stations
      PROVE  LET all == Health!AtStation(events, s)
                 exact == Health!PointsLeft(events, all)
             IN  \A score \in Health!Scores(events, s) :
                   score >= exact /\ (Cardinality(all) <= ScoreLimit => score = exact)
  BY <1>1, LiveScore, Zenon
<1>7. Located(events, Stations)
  BY <1>1, <1>2 DEF Located
<1>8. LET top == Health!TopOffenders(events, Stations, Cardinality(Stations))
      IN  /\ SumFunction([k \in 1..Len(top) |-> top[k].open]) =
               Cardinality(Health!OpenOf(events, "critical"))
          /\ \A k \in 2..Len(top) : top[k - 1].open >= top[k].open
          /\ Health!TopOffenders(events, Stations, 1) = SubSeq(top, 1, Min({1, Len(top)}))
  <2> DEFINE top == Health!TopOffenders(events, Stations, Cardinality(Stations))
  <2>1. top = Health!TopOffenders(events, Stations, Cardinality(Stations))
    OBVIOUS
  <2> HIDE DEF top
  <2>2. TopAgrees(events, Stations, top)
    BY <1>7, <2>1, TopIsAll, Zenon
  <2> QED
    BY <2>2, Zenon DEF top, TopAgrees
<1> QED
  BY <1>5, <1>6, <1>8, Zenon DEF ScoresAgree

\* Whatever events are in the table, the parts of the service agree on them: the
\* live score is that of all open events of the station or, when they are not all
\* among the latest, better; a day has the score that its own events leave, in the
\* history as well when that answers, which it only fails to do when an event of
\* its days is open; all days together lose at least what the live score loses;
\* no day that is left out is worse than one of the worst; and the offenders
\* have all open critical events between them, from the most on.
THEOREM ScoresAreRight == LibrarySpec => []ScoresAgree
<1>1. events \in Seq(Incident) => ScoresAgree
  BY ScoresHold
<1>2. LibrarySpec => [](events \in Seq(Incident))
  BY EventsAreIncidents
<1> QED
  BY <1>1, <1>2, PTL
=============================================================================
