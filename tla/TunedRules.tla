------------------------------ MODULE TunedRules ------------------------------
(***************************************************************************)
(* Threshold profiles and rule tuning (threshold_profile.go,               *)
(* qc_rule_tuning.go): an operator stores profiles, wraps the engine's     *)
(* rules in one and toggles the suppression of warnings, rule by rule,     *)
(* while the worker judges frames, rule by rule too; nothing locks the     *)
(* engine's slice of rules.                                                *)
(***************************************************************************)
EXTENDS QCRules, Functions

CONSTANTS
  Station,
  Profile,      \* overrides: spike, clipping, gap, ratio
  Context       \* what rules judge: a frame, its gap, history, sensitivity

TuningParameters ==
  /\ LET Positive == Nat \ {0}                                   \* Validate
     IN  Profile \subseteq [spike : Positive, clipping : Positive, gap : Positive,
                           ratio : Positive]
  /\ Context \subseteq [frame : [max : Int, min : Int, mean : Int, rms : Nat], gap : Int,
                       history : Seq([rms : Nat]), sensitivity : Int]

Default == [spike |-> 1000000, clipping |-> 900000, gap |-> 5000, ratio |-> 3]

\* no profile: the thresholds are those of the rules themselves
Plain == [spike |-> 0, clipping |-> 0, gap |-> 0, ratio |-> 0]

VARIABLES
  stored,       \* threshold_profiles: per station a profile, or Plain
  rules,        \* e.rules: what each rule is wrapped in
  toggling,     \* where SetEngineSuppressWarn is
  judging,      \* where the worker's Evaluate is
  verdict       \* history: the last frame judged, until the next one is taken up

vars == <<stored, rules, toggling, judging, verdict>>

\* RegisterDefaultRules, in this order.
Rules == <<"SPIKE", "CLIPPING", "GAP", "RMS_DRIFT", "SENSITIVITY_DRIFT">>

Unwrapped == [profile |-> Plain, suppress |-> FALSE]

NoJob == [next |-> 0]

Fires(rule, fc) ==
  CASE rule = "SPIKE" -> SpikeFires(fc.frame)
    [] rule = "CLIPPING" -> ClippingFires(fc.frame)
    [] rule = "GAP" -> GapFires(fc.gap)
    [] rule = "RMS_DRIFT" -> RMSDriftFires(fc.frame, fc.history)
    [] OTHER -> SensitivityDriftFires(fc.frame, fc.sensitivity)

\* rmsDriftBelowThreshold: no average to compare with, or a lower ratio.
RMSDriftBelow(ratio, fc) ==
  \/ fc.history = <<>> \/ fc.frame.rms <= 0 \/ SumRMS(fc.history) <= 0
  \/ fc.frame.rms * Len(fc.history) < ratio * SumRMS(fc.history)

\* belowTunedThreshold; the sensitivity ratio of a profile has no case here.
Below(rule, p, fc) ==
  \/ rule = "SPIKE" /\ fc.frame.max - fc.frame.min < p.spike
  \/ rule = "CLIPPING" /\ Abs(fc.frame.max) < p.clipping /\ Abs(fc.frame.min) < p.clipping
  \/ rule = "GAP" /\ fc.gap <= p.gap
  \/ rule = "RMS_DRIFT" /\ RMSDriftBelow(p.ratio, fc)

\* TunedRule.Evaluate: what is left of the finding of a rule.
Finds(rule, wrap, fc) ==
  /\ Fires(rule, fc)
  /\ wrap.profile # Plain =>
       /\ ~Below(rule, wrap.profile, fc)
       /\ ~(Severity[rule] = "warn" /\ wrap.suppress)

\* LoadThresholdProfile
Effective(s) == IF stored[s] = Plain THEN Default ELSE stored[s]
-----------------------------------------------------------------------------
Init ==
  /\ stored = [s \in Station |-> Plain]
  /\ rules = [k \in 1..Len(Rules) |-> Unwrapped]
  /\ toggling = NoJob /\ judging = NoJob
  /\ verdict = NoJob

\* INSERT OR REPLACE
UpsertThresholdProfile(s, p) ==
  /\ stored' = [stored EXCEPT ![s] = p]
  /\ UNCHANGED <<rules, toggling, judging, verdict>>

\* The new rules are written into the slice that is there.
ApplyInPlace(p) ==
  /\ toggling = NoJob
  /\ rules' = [k \in DOMAIN rules |->
       IF p = Plain THEN Unwrapped ELSE [profile |-> p, suppress |-> FALSE]]
  /\ UNCHANGED <<stored, toggling, judging, verdict>>

\* The new rules are a slice of their own: an Evaluate under way goes on with
\* the old one.  Wrapping anew forgets the suppression of warnings; Plain is an
\* absent profile.  The profile of one station is applied to the frames of all.
Apply(p) ==
  /\ toggling = NoJob
  /\ rules' = [k \in DOMAIN rules |->
       IF p = Plain THEN Unwrapped ELSE [profile |-> p, suppress |-> FALSE]]
  /\ judging' = IF judging # NoJob /\ judging.old = <<>> THEN [judging EXCEPT !.old = rules]
                ELSE judging
  /\ UNCHANGED <<stored, toggling, verdict>>

ApplyProfile == Apply(Plain) \/ \E s \in Station : Apply(Effective(s))

\* An Evaluate under way notes the value, see Begin.
SetEngineSuppressWarn(b) ==
  /\ toggling = NoJob
  /\ toggling' = [next |-> 1, to |-> b]
  /\ judging' = IF judging # NoJob /\ judging.old = <<>>
                THEN [judging EXCEPT !.values = @ \cup {b}] ELSE judging
  /\ UNCHANGED <<stored, rules, verdict>>

\* One turn of its loop; a plain rule is passed over, not wrapped.
Toggle ==
  /\ toggling # NoJob
  /\ LET k == toggling.next
     IN  /\ rules' = IF rules[k].profile = Plain THEN rules
                     ELSE [rules EXCEPT ![k].suppress = toggling.to]
         /\ toggling' = IF k = Len(Rules) THEN NoJob ELSE [toggling EXCEPT !.next = k + 1]
  /\ UNCHANGED <<stored, judging, verdict>>

\* profile and values are history: the profile in force now, and the values
\* suppression has for some rule at some time of this Evaluate.
Begin(fc) ==
  /\ judging = NoJob
  /\ judging' = [next |-> 1, fc |-> fc, found |-> {}, old |-> <<>>,
                 profile |-> rules[1].profile,
                 values |-> {rules[k].suppress : k \in DOMAIN rules}
                              \cup IF toggling = NoJob THEN {} ELSE {toggling.to}]
  /\ verdict' = NoJob
  /\ UNCHANGED <<stored, rules, toggling>>

\* One turn of Evaluate's loop over the slice it began with.
Judge ==
  /\ judging # NoJob
  /\ LET k == judging.next
         wraps == IF judging.old = <<>> THEN rules ELSE judging.old
         found == judging.found \cup IF Finds(Rules[k], wraps[k], judging.fc) THEN {Rules[k]} ELSE {}
     IN  IF k < Len(Rules)
           THEN /\ judging' = [judging EXCEPT !.next = k + 1, !.found = found]
                /\ UNCHANGED verdict
           ELSE /\ judging' = NoJob
                /\ verdict' = [fc |-> judging.fc, found |-> found,
                               profile |-> judging.profile, values |-> judging.values]
  /\ UNCHANGED <<stored, rules, toggling>>

Next ==
  \/ \E s \in Station, p \in Profile : UpsertThresholdProfile(s, p)
  \/ ApplyProfile
  \/ \E b \in BOOLEAN : SetEngineSuppressWarn(b)
  \/ \E fc \in Context : Begin(fc)
  \/ Toggle \/ Judge

Spec == Init /\ [][Next]_vars
-----------------------------------------------------------------------------
\* A frame is judged by one profile, the one in force when its judgement began,
\* however profiles and suppression change meanwhile: what tuning takes away of
\* the default findings is what lies below that profile's thresholds, and
\* warnings, all of them if suppression was on throughout and none if it was
\* off; it adds nothing, and a profile of the default values takes nothing away.
JudgedByOneProfile ==
  verdict # NoJob =>
    LET fires == {r \in Range(Rules) : Fires(r, verdict.fc)}
        kept == IF verdict.profile = Plain THEN fires
                ELSE {r \in fires : ~Below(r, verdict.profile, verdict.fc)}
        warns == {r \in fires : Severity[r] = "warn"}
    IN  /\ verdict.found \subseteq kept /\ kept \ warns \subseteq verdict.found
        /\ TRUE \notin verdict.values \/ verdict.profile = Plain => verdict.found = kept
        /\ FALSE \notin verdict.values => verdict.found \cap warns = {}
        /\ verdict.profile = Default => kept = fires
=============================================================================
