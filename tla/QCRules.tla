------------------------------ MODULE QCRules -------------------------------
(***************************************************************************)
(* The built-in quality-control rules (qc_rules.go) and the engine that    *)
(* runs them (qc_engine.go).  A frame is judged by its aggregates, integer *)
(* counts here; the quotients of the code are multiplied out.  A rule      *)
(* yields at most one finding on a frame and the severity of a finding     *)
(* depends on its rule alone, so a finding is named by its rule.           *)
(***************************************************************************)
EXTENDS Integers, Sequences

Rule == {"SPIKE", "CLIPPING", "GAP", "RMS_DRIFT", "SENSITIVITY_DRIFT"}

Severity ==
  [r \in Rule |-> CASE r \in {"SPIKE", "CLIPPING"} -> "critical"
                    [] r \in {"GAP", "RMS_DRIFT"}  -> "warn"
                    [] OTHER                       -> "info"]

Abs(x) == IF x < 0 THEN -x ELSE x

\* history: the recent frames the engine is given, newest first.
SumRMS(history) ==
  LET sum[i \in 0..Len(history)] ==
        IF i = 0 THEN 0 ELSE sum[i - 1] + history[i].rms
  IN  sum[Len(history)]

SpikeFires(f) == f.max - f.min > 1000000 /\ f.max > 0 /\ f.min < 0

ClippingFires(f) == Abs(f.max) >= 900000 \/ Abs(f.min) >= 900000

GapFires(gap) == gap > 5000

\* current RMS > 3 * average of the history, with at least ten frames of it
RMSDriftFires(f, history) ==
  /\ Len(history) >= 10
  /\ SumRMS(history) > 0
  /\ f.rms * Len(history) > 3 * SumRMS(history)

\* |mean| / sensitivity > 0.05
SensitivityDriftFires(f, sensitivity) ==
  sensitivity > 0 /\ 20 * Abs(f.mean) > sensitivity

FindingIf(b, r) == IF b THEN <<r>> ELSE <<>>

\* QCEngine.Evaluate: one event per finding, in registration order
\* (RegisterDefaultRules).
Evaluate(f, gap, history, sensitivity) ==
  FindingIf(SpikeFires(f), "SPIKE")
  \o FindingIf(ClippingFires(f), "CLIPPING")
  \o FindingIf(GapFires(gap), "GAP")
  \o FindingIf(RMSDriftFires(f, history), "RMS_DRIFT")
  \o FindingIf(SensitivityDriftFires(f, sensitivity), "SENSITIVITY_DRIFT")
=============================================================================
