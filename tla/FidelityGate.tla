----------------------------- MODULE FidelityGate -----------------------------
(***************************************************************************)
(* The gate on a trained attrition model (verification/model_gate.py):     *)
(* five employees are scored ten times each, the training is repeated, the *)
(* ten features are compared with the reference of the active version, and *)
(* the mean weights of what was found decide PASS, WARN or BLOCK; the      *)
(* four-fifths test on who is flagged may then lower PASS to WARN.         *)
(*                                                                         *)
(* Weights are hundredths, so a mean over n reports is a fraction of       *)
(* 100 n; the doubles of the code fall on the same side of 0.70 and 0.90   *)
(* for every combination of reports there can be.  Reports are counted by  *)
(* kind: no rule looks at their order.  What ModelGovernance does with the *)
(* gate is modelled there, where any gate may come out.                    *)
(***************************************************************************)
EXTENDS Naturals

CONSTANTS
  Statistics      \* PSI values tried, in hundredths

Features == 10    \* FEATURE_NAMES
ProbeSample == 5  \* training takes at least forty rows, so the sample is full
Repetitions == 10

ASSUME FidelityAssumption == Statistics \subseteq Nat

Stabilities == {"DETERMINISTIC", "NEAR_DETERMINISTIC", "UNSTABLE", "NON_DETERMINISTIC"}
Severities == {"STABLE", "MODERATE", "SIGNIFICANT"}
Gates == {"BLOCK", "WARN", "PASS"}

VARIABLES
  step,         \* where assess_model is
  determinism,  \* reports of the probes, by stability
  drift,        \* reports of the features, by severity
  training,     \* what the probe of the training found, "skipped" when it was not made
  impact,       \* verdict of the four-fifths test, "untested" without groups
  gate,         \* the gate so far, "none" before the scorer
  named,        \* findings listed in the report
  moved         \* history: features measured whose PSI was 0.25 or more

fidelityVars == <<step, determinism, drift, training, impact, gate, named, moved>>

\* How many reports there are of probes and of features.
Probed(d) == d["DETERMINISTIC"] + d["NEAR_DETERMINISTIC"] + d["UNSTABLE"] + d["NON_DETERMINISTIC"]
Measured(r) == r["STABLE"] + r["MODERATE"] + r["SIGNIFICANT"]

FidelityTypeOK ==
  /\ step \in {"score", "train", "drift", "gate", "impact", "done", "raised"}
  /\ determinism \in [Stabilities -> 0..(ProbeSample + 1)]
  /\ drift \in [Severities -> 0..Features]
  /\ training \in Stabilities \cup {"skipped"}
  /\ impact \in {"untested", "NO_ADVERSE_IMPACT", "ADVERSE_IMPACT", "INSUFFICIENT_DATA"}
  /\ gate \in Gates \cup {"none"}
  /\ named \in 0..(ProbeSample + 1 + Features + 1) /\ moved \in 0..Features
  /\ step \in {"gate", "impact", "done"} =>
       /\ Probed(determinism) = IF training = "skipped" THEN ProbeSample ELSE ProbeSample + 1
       /\ Measured(drift) \in {0, Features}

-----------------------------------------------------------------------------
\* Mutant of Stability: any output most runs agree on counts as near.
StabilityOfMost(modal, repetitions) ==
  IF modal = repetitions THEN "DETERMINISTIC"
  ELSE IF 100 * modal >= 60 * repetitions THEN "NEAR_DETERMINISTIC" ELSE "NON_DETERMINISTIC"

\* DeterminismProbe._classify: of the repetitions, modal gave the most common output.
Stability(modal, repetitions) ==
  CASE modal = repetitions -> "DETERMINISTIC"
    [] modal < repetitions /\ 100 * modal >= 95 * repetitions -> "NEAR_DETERMINISTIC"
    [] 100 * modal < 95 * repetitions /\ 100 * modal >= 60 * repetitions -> "UNSTABLE"
    [] 100 * modal < 60 * repetitions -> "NON_DETERMINISTIC"

\* _severity with the thresholds of population_stability_index.
Severity(psi) ==
  CASE psi >= 25 -> "SIGNIFICANT"
    [] psi < 25 /\ psi >= 10 -> "MODERATE"
    [] psi < 10 -> "STABLE"

\* The sums that _mean divides, with STABILITY_WEIGHT and DRIFT_WEIGHT in hundredths.
Reproduced(d) == 100 * d["DETERMINISTIC"] + 85 * d["NEAR_DETERMINISTIC"] + 45 * d["UNSTABLE"]
Steady(r) == 100 * r["STABLE"] + 60 * r["MODERATE"]

\* The combined score is bar hundredths or more: 0.6 of one mean and 0.4 of the other, or
\* the determinism alone when no drift was measured.
AtLeast(d, r, bar) ==
  IF Measured(r) = 0 THEN Reproduced(d) >= bar * Probed(d)
  ELSE 6 * Reproduced(d) * Measured(r) + 4 * Steady(r) * Probed(d)
         >= 10 * bar * Probed(d) * Measured(r)

\* FidelityScorer._gate
GateOf(d, r) ==
  IF ~AtLeast(d, r, 70) THEN "BLOCK" ELSE IF ~AtLeast(d, r, 90) THEN "WARN" ELSE "PASS"

\* _findings: reports of probes that do not pass and of features that drifted.
Findings(d, r) == d["UNSTABLE"] + d["NON_DETERMINISTIC"] + r["MODERATE"] + r["SIGNIFICANT"]

-----------------------------------------------------------------------------
FidelityInit ==
  /\ step = "score"
  /\ determinism = [k \in Stabilities |-> 0]
  /\ drift = [k \in Severities |-> 0]
  /\ training = "skipped" /\ impact = "untested" /\ gate = "none" /\ named = 0 /\ moved = 0

\* One employee of the sample is scored Repetitions times.
ProbeScore(modal) ==
  /\ step = "score" /\ modal \in 1..Repetitions
  /\ determinism' = [determinism EXCEPT ![Stability(modal, Repetitions)] = @ + 1]
  /\ step' = IF Probed(determinism) + 1 = ProbeSample THEN "train" ELSE "score"
  /\ UNCHANGED <<drift, training, impact, gate, named, moved>>

\* The model is trained twice more; the twins score the sample alike or not.
ProbeTraining(modal) ==
  /\ step = "train" /\ modal \in 1..2
  /\ training' = Stability(modal, 2)
  /\ determinism' = [determinism EXCEPT ![Stability(modal, 2)] = @ + 1]
  /\ step' = "drift"
  /\ UNCHANGED <<drift, impact, gate, named, moved>>

\* More than RETRAIN_PROBE_MAX_ROWS rows: a note, and no report.
SkipTraining ==
  /\ step = "train" /\ step' = "drift"
  /\ UNCHANGED <<determinism, drift, training, impact, gate, named, moved>>

\* ProbeError: the assessment is abandoned.
RaiseInProbe ==
  /\ step \in {"score", "train"} /\ step' = "raised"
  /\ UNCHANGED <<determinism, drift, training, impact, gate, named, moved>>

\* No earlier version, or none with MIN_DRIFT_REFERENCE rows.
NoReference ==
  /\ step = "drift" /\ Measured(drift) = 0 /\ step' = "gate"
  /\ UNCHANGED <<determinism, drift, training, impact, gate, named, moved>>

\* population_stability_index of one feature; 0 when its reference has a single value.
MeasureDrift(psi) ==
  /\ step = "drift"
  /\ drift' = [drift EXCEPT ![Severity(psi)] = @ + 1]
  /\ moved' = IF psi >= 25 THEN moved + 1 ELSE moved
  /\ step' = IF Measured(drift) + 1 = Features THEN "gate" ELSE "drift"
  /\ UNCHANGED <<determinism, training, impact, gate, named>>

\* FidelityScorer.score
Score ==
  /\ step = "gate"
  /\ gate' = GateOf(determinism, drift)
  /\ named' = Findings(determinism, drift)
  /\ step' = "impact"
  /\ UNCHANGED <<determinism, drift, training, impact, moved>>

Lowered(g) == IF g = "PASS" THEN "WARN" ELSE g

\* The test on who is flagged HIGH, when the request gave groups.
TestImpact(verdict) ==
  /\ step = "impact"
  /\ impact' = verdict
  /\ IF verdict = "ADVERSE_IMPACT" THEN gate' = Lowered(gate) /\ named' = named + 1
     ELSE UNCHANGED <<gate, named>>
  /\ step' = "done"
  /\ UNCHANGED <<determinism, drift, training, moved>>

FidelityNext ==
  \/ \E modal \in 1..Repetitions : ProbeScore(modal) \/ ProbeTraining(modal)
  \/ SkipTraining \/ RaiseInProbe \/ NoReference
  \/ \E psi \in Statistics : MeasureDrift(psi)
  \/ Score
  \/ \E v \in {"untested", "NO_ADVERSE_IMPACT", "ADVERSE_IMPACT", "INSUFFICIENT_DATA"} : TestImpact(v)

FidelitySpec == FidelityInit /\ [][FidelityNext]_fidelityVars

-----------------------------------------------------------------------------
Rank(g) == CASE g = "BLOCK" -> 0 [] g = "WARN" -> 1 [] g = "PASS" -> 2

\* The reports with one of kind k turned into one of kind l.
Turned(reports, k, l) == [reports EXCEPT ![k] = @ - 1, ![l] = @ + 1]

\* A model is never served for being worse: had any probe of the assessment come out less
\* stable, or any feature drifted further, the gate would be the same or lower.
WorseIsNeverBetter ==
  step = "impact" =>
    /\ \A k, l \in {"DETERMINISTIC", "UNSTABLE", "NON_DETERMINISTIC"} :
         (determinism[k] > 0 /\ <<k, l>> \in {<<"DETERMINISTIC", "UNSTABLE">>,
                                              <<"DETERMINISTIC", "NON_DETERMINISTIC">>,
                                              <<"UNSTABLE", "NON_DETERMINISTIC">>})
           => Rank(GateOf(Turned(determinism, k, l), drift)) <= Rank(gate)
    /\ \A k, l \in Severities :
         (drift[k] > 0 /\ <<k, l>> \in {<<"STABLE", "MODERATE">>, <<"STABLE", "SIGNIFICANT">>,
                                        <<"MODERATE", "SIGNIFICANT">>})
           => Rank(GateOf(determinism, Turned(drift, k, l))) <= Rank(gate)

\* "A retrain on a population that has moved wholesale is held for a person to look at":
\* eight features out of ten are refused however well everything else was found, three are
\* enough for a warning.
WholesaleDriftIsHeld ==
  gate # "none" =>
    /\ moved >= 8 => gate = "BLOCK"
    /\ moved >= 3 => gate # "PASS"

\* Whoever is told WARN or BLOCK is told why: a gate below PASS names a finding, although
\* the probes that weigh less than one and the probes that are named are different sets.
HeldForAReason == gate \in {"WARN", "BLOCK"} => named > 0

\* A model passes with at most one probe that was not reproduced: two are always held.
PassToleratesOne ==
  gate = "PASS" => determinism["UNSTABLE"] + determinism["NON_DETERMINISTIC"] <= 1

\* "An adverse-impact finding can lower PASS to WARN but never raises anything", and with
\* one nothing passes.
ImpactNeverImproves ==
  step = "done" =>
    /\ Rank(gate) <= Rank(GateOf(determinism, drift))
    /\ impact = "ADVERSE_IMPACT" => gate # "PASS"

\* The gate of a model: worse findings never raise it, it is lowered for a reason, and what
\* the documents hold back is held back.
GateIsSound ==
  /\ FidelityTypeOK /\ WorseIsNeverBetter /\ WholesaleDriftIsHeld /\ HeldForAReason
  /\ PassToleratesOne /\ ImpactNeverImproves

=============================================================================
