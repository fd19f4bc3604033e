------------------------- MODULE DiagnosticsProofs -------------------------
(***************************************************************************)
(* Theorems about the diagnosis of a job, for any measurements.  Rules and *)
(* grades repeat the same limits in two files of the code (rules.py and    *)
(* diagnostics_stage.py); the theorems say that they agree.                *)
(***************************************************************************)
EXTENDS Diagnostics, TLAPS

Metrics == {"word_error_rate", "snr_db", "fluency_score", "correction_count"}

(* Any dict whose metrics are numbers.                                     *)
Measured(input) == \A m \in Metrics \cap DOMAIN input : input[m] \in Int

(* The key in stage_health for the stage of a rule.                        *)
HealthKey(stage) == IF stage = "audio_capture" THEN "audio_preprocessing" ELSE stage

(* FiveRules: the rules, one by one.                                       *)
LEMMA FiveRules ==
    /\ DOMAIN RULES = 1 .. 5
    /\ RULES[1] = Rule("STT-001", "speech_to_text", "word_error_rate", "above", 2000, "CRITICAL")
    /\ RULES[2] = Rule("STT-002", "speech_to_text", "word_error_rate", "above", 1500, "WARN")
    /\ RULES[3] = Rule("AUD-001", "audio_capture", "snr_db", "below", 1000, "WARN")
    /\ RULES[4] = Rule("NLP-001", "natural_phrasing", "fluency_score", "below", 5000, "WARN")
    /\ RULES[5] = Rule("GRM-001", "grammar_correction", "correction_count", "at_least", 3, "WARN")
BY DEF RULES

(* WhenTriggered: the condition of each rule, in the terms of a snapshot.  *)
LEMMA WhenTriggered ==
    ASSUME NEW snapshot
    PROVE  /\ Triggered(snapshot) \subseteq 1 .. 5
           /\ 1 \in Triggered(snapshot) <=> snapshot["word_error_rate"] > 2000
           /\ 2 \in Triggered(snapshot) <=> snapshot["word_error_rate"] > 1500
           /\ 3 \in Triggered(snapshot) <=> snapshot["snr_db"] < 1000
           /\ 4 \in Triggered(snapshot) <=> snapshot["fluency_score"] < 5000
           /\ 5 \in Triggered(snapshot) <=> snapshot["correction_count"] >= 3
BY FiveRules DEF Triggered, Condition, Rule

(* AlertsShowInHealth: whatever rule fires, its stage is not HEALTHY in    *)
(* stage_health, and it is CRITICAL there if the alert is.                 *)
THEOREM AlertsShowInHealth ==
    ASSUME NEW input, Measured(input), NEW errors,
           NEW i \in Triggered(Snapshot(input))
    PROVE  LET health == StageHealth(Snapshot(input), errors)[HealthKey(RULES[i].stage)]
           IN  /\ health # "HEALTHY"
               /\ RULES[i].severity = "CRITICAL" => health = "CRITICAL"
<1> DEFINE snapshot == Snapshot(input)
<1>1. /\ snapshot["word_error_rate"] \in Int /\ snapshot["snr_db"] \in Int
      /\ snapshot["fluency_score"] \in Int /\ snapshot["correction_count"] \in Int
  BY DEF Measured, Metrics, Snapshot, Get
<1> HIDE DEF snapshot
<1>2. i \in {1, 2, 3, 4, 5}
  BY WhenTriggered
<1>3. CASE i = 1
  BY <1>1, <1>3, FiveRules, WhenTriggered DEF Rule, StageHealth, Grade, HealthKey, snapshot
<1>4. CASE i = 2
  BY <1>1, <1>4, FiveRules, WhenTriggered DEF Rule, StageHealth, Grade, HealthKey, snapshot
<1>5. CASE i = 3
  BY <1>1, <1>5, FiveRules, WhenTriggered DEF Rule, StageHealth, Grade, HealthKey, snapshot
<1>6. CASE i = 4
  BY <1>1, <1>6, FiveRules, WhenTriggered DEF Rule, StageHealth, Grade, HealthKey, snapshot
<1>7. CASE i = 5
  BY <1>1, <1>7, FiveRules, WhenTriggered DEF Rule, StageHealth, Grade, HealthKey, snapshot
<1> QED
  BY <1>2, <1>3, <1>4, <1>5, <1>6, <1>7

(* MostSevereFirst: triggered[0], which the generic cause reports as the   *)
(* most severe rule (diagnostics_stage.py:141), is: if a CRITICAL rule     *)
(* fired, it comes first.                                                  *)
THEOREM MostSevereFirst ==
    ASSUME NEW snapshot, NEW i \in Triggered(snapshot),
           RULES[i].severity = "CRITICAL"
    PROVE  FirstTriggered(Triggered(snapshot)).severity = "CRITICAL"
<1>1. i = 1
  BY FiveRules, WhenTriggered DEF Rule
<1>2. \A k \in Triggered(snapshot) : 1 <= k
  BY WhenTriggered
<1>3. (CHOOSE first \in Triggered(snapshot) : \A k \in Triggered(snapshot) : first <= k) = 1
  BY <1>1, <1>2, WhenTriggered
<1>4. FirstTriggered(Triggered(snapshot)) = RULES[1]
  BY <1>3, Zenon DEF FirstTriggered
<1> QED
  BY <1>1, <1>4

(* NamedCausesNeedMetrics: without snr_db and correction_count among its   *)
(* inputs, which no direct dependency of diagnostics hands on, the stage   *)
(* never finds one of the two named causes, whatever was measured.         *)
THEOREM NamedCausesNeedMetrics ==
    ASSUME NEW input, "snr_db" \notin DOMAIN input, "correction_count" \notin DOMAIN input
    PROVE  Diagnose(input).root_cause \notin {<<"RCA-01">>, <<"RCA-02">>}
<1> DEFINE snapshot == Snapshot(input)
<1>1. snapshot["snr_db"] = 2200 /\ snapshot["correction_count"] = 0
  BY DEF Snapshot, Get
<1> HIDE DEF snapshot
<1>2. 3 \notin Triggered(snapshot) /\ 5 \notin Triggered(snapshot) /\ Triggered(snapshot) \subseteq 1 .. 5
  BY <1>1, WhenTriggered
<1>3. "AUD-001" \notin Codes(Triggered(snapshot)) /\ "GRM-001" \notin Codes(Triggered(snapshot))
  <2>1. \A i \in Triggered(snapshot) : i \in {1, 2, 4}
    BY <1>2
  <2>2. \A i \in {1, 2, 4} : RULES[i].dtc_code \in {"STT-001", "STT-002", "NLP-001"}
    BY FiveRules DEF Rule
  <2> QED
    BY <2>1, <2>2 DEF Codes
<1>4. RootCause(Triggered(snapshot)) \notin {<<"RCA-01">>, <<"RCA-02">>}
  BY <1>3 DEF RootCause
<1>5. Diagnose(input).root_cause = RootCause(Triggered(snapshot))
  BY DEF Diagnose, snapshot
<1> QED
  BY <1>4, <1>5
=============================================================================
