---------------------------- MODULE Diagnostics ----------------------------
(***************************************************************************)
(* The diagnosis of a job: the rules of workers/stages/rules.py and run()  *)
(* of workers/stages/diagnostics_stage.py.  Rates and scores are counted   *)
(* in ten-thousandths and decibels in hundredths, the digits to which the  *)
(* stages round them, so that numbers are integers here.                   *)
(***************************************************************************)
EXTENDS Integers

(* input_data.get(key, default)                                            *)
Get(input, key, default) == IF key \in DOMAIN input THEN input[key] ELSE default

(* A rule fires when its metric is above, below or at least the limit.     *)
Rule(code, stage, metric, fires, limit, severity) ==
    [dtc_code |-> code, stage |-> stage, metric |-> metric,
     fires |-> fires, limit |-> limit, severity |-> severity]

RULES ==
    << Rule("STT-001", "speech_to_text", "word_error_rate", "above", 2000, "CRITICAL"),
       Rule("STT-002", "speech_to_text", "word_error_rate", "above", 1500, "WARN"),
       Rule("AUD-001", "audio_capture", "snr_db", "below", 1000, "WARN"),
       Rule("NLP-001", "natural_phrasing", "fluency_score", "below", 5000, "WARN"),
       Rule("GRM-001", "grammar_correction", "correction_count", "at_least", 3, "WARN") >>

Condition(rule, v) ==
    \/ rule.fires = "above" /\ v > rule.limit
    \/ rule.fires = "below" /\ v < rule.limit
    \/ rule.fires = "at_least" /\ v >= rule.limit

(* token_count is left out: no rule and no stage looks at it.              *)
Snapshot(input) ==
    [word_error_rate  |-> Get(input, "word_error_rate", 600),
     snr_db           |-> Get(input, "snr_db", 2200),
     fluency_score    |-> Get(input, "fluency_score", 8500),
     correction_count |-> Get(input, "correction_count", 0)]

(* The list triggered, as the positions of its rules in RULES.             *)
Triggered(snapshot) ==
    {i \in DOMAIN RULES : Condition(RULES[i], snapshot[RULES[i].metric])}

Codes(triggered) == {RULES[i].dtc_code : i \in triggered}

(* triggered[0]                                                            *)
FirstTriggered(triggered) ==
    RULES[CHOOSE i \in triggered : \A k \in triggered : i <= k]

PipelineStatus(triggered) ==
    IF \E i \in triggered : RULES[i].severity = "CRITICAL" THEN "CRITICAL"
    ELSE IF triggered # {} THEN "DEGRADED"
    ELSE "HEALTHY"

(* The matched rule, and the alert that the generic one reports.           *)
RootCause(triggered) ==
    IF triggered = {} THEN <<"none">>
    ELSE IF {"AUD-001", "STT-001"} \subseteq Codes(triggered) THEN <<"RCA-01">>
    ELSE IF {"NLP-001", "GRM-001"} \subseteq Codes(triggered) THEN <<"RCA-02">>
    ELSE <<"RCA-GENERIC", FirstTriggered(triggered).dtc_code>>

Grade(critical, degraded) ==
    IF critical THEN "CRITICAL" ELSE IF degraded THEN "DEGRADED" ELSE "HEALTHY"

StageHealth(snapshot, has_grammar_errors) ==
    [audio_preprocessing |-> Grade(snapshot.snr_db < 500, snapshot.snr_db < 1000),
     speech_to_text      |-> Grade(snapshot.word_error_rate > 2000,
                                   snapshot.word_error_rate > 1500),
     nlp_processing      |-> Grade(FALSE, has_grammar_errors),
     grammar_correction  |-> Grade(FALSE, snapshot.correction_count >= 3),
     natural_phrasing    |-> Grade(snapshot.fluency_score < 5000,
                                   snapshot.fluency_score < 7000),
     diagnostics         |-> "HEALTHY"]

Diagnose(input) ==
    LET snapshot == Snapshot(input)
        triggered == Triggered(snapshot)
    IN  [pipeline_status  |-> PipelineStatus(triggered),
         active_alerts    |-> Codes(triggered),
         root_cause       |-> RootCause(triggered),
         stage_health     |-> StageHealth(snapshot, Get(input, "has_grammar_errors", FALSE)),
         metrics_snapshot |-> snapshot]
=============================================================================
