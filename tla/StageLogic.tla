----------------------------- MODULE StageLogic -----------------------------
(***************************************************************************)
(* The pipeline of shared/constants.py and what its stages compute (the    *)
(* modules in workers/stages).  A stage maps the dict of its inputs to a   *)
(* dict; random draws and answers of a language model are choices from the *)
(* constant sets, so a stage is an operator that yields the set of its     *)
(* possible results.  An empty set means that run() raises.                *)
(*                                                                         *)
(* Of the keys, those are kept that a later stage or the report uses.  The *)
(* delays and latency_ms are left out.                                     *)
(***************************************************************************)
EXTENDS Diagnostics, FiniteSets

CONSTANTS
    Texts,          \* transcripts and corrected texts
    Flawed,         \* the texts for which the heuristics give hints
    NoText,         \* ""
    Null,           \* JSON null
    Durations,      \* what a client may send: numbers, Null
    SnrDbs, WerNoise, CorrectionCounts, FluencyScores   \* draws

ASSUME FlawedAssumption == Flawed \subseteq Texts

STAGE_DAG ==
    [audio_preprocessing |-> {},
     speech_to_text      |-> {"audio_preprocessing"},
     nlp_processing      |-> {"speech_to_text"},
     grammar_correction  |-> {"speech_to_text"},
     natural_phrasing    |-> {"grammar_correction"},
     diagnostics         |-> {"nlp_processing", "natural_phrasing"},
     aggregation         |-> {"diagnostics"}]

ALL_STAGES == DOMAIN STAGE_DAG

AtLeast(low, v) == IF v < low THEN low ELSE v
AtMost(high, v) == IF v > high THEN high ELSE v

-----------------------------------------------------------------------------
(* float(None) raises: the default is for a missing key only, and the API  *)
(* stores the null of a client.                                            *)
Audio(input) ==
    IF Get(input, "duration_ms", 1000) = Null
    THEN {}
    ELSE {[snr_db |-> snr, duration_ms |-> Get(input, "duration_ms", 1000)] :
             snr \in SnrDbs}

(* wer = 0.06 + max(0, (22 - snr) / 100) + noise, between 0 and 1.         *)
WordErrorRate(snr, noise) ==
    AtLeast(0, AtMost(10000, 600 + AtLeast(0, 2200 - snr) + noise))

(* Any text may be heard; words lost at a high error rate make another.    *)
SpeechToText(input) ==
    {[transcript |-> text,
      word_error_rate |-> WordErrorRate(Get(input, "snr_db", 2200), noise)] :
        text \in Texts, noise \in WerNoise}

(* Mutant of Nlp: does not pass the error rate on.                         *)
NlpKeepsRate(input) ==
    LET transcript == Get(input, "transcript", NoText)
    IN  {[original_text |-> transcript, has_grammar_errors |-> transcript \in Flawed]}

Nlp(input) ==
    LET transcript == Get(input, "transcript", NoText)
    IN  {[original_text |-> transcript,
          has_grammar_errors |-> transcript \in Flawed,
          word_error_rate |-> Get(input, "word_error_rate", 600)]}

(* Both backends: Claude may answer anything, the mock's table is one such *)
(* answer.                                                                 *)
Grammar(input) ==
    {[original_text |-> Get(input, "transcript", NoText),
      corrected_text |-> text, corrections_made |-> n, correction_count |-> n] :
        text \in Texts, n \in CorrectionCounts}

(* Mutant of Phrasing: passes on an error rate that it does not get.       *)
PhrasingPassesRate(input) ==
    {[original_text |-> Get(input, "original_text", NoText),
      corrected_text |-> Get(input, "corrected_text", NoText),
      word_error_rate |-> Get(input, "word_error_rate", 600),
      fluency_score |-> score] : score \in FluencyScores}

Phrasing(input) ==
    LET corrected == Get(input, "corrected_text", NoText)
    IN  {[original_text |-> Get(input, "original_text", corrected),
          corrected_text |-> corrected, fluency_score |-> score] :
            score \in FluencyScores}

(* Before rounding to one decimal: weights 4, 3 and 3, at most 10 points.  *)
OverallScore(fluency, wer, corrections) ==
    AtLeast(0, AtMost(100000,
        fluency * 4 + AtLeast(0, 10000 - wer) * 3 + AtLeast(0, 3 - corrections) * 10000))

(* The recommendations are wording.                                        *)
Aggregation(input) ==
    LET transcript == Get(input, "transcript", NoText)
        fluency == Get(input, "fluency_score", 8500)
        wer == Get(input, "word_error_rate", 600)
        corrections == Get(input, "corrections_made", 0)
    IN  {[session_report |->
             [original_transcript |-> transcript,
              corrected_text      |-> Get(input, "corrected_text", transcript),
              corrections_made    |-> corrections,
              pipeline_status     |-> Get(input, "pipeline_status", "HEALTHY"),
              active_alerts_count |-> Cardinality(Get(input, "active_alerts", {})),
              audio_quality_db    |-> Get(input, "snr_db", 2200)],
          overall_score   |-> OverallScore(fluency, wer, corrections),
          fluency_score   |-> fluency,
          word_error_rate |-> wer]}

(* The NLP worker picks the function by the stage in the message, the      *)
(* others have one.                                                        *)
Execute(stage, input) ==
    CASE stage = "audio_preprocessing" -> Audio(input)
      [] stage = "speech_to_text"      -> SpeechToText(input)
      [] stage = "nlp_processing"      -> Nlp(input)
      [] stage = "grammar_correction"  -> Grammar(input)
      [] stage = "natural_phrasing"    -> Phrasing(input)
      [] stage = "diagnostics"         -> {Diagnose(input)}
      [] stage = "aggregation"         -> Aggregation(input)
=============================================================================
