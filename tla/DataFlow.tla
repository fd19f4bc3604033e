------------------------------ MODULE DataFlow ------------------------------
(***************************************************************************)
(* How the results of one job's stages reach the stages that use them:     *)
(* BaseWorker._fetch_inputs, execute and the UPDATE that stores the        *)
(* result.  Scheduler, streams and monitor are reduced to what decides     *)
(* when an execution reads and when it writes: a task is queued when its   *)
(* dependencies are COMPLETED, an execution reads the rows in one step and *)
(* writes its own in a later one, and a task may be taken away from a      *)
(* worker that executes it, which then writes all the same (see System).   *)
(***************************************************************************)
EXTENDS StageLogic, SequencesExt

CONSTANTS
    Workers, NoStage,
    MaxRetries,     \* retries of every stage
    MaxGiveUps      \* bound: how many attempts of the job are given up

ASSUME MaxRetriesAssumption == MaxRetries \in Nat
ASSUME MaxGiveUpsAssumption == MaxGiveUps \in Nat
ASSUME NoStageAssumption == NoStage \notin ALL_STAGES

VARIABLES
    input_data,     \* jobs.input_data
    status, retry_count, result_json,   \* stage -> columns of its row in tasks
    stage,          \* worker -> what it executes
    fetched,        \* worker -> it has fetched its inputs
    inputs,         \* worker -> input_data of _process_message
    writes          \* history: stage -> how often its result was stored

rowVars == <<status, retry_count, result_json, writes>>
workerVars == <<stage, fetched, inputs>>
vars == <<input_data, rowVars, workerVars>>

(* A dict without keys, and the NULL of result_json.                       *)
Empty == <<>>

Init ==
    /\ input_data \in {[duration_ms |-> d] : d \in Durations}
    /\ status = [s \in ALL_STAGES |-> "PENDING"]
    /\ retry_count = [s \in ALL_STAGES |-> 0]
    /\ result_json = [s \in ALL_STAGES |-> Empty]
    /\ stage = [w \in Workers |-> NoStage]
    /\ fetched = [w \in Workers |-> FALSE]
    /\ inputs = [w \in Workers |-> Empty]
    /\ writes = [s \in ALL_STAGES |-> 0]

GiveUps == FoldFunction(+, 0, retry_count)

-----------------------------------------------------------------------------
(* Mutant of Ready: one of the dependencies is enough.                     *)
ReadyAfterOne(s) ==
    STAGE_DAG[s] = {} \/ \E d \in STAGE_DAG[s] : status[d] = "COMPLETED"

Ready(s) == \A d \in STAGE_DAG[s] : status[d] = "COMPLETED"

Enqueue(s) ==
    /\ status[s] = "PENDING" /\ Ready(s)
    /\ status' = [status EXCEPT ![s] = "ENQUEUED"]
    /\ UNCHANGED <<input_data, retry_count, result_json, writes>> /\ UNCHANGED workerVars

Claim(w, s) ==
    /\ stage[w] = NoStage
    /\ status[s] = "ENQUEUED"
    /\ status' = [status EXCEPT ![s] = "RUNNING"]
    /\ stage' = [stage EXCEPT ![w] = s]
    /\ UNCHANGED <<input_data, retry_count, result_json, writes, fetched, inputs>>

(* dict.update: what the result has overwrites.                            *)
Updated(merged, result) ==
    [key \in DOMAIN merged \cup DOMAIN result |->
        IF key \in DOMAIN result THEN result[key] ELSE merged[key]]

(* One dependency after the other, over input_data.                        *)
Merge(order, results, base) ==
    FoldLeft(LAMBDA merged, d : Updated(merged, results[d]), base, order)

(* The dicts that the loop can make of these results: the query returns    *)
(* the rows in any order.                                                  *)
Merges(results, base) ==
    {Merge(order, results, base) : order \in SetToSeqs(DOMAIN results)}

Upstream(s) == [d \in STAGE_DAG[s] |-> result_json[d]]

FetchInputs(w) ==
    /\ stage[w] # NoStage /\ ~fetched[w]
    /\ fetched' = [fetched EXCEPT ![w] = TRUE]
    /\ \E merged \in Merges(Upstream(stage[w]), input_data) :
          inputs' = [inputs EXCEPT ![w] = merged]
    /\ UNCHANGED input_data /\ UNCHANGED rowVars /\ UNCHANGED stage

(* Mutant of LetGo: forgets that the inputs are gone.                      *)
LetGoOfStage(w) ==
    /\ stage' = [stage EXCEPT ![w] = NoStage]
    /\ inputs' = [inputs EXCEPT ![w] = Empty]
    /\ UNCHANGED fetched

LetGo(w) ==
    /\ stage' = [stage EXCEPT ![w] = NoStage]
    /\ fetched' = [fetched EXCEPT ![w] = FALSE]
    /\ inputs' = [inputs EXCEPT ![w] = Empty]

(* execute() returned: result and COMPLETED are written by id alone.       *)
Complete(w) ==
    /\ fetched[w]
    /\ \E result \in Execute(stage[w], inputs[w]) :
          result_json' = [result_json EXCEPT ![stage[w]] = result]
    /\ status' = [status EXCEPT ![stage[w]] = "COMPLETED"]
    /\ writes' = [writes EXCEPT ![stage[w]] = @ + 1]
    /\ LetGo(w)
    /\ UNCHANGED <<input_data, retry_count>>

(* A running task becomes PENDING again while it has retries.              *)
ResetIfRunning(s) ==
    /\ GiveUps < MaxGiveUps
    /\ retry_count[s] < MaxRetries /\ status[s] = "RUNNING"
    /\ status' = [status EXCEPT ![s] = "PENDING"]
    /\ retry_count' = [retry_count EXCEPT ![s] = @ + 1]
    /\ UNCHANGED <<result_json, writes>>

(* A task without retries turns FAILED; the worker writes by id alone.     *)
FailExhausted(s) ==
    /\ retry_count[s] = MaxRetries
    /\ status' = [status EXCEPT ![s] = "FAILED"]
    /\ UNCHANGED <<retry_count, result_json, writes>>

(* execute() raised, or a call before it.                                  *)
HandleFailure(w) ==
    /\ stage[w] # NoStage
    /\ \/ ResetIfRunning(stage[w])
       \/ /\ retry_count[stage[w]] < MaxRetries /\ status[stage[w]] # "RUNNING"
          /\ UNCHANGED rowVars
       \/ FailExhausted(stage[w])
    /\ LetGo(w)
    /\ UNCHANGED input_data

(* The monitor takes the task away; whoever executes it does not notice.   *)
Reap(s) ==
    /\ status[s] = "RUNNING"
    /\ ResetIfRunning(s) \/ FailExhausted(s)
    /\ UNCHANGED input_data /\ UNCHANGED workerVars

Next ==
    \/ \E s \in ALL_STAGES : Enqueue(s) \/ Reap(s)
    \/ \E w \in Workers, s \in ALL_STAGES : Claim(w, s)
    \/ \E w \in Workers : FetchInputs(w) \/ Complete(w) \/ HandleFailure(w)

Spec == Init /\ [][Next]_vars

-----------------------------------------------------------------------------
(* TypeOK: every variable holds values of its type, a worker that holds    *)
(* inputs executes a stage, and a COMPLETED task has a result.             *)
TypeOK ==
    /\ input_data.duration_ms \in Durations
    /\ status \in [ALL_STAGES -> {"PENDING", "ENQUEUED", "RUNNING", "COMPLETED", "FAILED"}]
    /\ retry_count \in [ALL_STAGES -> 0 .. MaxRetries]
    /\ stage \in [Workers -> ALL_STAGES \cup {NoStage}]
    /\ fetched \in [Workers -> BOOLEAN]
    /\ writes \in [ALL_STAGES -> Nat]
    /\ \A w \in Workers : fetched[w] => stage[w] # NoStage
    /\ \A s \in ALL_STAGES : status[s] = "COMPLETED" => writes[s] > 0

(* What a stage could compute from the results that are stored now.        *)
Recomputed(s) ==
    UNION {Execute(s, merged) : merged \in Merges(Upstream(s), input_data)}

(* ResultsFollow: each stored result was computed from stored results of   *)
(* all its dependencies, and still follows from what is stored there,      *)
(* unless one of them was stored again: neither retries nor a worker that  *)
(* writes after it lost its task (base_worker.py:216 asks for no owner)    *)
(* mix up anything else.                                                   *)
ResultsFollow ==
    \A s \in ALL_STAGES : writes[s] > 0 =>
        /\ \A d \in STAGE_DAG[s] : writes[d] > 0
        /\ (\A d \in STAGE_DAG[s] : writes[d] = 1) => result_json[s] \in Recomputed(s)

(* MergeOrderIrrelevant: the order in which the query of _fetch_inputs     *)
(* (base_worker.py:291, no ORDER BY) returns the rows has no influence on  *)
(* what a stage computes, although dependencies share keys.                *)
MergeOrderIrrelevant ==
    \A s \in ALL_STAGES :
        (\A d \in STAGE_DAG[s] : writes[d] > 0) =>
            \A one, other \in Merges(Upstream(s), input_data) :
                Execute(s, one) = Execute(s, other)

(* DiagnosisSeesErrorRate: diagnostics judges the error rate of the        *)
(* transcription, two stages up, which only reaches it because nlp_stage   *)
(* hands it on.                                                            *)
DiagnosisSeesErrorRate ==
    writes["diagnostics"] > 0 /\ writes["speech_to_text"] = 1
      /\ writes["nlp_processing"] = 1 =>
        result_json["diagnostics"].metrics_snapshot.word_error_rate =
            result_json["speech_to_text"].word_error_rate

(* ReportShowsTheSession: the report of a job, none of whose results was   *)
(* stored twice, shows its transcript and its corrected text: the input of *)
(* aggregation "contains everything from audio, STT, NLP, grammar,         *)
(* phrasing, and diagnostics stages" (aggregation_stage.py:21-22).         *)
ReportShowsTheSession ==
    status["aggregation"] = "COMPLETED" /\ (\A s \in ALL_STAGES : writes[s] = 1) =>
        LET report == result_json["aggregation"].session_report
        IN  /\ report.original_transcript = result_json["speech_to_text"].transcript
            /\ report.corrected_text = result_json["grammar_correction"].corrected_text
=============================================================================
