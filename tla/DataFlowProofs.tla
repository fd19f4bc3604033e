--------------------------- MODULE DataFlowProofs ---------------------------
(***************************************************************************)
(* Theorems about DataFlow, for any number of workers, retries and given-  *)
(* up attempts, any texts and any draws, and about the rules that diagnose *)
(* a job, for any measurements.                                            *)
(***************************************************************************)
EXTENDS DataFlow, FiniteSetTheorems, TLAPS

-----------------------------------------------------------------------------
(* TypeOK is inductive.  The range of result_json and inputs does not      *)
(* matter, but they are functions.                                         *)
Shapes ==
    /\ result_json = [s \in ALL_STAGES |-> result_json[s]]
    /\ inputs = [w \in Workers |-> inputs[w]]

(* RowTypes: what give-ups do to the rows keeps their types.               *)
LEMMA GiveUpTypes ==
    ASSUME TypeOK, Shapes, NEW s \in ALL_STAGES,
           ResetIfRunning(s) \/ FailExhausted(s)
    PROVE  /\ status' \in [ALL_STAGES -> {"PENDING", "ENQUEUED", "RUNNING", "COMPLETED", "FAILED"}]
           /\ retry_count' \in [ALL_STAGES -> 0 .. MaxRetries]
           /\ UNCHANGED <<result_json, writes>>
           /\ \A x \in ALL_STAGES : status'[x] = "COMPLETED" => status[x] = "COMPLETED"
           /\ \A x \in ALL_STAGES : status'[x] \in {"ENQUEUED", "RUNNING"} => status'[x] = status[x]
  BY MaxRetriesAssumption DEF TypeOK, Shapes, ResetIfRunning, FailExhausted

(* TypesKept: each action keeps the types.                                 *)
LEMMA TypesKept == TypeOK /\ Shapes /\ [Next]_vars => TypeOK' /\ Shapes'
<1> SUFFICES ASSUME TypeOK, Shapes, [Next]_vars PROVE TypeOK' /\ Shapes'
  OBVIOUS
<1> USE DEF TypeOK, Shapes
<1>1. ASSUME NEW s \in ALL_STAGES, Enqueue(s) PROVE TypeOK' /\ Shapes'
  BY <1>1 DEF Enqueue, workerVars
<1>2. ASSUME NEW s \in ALL_STAGES, Reap(s) PROVE TypeOK' /\ Shapes'
  BY <1>2, GiveUpTypes DEF Reap, workerVars
<1>3. ASSUME NEW w \in Workers, NEW s \in ALL_STAGES, Claim(w, s) PROVE TypeOK' /\ Shapes'
  BY <1>3, NoStageAssumption DEF Claim
<1>4. ASSUME NEW w \in Workers, FetchInputs(w) PROVE TypeOK' /\ Shapes'
  BY <1>4 DEF FetchInputs, rowVars
<1>5. ASSUME NEW w \in Workers, Complete(w) PROVE TypeOK' /\ Shapes'
  <2>1. stage[w] \in ALL_STAGES
    BY <1>5 DEF Complete
  <2> QED
    BY <1>5, <2>1 DEF Complete, LetGo
<1>6. ASSUME NEW w \in Workers, HandleFailure(w) PROVE TypeOK' /\ Shapes'
  <2>1. stage[w] \in ALL_STAGES
    BY <1>6 DEF HandleFailure
  <2> QED
    BY <1>6, <2>1, GiveUpTypes DEF HandleFailure, LetGo, rowVars
<1>7. CASE UNCHANGED vars
  BY <1>7 DEF vars, rowVars, workerVars
<1> QED
  BY <1>1, <1>2, <1>3, <1>4, <1>5, <1>6, <1>7 DEF Next

(* DataFlowTypes: every variable keeps its type, and a COMPLETED row has a *)
(* result.                                                                 *)
THEOREM DataFlowTypes == Spec => []TypeOK
<1>1. Init => TypeOK /\ Shapes
  BY MaxRetriesAssumption DEF Init, TypeOK, Shapes
<1> QED
  BY <1>1, TypesKept, PTL DEF Spec

-----------------------------------------------------------------------------
(* The results of all dependencies of s have been stored.                  *)
Fed(s) == \A d \in STAGE_DAG[s] : writes[d] > 0

(* None of them was stored again.                                          *)
Steady(s) == \A d \in STAGE_DAG[s] : writes[d] = 1

QueuedAreFed ==
    \A s \in ALL_STAGES : status[s] \in {"ENQUEUED", "RUNNING"} => Fed(s)

ExecutedAreFed ==
    \A w \in Workers : stage[w] # NoStage => Fed(stage[w])

(* What a worker holds is what it would fetch now.                         *)
InputsAreCurrent ==
    \A w \in Workers : fetched[w] /\ Steady(stage[w]) =>
        inputs[w] \in Merges(Upstream(stage[w]), input_data)

FlowInv ==
    /\ TypeOK /\ Shapes
    /\ QueuedAreFed /\ ExecutedAreFed /\ InputsAreCurrent /\ ResultsFollow

(* Dependencies: a stage depends on stages.                                *)
LEMMA Dependencies == \A s \in ALL_STAGES : STAGE_DAG[s] \subseteq ALL_STAGES
BY DEF ALL_STAGES, STAGE_DAG

(* QuietStep: a step that stores no result and fetches nothing changes     *)
(* nothing of what the invariant says about results.                       *)
LEMMA QuietStep ==
    ASSUME FlowInv, UNCHANGED <<input_data, result_json, writes>>,
           TypeOK', Shapes',
           \A s \in ALL_STAGES : status'[s] \in {"ENQUEUED", "RUNNING"} => Fed(s),
           \A w \in Workers : stage'[w] # NoStage => Fed(stage'[w]),
           \A w \in Workers : fetched'[w] =>
               stage'[w] = stage[w] /\ inputs'[w] = inputs[w] /\ fetched[w]
    PROVE  FlowInv'
<1>1. \A s : Fed(s)' <=> Fed(s)
  BY DEF Fed
<1>2. \A s : (Steady(s)' <=> Steady(s)) /\ Upstream(s)' = Upstream(s)
  BY DEF Steady, Upstream
<1>3. QueuedAreFed' /\ ExecutedAreFed'
  BY <1>1 DEF QueuedAreFed, ExecutedAreFed, Fed
<1>4. InputsAreCurrent'
  BY <1>2 DEF InputsAreCurrent, FlowInv, Steady, Upstream
<1>5. ResultsFollow'
  BY DEF ResultsFollow, FlowInv, Recomputed, Upstream
<1> QED
  BY <1>3, <1>4, <1>5 DEF FlowInv

(* StoredOnce: when the result of x is stored, a stage that depends on x,  *)
(* and whose dependencies had results, is not steady any more.             *)
LEMMA StoredOnce ==
    ASSUME TypeOK, NEW x \in ALL_STAGES, NEW s \in ALL_STAGES,
           writes' = [writes EXCEPT ![x] = @ + 1], Fed(s), Steady(s)'
    PROVE  x \notin STAGE_DAG[s] /\ Steady(s)
<1>1. x \notin STAGE_DAG[s]
  BY DEF TypeOK, Fed, Steady
<1> QED
  BY <1>1, Dependencies DEF TypeOK, Steady

(* FlowKept: the invariant is inductive.                                   *)
LEMMA FlowKept == FlowInv /\ [Next]_vars => FlowInv'
<1> SUFFICES ASSUME FlowInv, [Next]_vars PROVE FlowInv'
  OBVIOUS
<1>t. TypeOK /\ Shapes /\ TypeOK' /\ Shapes'
  BY TypesKept DEF FlowInv
<1>1. ASSUME NEW s \in ALL_STAGES, Enqueue(s) PROVE FlowInv'
  <2>1. Fed(s)
    BY <1>1, <1>t, Dependencies DEF Enqueue, Ready, Fed, TypeOK
  <2>2. \A x \in ALL_STAGES : status'[x] \in {"ENQUEUED", "RUNNING"} => Fed(x)
    BY <1>1, <1>t, <2>1 DEF Enqueue, TypeOK, FlowInv, QueuedAreFed
  <2> QED
    BY <1>1, <1>t, <2>2, QuietStep DEF Enqueue, workerVars, FlowInv, ExecutedAreFed
<1>2. ASSUME NEW s \in ALL_STAGES, Reap(s) PROVE FlowInv'
  <2>1. \A x \in ALL_STAGES : status'[x] \in {"ENQUEUED", "RUNNING"} => Fed(x)
    BY <1>2, <1>t, GiveUpTypes DEF Reap, FlowInv, QueuedAreFed
  <2> QED
    BY <1>2, <1>t, <2>1, GiveUpTypes, QuietStep DEF Reap, workerVars, FlowInv, ExecutedAreFed
<1>3. ASSUME NEW w \in Workers, NEW s \in ALL_STAGES, Claim(w, s) PROVE FlowInv'
  <2>1. Fed(s)
    BY <1>3 DEF Claim, FlowInv, QueuedAreFed
  <2>2. \A x \in ALL_STAGES : status'[x] \in {"ENQUEUED", "RUNNING"} => Fed(x)
    BY <1>3, <1>t, <2>1 DEF Claim, TypeOK, FlowInv, QueuedAreFed
  <2>3. \A v \in Workers : stage'[v] # NoStage => Fed(stage'[v])
    BY <1>3, <1>t, <2>1 DEF Claim, TypeOK, FlowInv, ExecutedAreFed
  <2>4. \A v \in Workers : fetched[v] => stage'[v] = stage[v]
    BY <1>3, <1>t DEF Claim, TypeOK
  <2> QED
    BY <1>3, <1>t, <2>2, <2>3, <2>4, QuietStep DEF Claim
<1>4. ASSUME NEW w \in Workers, FetchInputs(w) PROVE FlowInv'
  <2>1. \A s : Upstream(s)' = Upstream(s) /\ (Steady(s)' <=> Steady(s)) /\ (Fed(s)' <=> Fed(s))
    BY <1>4 DEF FetchInputs, rowVars, Upstream, Steady, Fed
  <2>2. QueuedAreFed' /\ ExecutedAreFed'
    BY <1>4, <2>1 DEF FetchInputs, rowVars, FlowInv, QueuedAreFed, ExecutedAreFed, Fed
  <2>3. InputsAreCurrent'
    <3> SUFFICES ASSUME NEW v \in Workers, fetched'[v], Steady(stage[v])'
                 PROVE  (inputs[v] \in Merges(Upstream(stage[v]), input_data))'
      BY DEF InputsAreCurrent
    <3>1. Upstream(stage[v])' = Upstream(stage[v]) /\ Steady(stage[v]) /\ input_data' = input_data
      BY <1>4, <2>1 DEF FetchInputs, rowVars, Upstream, Steady
    <3>2. CASE v = w
      BY <1>4, <1>t, <3>1, <3>2 DEF FetchInputs, Shapes
    <3>3. CASE v # w
      BY <1>4, <1>t, <3>1, <3>3 DEF FetchInputs, Shapes, TypeOK, FlowInv, InputsAreCurrent
    <3> QED
      BY <3>2, <3>3
  <2>4. ResultsFollow'
    BY <1>4 DEF FetchInputs, rowVars, FlowInv, ResultsFollow, Recomputed, Upstream
  <2> QED
    BY <1>t, <2>2, <2>3, <2>4 DEF FlowInv
<1>5. ASSUME NEW w \in Workers, Complete(w) PROVE FlowInv'
  <2> DEFINE x == stage[w]
  <2>1. x \in ALL_STAGES /\ Fed(x) /\ input_data' = input_data
    BY <1>5, <1>t DEF Complete, TypeOK, FlowInv, ExecutedAreFed
  <2>2. writes' = [writes EXCEPT ![x] = @ + 1]
    BY <1>5 DEF Complete
  <2>3. \A s \in ALL_STAGES : Fed(s) => Fed(s)'
    BY <1>t, <2>1, <2>2, Dependencies DEF TypeOK, Fed
  <2>4. \A s \in ALL_STAGES : Fed(s) /\ Steady(s)' => x \notin STAGE_DAG[s] /\ Steady(s)
    BY <1>t, <2>1, <2>2, StoredOnce
  <2>5. \A s \in ALL_STAGES : x \notin STAGE_DAG[s] => Upstream(s)' = Upstream(s)
    BY <1>5, <1>t, Dependencies DEF Complete, Shapes, Upstream
  <2>6. QueuedAreFed'
    BY <1>5, <1>t, <2>1, <2>3 DEF Complete, TypeOK, FlowInv, QueuedAreFed
  <2>7. \A v \in Workers : stage'[v] # NoStage => v # w /\ stage'[v] = stage[v] /\ stage[v] \in ALL_STAGES
    BY <1>5, <1>t DEF Complete, LetGo, TypeOK
  <2>8. ExecutedAreFed'
    BY <2>3, <2>7 DEF FlowInv, ExecutedAreFed
  <2>9. InputsAreCurrent'
    <3> SUFFICES ASSUME NEW v \in Workers, fetched'[v], Steady(stage[v])'
                 PROVE  (inputs[v] \in Merges(Upstream(stage[v]), input_data))'
      BY DEF InputsAreCurrent
    <3>1. v # w /\ stage'[v] = stage[v] /\ stage[v] \in ALL_STAGES
      BY <1>t, <2>7 DEF TypeOK
    <3>2. fetched[v] /\ inputs'[v] = inputs[v] /\ Fed(stage[v])
      BY <1>5, <1>t, <3>1, NoStageAssumption DEF Complete, LetGo, TypeOK, Shapes, FlowInv, ExecutedAreFed
    <3>3. Steady(stage[v]) /\ Upstream(stage[v])' = Upstream(stage[v])
      BY <2>4, <2>5, <3>1, <3>2 DEF Steady, Upstream
    <3> QED
      BY <2>1, <3>2, <3>3 DEF FlowInv, InputsAreCurrent
  <2>10. ResultsFollow'
    <3> SUFFICES ASSUME NEW s \in ALL_STAGES, writes'[s] > 0
                 PROVE  Fed(s)' /\ (Steady(s)' => result_json'[s] \in Recomputed(s)')
      BY DEF ResultsFollow, Fed, Steady
    <3>1. Fed(s)
      BY <1>t, <2>1, <2>2 DEF TypeOK, FlowInv, ResultsFollow, Fed
    <3>2. ASSUME Steady(s)' PROVE Steady(s) /\ Recomputed(s)' = Recomputed(s)
      BY <2>1, <2>4, <2>5, <3>1, <3>2 DEF Recomputed
    <3>3. ASSUME Steady(s)', s = x PROVE result_json'[s] \in Recomputed(s)'
      <4>1. result_json'[s] \in Execute(s, inputs[w])
        BY <1>5, <1>t, <2>1, <3>3 DEF Complete, Shapes
      <4>2. inputs[w] \in Merges(Upstream(s), input_data)
        BY <1>5, <3>2, <3>3 DEF Complete, FlowInv, InputsAreCurrent
      <4>3. result_json'[s] \in Recomputed(s)
        BY <4>1, <4>2 DEF Recomputed
      <4> QED
        BY <3>2, <3>3, <4>3
    <3>4. ASSUME Steady(s)', s # x PROVE result_json'[s] \in Recomputed(s)'
      <4>1. writes[s] > 0 /\ result_json'[s] = result_json[s]
        BY <1>5, <1>t, <2>1, <2>2, <3>4 DEF Complete, Shapes, TypeOK
      <4> QED
        BY <3>2, <3>4, <4>1 DEF FlowInv, ResultsFollow, Steady
    <3> QED
      BY <2>3, <3>1, <3>3, <3>4
  <2> QED
    BY <1>t, <2>6, <2>8, <2>9, <2>10 DEF FlowInv
<1>6. ASSUME NEW w \in Workers, HandleFailure(w) PROVE FlowInv'
  <2>1. stage[w] \in ALL_STAGES
    BY <1>6, <1>t DEF HandleFailure, TypeOK
  <2>2. \A x \in ALL_STAGES : status'[x] \in {"ENQUEUED", "RUNNING"} => Fed(x)
    BY <1>6, <1>t, <2>1, GiveUpTypes DEF HandleFailure, rowVars, FlowInv, QueuedAreFed
  <2>3. UNCHANGED <<input_data, result_json, writes>>
    BY <1>6, <1>t, <2>1, GiveUpTypes DEF HandleFailure, rowVars
  <2>4. \A v \in Workers : stage'[v] # NoStage => v # w /\ stage'[v] = stage[v]
    BY <1>6, <1>t DEF HandleFailure, LetGo, TypeOK
  <2>5. \A v \in Workers : fetched'[v] =>
            stage'[v] = stage[v] /\ inputs'[v] = inputs[v] /\ fetched[v]
    BY <1>6, <1>t DEF HandleFailure, LetGo, TypeOK, Shapes
  <2> QED
    BY <1>t, <2>2, <2>3, <2>4, <2>5, QuietStep DEF FlowInv, ExecutedAreFed
<1>7. CASE UNCHANGED vars
  BY <1>7, <1>t, QuietStep DEF vars, rowVars, workerVars, FlowInv, QueuedAreFed, ExecutedAreFed
<1> QED
  BY <1>1, <1>2, <1>3, <1>4, <1>5, <1>6, <1>7 DEF Next

(* StoredResultsFollow: ResultsFollow holds whatever the stages compute    *)
(* and whoever gives up or writes late.                                    *)
THEOREM StoredResultsFollow == Spec => []ResultsFollow
<1>1. Init => FlowInv
  BY MaxRetriesAssumption
     DEF Init, FlowInv, TypeOK, Shapes, QueuedAreFed, ExecutedAreFed, InputsAreCurrent, ResultsFollow
<1>2. FlowInv => ResultsFollow
  BY DEF FlowInv
<1> QED
  BY <1>1, <1>2, FlowKept, PTL DEF Spec

-----------------------------------------------------------------------------
(* What the loop over the dependencies makes of two results.               *)
LEMMA MergeTwo ==
    ASSUME NEW results, NEW base, NEW d, NEW e
    PROVE  Merge(<<d, e>>, results, base) = Updated(Updated(base, results[d]), results[e])
<1> DEFINE N == {1, 2}
           step(f, s) == IF s = {} THEN base
                         ELSE Updated(f[s \ {Max(s)}], results[<<d, e>>[Max(s)]])
           fold == CHOOSE f : f = [s \in SUBSET N |-> step(f, s)]
           g == [s \in SUBSET N |->
                   IF s = {} THEN base
                   ELSE IF s = {1} THEN Updated(base, results[d])
                   ELSE IF s = {2} THEN Updated(base, results[e])
                   ELSE Updated(Updated(base, results[d]), results[e])]
<1>1. Merge(<<d, e>>, results, base) = fold[N]
  <2>1. DOMAIN <<d, e>> = N
    OBVIOUS
  <2> QED
    BY <2>1 DEF Merge, FoldLeft, MapThenFoldSet
<1>2. Max({1}) = 1 /\ Max({2}) = 2 /\ Max(N) = 2
  BY DEF Max
<1>3. {1} \ {1} = {} /\ {2} \ {2} = {} /\ N \ {2} = {1} /\ <<d, e>>[1] = d /\ <<d, e>>[2] = e
  OBVIOUS
<1>4. {1} # {} /\ {2} # {} /\ N # {} /\ {1} # {2} /\ N # {1} /\ N # {2} /\ {{}, {1}, {2}, N} = SUBSET N
  OBVIOUS
<1>5. /\ g[{}] = base /\ g[{1}] = Updated(base, results[d]) /\ g[{2}] = Updated(base, results[e])
      /\ g[N] = Updated(Updated(base, results[d]), results[e])
  BY <1>4
<1> HIDE DEF N
<1>6. ASSUME NEW f
      PROVE  /\ step(f, {}) = base
             /\ step(f, {1}) = Updated(f[{}], results[d])
             /\ step(f, {2}) = Updated(f[{}], results[e])
             /\ step(f, N) = Updated(f[{1}], results[e])
  BY <1>2, <1>3, <1>4
<1> HIDE DEF step
<1>7. \A s \in SUBSET N : g[s] = step(g, s)
  <2> HIDE DEF g
  <2> QED BY <1>4, <1>5, <1>6
<1>8. g = [s \in SUBSET N |-> step(g, s)]
  BY <1>7
<1>9. fold = [s \in SUBSET N |-> step(fold, s)]
  BY <1>8, Zenon
<1> HIDE DEF fold
<1>10. \A s \in SUBSET N : fold[s] = step(fold, s)
  BY <1>9, Zenon
<1>11. fold[{}] = base /\ fold[{1}] = Updated(fold[{}], results[d]) /\ fold[N] = Updated(fold[{1}], results[e])
  BY <1>4, <1>6, <1>10
<1> QED BY <1>1, <1>11

(* And of a single one.                                                    *)
LEMMA MergeOne ==
    ASSUME NEW results, NEW base, NEW d
    PROVE  Merge(<<d>>, results, base) = Updated(base, results[d])
<1> DEFINE N == {1}
           step(f, s) == IF s = {} THEN base
                         ELSE Updated(f[s \ {Max(s)}], results[<<d>>[Max(s)]])
           fold == CHOOSE f : f = [s \in SUBSET N |-> step(f, s)]
           g == [s \in SUBSET N |-> IF s = {} THEN base ELSE Updated(base, results[d])]
<1>1. Merge(<<d>>, results, base) = fold[N]
  <2>1. DOMAIN <<d>> = N
    OBVIOUS
  <2> QED
    BY <2>1 DEF Merge, FoldLeft, MapThenFoldSet
<1>2. Max(N) = 1
  BY DEF Max
<1>3. N \ {1} = {} /\ <<d>>[1] = d /\ N # {} /\ {{}, N} = SUBSET N
  OBVIOUS
<1>4. g[{}] = base /\ g[N] = Updated(base, results[d])
  BY <1>3
<1> HIDE DEF N
<1>5. ASSUME NEW f
      PROVE  step(f, {}) = base /\ step(f, N) = Updated(f[{}], results[d])
  BY <1>2, <1>3
<1> HIDE DEF step
<1>6. \A s \in SUBSET N : g[s] = step(g, s)
  <2> HIDE DEF g
  <2> QED BY <1>3, <1>4, <1>5
<1>7. g = [s \in SUBSET N |-> step(g, s)]
  BY <1>6
<1>8. fold = [s \in SUBSET N |-> step(fold, s)]
  BY <1>7, Zenon
<1> HIDE DEF fold
<1>9. \A s \in SUBSET N : fold[s] = step(fold, s)
  BY <1>8, Zenon
<1> QED BY <1>1, <1>3, <1>5, <1>9

(* The orders in which two rows can come.                                  *)
LEMMA OrdersOfTwo ==
    ASSUME NEW d, NEW e, d # e
    PROVE  SetToSeqs({d, e}) \subseteq {<<d, e>>, <<e, d>>}
<1>1. Cardinality({d, e}) = 2
  <2>1. {d, e} = {d} \cup {e} /\ e \notin {d}
    OBVIOUS
  <2>2. IsFiniteSet({d}) /\ Cardinality({d}) = 1
    BY FS_Singleton
  <2>3. Cardinality({d} \cup {e}) = Cardinality({d}) + 1
    BY <2>1, <2>2, FS_AddElement
  <2> QED BY <2>1, <2>2, <2>3
<1>2. 1 .. 2 = {1, 2}
  OBVIOUS
<1> SUFFICES ASSUME NEW f \in [{1, 2} -> {d, e}], f[1] # f[2]
             PROVE  f \in {<<d, e>>, <<e, d>>}
  BY <1>1, <1>2 DEF SetToSeqs
<1>3. f = <<f[1], f[2]>>
  OBVIOUS
<1> QED BY <1>3

(* One row comes in one order.                                             *)
LEMMA OrdersOfOne == ASSUME NEW d PROVE SetToSeqs({d}) \subseteq {<<d>>}
<1>1. Cardinality({d}) = 1
  BY FS_Singleton
<1> SUFFICES ASSUME NEW f \in [1 .. 1 -> {d}] PROVE f = <<d>>
  BY <1>1 DEF SetToSeqs
<1>2. f = <<f[1]>>
  OBVIOUS
<1> QED BY <1>2

(* And so do no rows.                                                      *)
LEMMA OrdersOfNone == SetToSeqs({}) \subseteq {<<>>}
<1>1. Cardinality({}) = 0
  BY FS_EmptySet
<1> SUFFICES ASSUME NEW f \in [1 .. 0 -> {}] PROVE f = <<>>
  BY <1>1 DEF SetToSeqs
<1> QED OBVIOUS

(* So a stage with one dependency gets these inputs only.                  *)
LEMMA MergesOfOne ==
    ASSUME NEW results, NEW base, NEW d, DOMAIN results = {d},
           NEW merged \in Merges(results, base)
    PROVE  merged = Updated(base, results[d])
BY OrdersOfOne, MergeOne DEF Merges

(* A stage with two dependencies gets one of two.                          *)
LEMMA MergesOfTwo ==
    ASSUME NEW results, NEW base, NEW d, NEW e, d # e, DOMAIN results = {d, e},
           NEW merged \in Merges(results, base)
    PROVE  \/ merged = Updated(Updated(base, results[d]), results[e])
           \/ merged = Updated(Updated(base, results[e]), results[d])
<1>1. PICK order \in SetToSeqs({d, e}) : merged = Merge(order, results, base)
  BY DEF Merges
<1>2. order = <<d, e>> \/ order = <<e, d>>
  BY OrdersOfTwo
<1> QED BY <1>1, <1>2, MergeTwo

(* A stage without any gets the input of the job.                          *)
LEMMA MergesOfNone ==
    ASSUME NEW results, NEW base, DOMAIN results = {},
           NEW one \in Merges(results, base), NEW other \in Merges(results, base)
    PROVE  one = other
BY OrdersOfNone DEF Merges

(* What input_data.get() finds after dict.update().                        *)
LEMMA GetUpdated ==
    ASSUME NEW merged, NEW result, NEW key, NEW default
    PROVE  Get(Updated(merged, result), key, default) =
              IF key \in DOMAIN result THEN result[key] ELSE Get(merged, key, default)
BY DEF Get, Updated

-----------------------------------------------------------------------------
(* The keys of the results on which diagnostics and nlp_processing work.   *)
KeysOf(s) ==
    CASE s = "speech_to_text" -> {"transcript", "word_error_rate"}
      [] s = "nlp_processing" -> {"original_text", "has_grammar_errors", "word_error_rate"}
      [] s = "natural_phrasing" -> {"original_text", "corrected_text", "fluency_score"}

ResultKeys ==
    \A s \in {"speech_to_text", "nlp_processing", "natural_phrasing"} :
        writes[s] > 0 => DOMAIN result_json[s] = KeysOf(s)

(* A run() yields these keys, whatever its input.                          *)
LEMMA ExecuteKeys ==
    ASSUME NEW s \in {"speech_to_text", "nlp_processing", "natural_phrasing"},
           NEW input, NEW result \in Execute(s, input)
    PROVE  DOMAIN result = KeysOf(s)
<1>1. CASE s = "speech_to_text"
  <2>1. result \in SpeechToText(input)
    BY <1>1 DEF Execute
  <2> QED BY <1>1, <2>1 DEF SpeechToText, KeysOf
<1>2. CASE s = "nlp_processing"
  <2>1. result \in Nlp(input)
    BY <1>2 DEF Execute
  <2> QED BY <1>2, <2>1 DEF Nlp, KeysOf
<1>3. CASE s = "natural_phrasing"
  <2>1. result \in Phrasing(input)
    BY <1>3 DEF Execute
  <2> QED BY <1>3, <2>1 DEF Phrasing, KeysOf
<1> QED BY <1>1, <1>2, <1>3

(* How the rows of results move.                                           *)
LEMMA ResultWriter ==
    ASSUME TypeOK, Shapes, [Next]_vars
    PROVE  \/ UNCHANGED <<input_data, result_json, writes>>
           \/ \E w \in Workers :
                 /\ Complete(w) /\ stage[w] \in ALL_STAGES
                 /\ result_json'[stage[w]] \in Execute(stage[w], inputs[w])
                 /\ \A s \in ALL_STAGES \ {stage[w]} :
                       result_json'[s] = result_json[s] /\ writes'[s] = writes[s]
                 /\ writes'[stage[w]] = writes[stage[w]] + 1
<1>1. ASSUME NEW w \in Workers, Complete(w)
      PROVE  /\ stage[w] \in ALL_STAGES
             /\ result_json'[stage[w]] \in Execute(stage[w], inputs[w])
             /\ \A s \in ALL_STAGES \ {stage[w]} :
                   result_json'[s] = result_json[s] /\ writes'[s] = writes[s]
             /\ writes'[stage[w]] = writes[stage[w]] + 1
  <2>1. stage[w] \in ALL_STAGES
    BY <1>1 DEF Complete, TypeOK
  <2>2. PICK result \in Execute(stage[w], inputs[w]) :
           result_json' = [result_json EXCEPT ![stage[w]] = result]
    BY <1>1 DEF Complete
  <2>3. writes' = [writes EXCEPT ![stage[w]] = @ + 1]
    BY <1>1 DEF Complete
  <2> QED BY <2>1, <2>2, <2>3 DEF TypeOK, Shapes
<1>2. ASSUME NEW w \in Workers, HandleFailure(w)
      PROVE  UNCHANGED <<input_data, result_json, writes>>
  BY <1>2 DEF HandleFailure, ResetIfRunning, FailExhausted, rowVars
<1>3. ASSUME NEW w \in Workers, FetchInputs(w)
      PROVE  UNCHANGED <<input_data, result_json, writes>>
  BY <1>3 DEF FetchInputs, rowVars
<1> QED
  BY <1>1, <1>2, <1>3
     DEF Next, Enqueue, Reap, Claim, ResetIfRunning, FailExhausted, vars, rowVars

(* Results keep their keys.                                                *)
LEMMA ResultKeysKept ==
    ASSUME TypeOK, Shapes, ResultKeys, [Next]_vars
    PROVE  ResultKeys'
<1>1. CASE UNCHANGED <<input_data, result_json, writes>>
  BY <1>1 DEF ResultKeys
<1>2. ASSUME NEW w \in Workers, stage[w] \in ALL_STAGES,
             result_json'[stage[w]] \in Execute(stage[w], inputs[w]),
             \A s \in ALL_STAGES \ {stage[w]} :
                result_json'[s] = result_json[s] /\ writes'[s] = writes[s]
      PROVE  ResultKeys'
  <2> SUFFICES ASSUME NEW s \in {"speech_to_text", "nlp_processing", "natural_phrasing"},
                      writes'[s] > 0
               PROVE  DOMAIN result_json'[s] = KeysOf(s)
    BY DEF ResultKeys
  <2>1. CASE s = stage[w]
    BY <1>2, <2>1, ExecuteKeys
  <2>2. CASE s # stage[w]
    <3>1. s \in ALL_STAGES
      BY DEF ALL_STAGES, STAGE_DAG
    <3> QED BY <1>2, <2>2, <3>1 DEF ResultKeys
  <2> QED BY <2>1, <2>2
<1> QED BY <1>1, <1>2, ResultWriter

(* The dependencies of each stage, and what diagnostics fetches.           *)
LEMMA Graph ==
    /\ STAGE_DAG["audio_preprocessing"] = {}
    /\ STAGE_DAG["speech_to_text"] = {"audio_preprocessing"}
    /\ STAGE_DAG["nlp_processing"] = {"speech_to_text"}
    /\ STAGE_DAG["grammar_correction"] = {"speech_to_text"}
    /\ STAGE_DAG["natural_phrasing"] = {"grammar_correction"}
    /\ STAGE_DAG["diagnostics"] = {"nlp_processing", "natural_phrasing"}
    /\ STAGE_DAG["aggregation"] = {"diagnostics"}
    /\ ALL_STAGES = {"audio_preprocessing", "speech_to_text", "nlp_processing",
                     "grammar_correction", "natural_phrasing", "diagnostics", "aggregation"}
BY DEF STAGE_DAG, ALL_STAGES

(* Whatever comes first, diagnostics finds the same under every key but    *)
(* original_text, and the error rate is that of nlp_processing.            *)
LEMMA DiagnosticsInput ==
    ASSUME ResultKeys, writes["nlp_processing"] > 0, writes["natural_phrasing"] > 0,
           NEW merged \in Merges(Upstream("diagnostics"), input_data),
           NEW key, key # "original_text", NEW default
    PROVE  Get(merged, key, default) =
              IF key \in KeysOf("nlp_processing") THEN result_json["nlp_processing"][key]
              ELSE IF key \in KeysOf("natural_phrasing")
              THEN result_json["natural_phrasing"][key]
              ELSE Get(input_data, key, default)
<1> DEFINE n == result_json["nlp_processing"]
           p == result_json["natural_phrasing"]
<1>1. DOMAIN n = KeysOf("nlp_processing") /\ DOMAIN p = KeysOf("natural_phrasing")
  BY DEF ResultKeys
<1>2. /\ DOMAIN Upstream("diagnostics") = {"nlp_processing", "natural_phrasing"}
      /\ Upstream("diagnostics")["nlp_processing"] = n
      /\ Upstream("diagnostics")["natural_phrasing"] = p
  BY Graph DEF Upstream
<1> HIDE DEF n, p
<1>3. \/ merged = Updated(Updated(input_data, n), p)
      \/ merged = Updated(Updated(input_data, p), n)
  BY <1>2, MergesOfTwo
<1>4. ~(key \in KeysOf("nlp_processing") /\ key \in KeysOf("natural_phrasing"))
  BY DEF KeysOf
<1> QED BY <1>1, <1>3, <1>4, GetUpdated DEF n, p

(* The diagnosis does not look at original_text.                           *)
LEMMA DiagnoseDependsOn ==
    ASSUME NEW one, NEW other,
           \A key, default : key # "original_text" =>
              Get(one, key, default) = Get(other, key, default)
    PROVE  Diagnose(one) = Diagnose(other)
<1>1. Snapshot(one) = Snapshot(other)
  BY DEF Snapshot
<1>2. Get(one, "has_grammar_errors", FALSE) = Get(other, "has_grammar_errors", FALSE)
  OBVIOUS
<1> QED BY <1>1, <1>2, Zenon DEF Diagnose

(* So the order of rows makes no difference.                               *)
LEMMA OrderIrrelevant ==
    ASSUME ResultKeys
    PROVE  MergeOrderIrrelevant
<1> SUFFICES ASSUME NEW s \in ALL_STAGES, \A d \in STAGE_DAG[s] : writes[d] > 0,
                    NEW one \in Merges(Upstream(s), input_data),
                    NEW other \in Merges(Upstream(s), input_data)
             PROVE  Execute(s, one) = Execute(s, other)
  BY DEF MergeOrderIrrelevant
<1>1. DOMAIN Upstream(s) = STAGE_DAG[s]
  BY DEF Upstream
<1>2. CASE s = "diagnostics"
  <2>1. writes["nlp_processing"] > 0 /\ writes["natural_phrasing"] > 0
    BY <1>2, Graph
  <2>2. \A key, default : key # "original_text" =>
           Get(one, key, default) = Get(other, key, default)
    BY <1>2, <2>1, DiagnosticsInput
  <2>3. Diagnose(one) = Diagnose(other)
    BY <2>2, DiagnoseDependsOn
  <2> QED BY <1>2, <2>3 DEF Execute
<1>3. CASE s = "audio_preprocessing"
  <2>1. one = other
    BY <1>1, <1>3, Graph, MergesOfNone
  <2> QED BY <2>1
<1>4. CASE s \notin {"diagnostics", "audio_preprocessing"}
  <2>1. PICK d : STAGE_DAG[s] = {d}
    BY <1>4, Graph
  <2>2. one = other
    BY <1>1, <2>1, MergesOfOne
  <2> QED BY <2>2
<1> QED BY <1>2, <1>3, <1>4

(* In whatever order _fetch_inputs gets its rows, no stage computes        *)
(* anything else, for any results.                                         *)
THEOREM OrderNeverMatters == Spec => []MergeOrderIrrelevant
<1>1. Init => TypeOK /\ Shapes /\ ResultKeys
  <2>1. Init => \A s \in ALL_STAGES : writes[s] = 0
    BY DEF Init
  <2>2. Init => TypeOK /\ Shapes
    BY MaxRetriesAssumption DEF Init, TypeOK, Shapes
  <2> QED BY <2>1, <2>2, Graph DEF ResultKeys
<1>2. TypeOK /\ Shapes /\ ResultKeys /\ [Next]_vars => (TypeOK /\ Shapes /\ ResultKeys)'
  BY TypesKept, ResultKeysKept
<1> QED BY <1>1, <1>2, OrderIrrelevant, PTL DEF Spec

-----------------------------------------------------------------------------
(* The error rate of the row of nlp_processing, as long as it is stored    *)
(* once, is what diagnostics holds and what it has judged, whatever became *)
(* of natural_phrasing.                                                    *)
HeldRate ==
    \A w \in Workers :
        fetched[w] /\ stage[w] = "diagnostics" /\ writes["nlp_processing"] = 1 =>
            Get(inputs[w], "word_error_rate", 600) = result_json["nlp_processing"].word_error_rate

JudgedRate ==
    writes["diagnostics"] > 0 /\ writes["nlp_processing"] = 1 =>
        result_json["diagnostics"].metrics_snapshot.word_error_rate =
            result_json["nlp_processing"].word_error_rate

RateInv == FlowInv /\ ResultKeys /\ HeldRate /\ JudgedRate

(* Nothing of diagnostics is there before nlp_processing has a result.     *)
LEMMA DiagnosticsFed ==
    ASSUME FlowInv
    PROVE  /\ \A w \in Workers : stage[w] = "diagnostics" =>
                 writes["nlp_processing"] > 0 /\ writes["natural_phrasing"] > 0
           /\ writes["diagnostics"] > 0 => writes["nlp_processing"] > 0
<1>1. "diagnostics" # NoStage
  BY NoStageAssumption, Graph
<1> QED BY <1>1, Graph DEF FlowInv, ExecutedAreFed, ResultsFollow, Fed

(* What diagnostics fetches as error rate.                                 *)
LEMMA FetchedRate ==
    ASSUME RateInv, NEW w \in Workers, FetchInputs(w), stage[w] = "diagnostics"
    PROVE  Get(inputs'[w], "word_error_rate", 600) = result_json["nlp_processing"].word_error_rate
<1>1. writes["nlp_processing"] > 0 /\ writes["natural_phrasing"] > 0
  BY DiagnosticsFed DEF RateInv
<1>2. inputs'[w] \in Merges(Upstream("diagnostics"), input_data)
  BY DEF FetchInputs, RateInv, FlowInv, Shapes
<1>3. "word_error_rate" \in KeysOf("nlp_processing") /\ "word_error_rate" # "original_text"
  BY DEF KeysOf
<1>4. Get(inputs'[w], "word_error_rate", 600) = result_json["nlp_processing"]["word_error_rate"]
  BY <1>1, <1>2, <1>3, DiagnosticsInput DEF RateInv
<1> QED BY <1>4

(* What diagnostics judges is the error rate that it holds.                *)
LEMMA DiagnosedRate ==
    ASSUME NEW input, NEW result \in Execute("diagnostics", input)
    PROVE  result.metrics_snapshot.word_error_rate = Get(input, "word_error_rate", 600)
<1>1. result = Diagnose(input)
  BY DEF Execute
<1> QED BY <1>1 DEF Diagnose, Snapshot

(* RateKept: the invariant is inductive.                                   *)
LEMMA RateKept == RateInv /\ [Next]_vars => RateInv'
<1> SUFFICES ASSUME RateInv, [Next]_vars PROVE RateInv'
  OBVIOUS
<1>t. TypeOK /\ Shapes
  BY DEF RateInv, FlowInv
<1>1. FlowInv' /\ ResultKeys'
  BY <1>t, FlowKept, ResultKeysKept DEF RateInv
<1>n. "nlp_processing" \in ALL_STAGES /\ "diagnostics" \in ALL_STAGES /\ "diagnostics" # "nlp_processing"
  BY Graph
<1>2. ASSUME UNCHANGED <<result_json, writes>>,
             \A w \in Workers : fetched'[w] =>
                stage'[w] = stage[w] /\ inputs'[w] = inputs[w] /\ fetched[w]
      PROVE  HeldRate' /\ JudgedRate'
  BY <1>2 DEF RateInv, HeldRate, JudgedRate
<1>3. ASSUME NEW s \in ALL_STAGES, Enqueue(s) PROVE HeldRate' /\ JudgedRate'
  BY <1>2, <1>3 DEF Enqueue, workerVars
<1>4. ASSUME NEW s \in ALL_STAGES, Reap(s) PROVE HeldRate' /\ JudgedRate'
  BY <1>2, <1>4, <1>t, GiveUpTypes DEF Reap, workerVars
<1>5. ASSUME NEW w \in Workers, NEW s \in ALL_STAGES, Claim(w, s) PROVE HeldRate' /\ JudgedRate'
  <2>1. \A v \in Workers : fetched[v] => stage'[v] = stage[v]
    BY <1>5, <1>t DEF Claim, TypeOK
  <2> QED BY <1>2, <1>5, <2>1 DEF Claim
<1>6. ASSUME NEW w \in Workers, FetchInputs(w) PROVE HeldRate' /\ JudgedRate'
  <2>1. UNCHANGED <<result_json, writes, stage>>
    BY <1>6 DEF FetchInputs, rowVars
  <2>2. JudgedRate'
    BY <2>1 DEF RateInv, JudgedRate
  <2>3. ASSUME NEW v \in Workers, fetched'[v], stage[v] = "diagnostics", writes["nlp_processing"] = 1
        PROVE  Get(inputs'[v], "word_error_rate", 600) = result_json["nlp_processing"].word_error_rate
    <3>1. CASE v = w
      BY <1>6, <2>3, <3>1, FetchedRate
    <3>2. CASE v # w
      <4>1. fetched[v] /\ inputs'[v] = inputs[v]
        BY <1>6, <1>t, <2>3, <3>2 DEF FetchInputs, TypeOK, Shapes
      <4> QED BY <2>3, <4>1 DEF RateInv, HeldRate
    <3> QED BY <3>1, <3>2
  <2> QED BY <2>1, <2>2, <2>3 DEF HeldRate
<1>7. ASSUME NEW w \in Workers, Complete(w) PROVE HeldRate' /\ JudgedRate'
  <2> DEFINE x == stage[w]
  <2>1. /\ x \in ALL_STAGES /\ fetched[w]
        /\ \A s \in ALL_STAGES : writes'[s] = IF s = x THEN writes[s] + 1 ELSE writes[s]
        /\ \A s \in ALL_STAGES \ {x} : result_json'[s] = result_json[s]
    BY <1>7, <1>t DEF Complete, TypeOK, Shapes
  <2>2. result_json'[x] \in Execute(x, inputs[w])
    BY <1>7, <1>t, <2>1 DEF Complete, Shapes
  <2>3. \A v \in Workers : fetched'[v] =>
            v # w /\ fetched[v] /\ stage'[v] = stage[v] /\ inputs'[v] = inputs[v]
    BY <1>7, <1>t DEF Complete, LetGo, TypeOK, Shapes
  <2>4. writes["nlp_processing"] \in Nat
    BY <1>t, <1>n DEF TypeOK
  <2>5. CASE x = "nlp_processing"
    <3>1. ASSUME writes'["nlp_processing"] = 1
          PROVE  /\ ~(writes["diagnostics"] > 0)
                 /\ \A v \in Workers : stage[v] # "diagnostics"
      BY <1>n, <2>1, <2>4, <2>5, <3>1, DiagnosticsFed DEF RateInv
    <3>2. writes'["diagnostics"] = writes["diagnostics"]
      BY <1>n, <2>1, <2>5
    <3> QED BY <2>3, <3>1, <3>2 DEF HeldRate, JudgedRate
  <2>6. CASE x # "nlp_processing"
    <3>1. /\ writes'["nlp_processing"] = writes["nlp_processing"]
          /\ result_json'["nlp_processing"] = result_json["nlp_processing"]
      BY <1>n, <2>1, <2>6
    <3>2. HeldRate'
      BY <2>3, <3>1 DEF RateInv, HeldRate
    <3>3. CASE x = "diagnostics"
      <4>1. result_json'["diagnostics"].metrics_snapshot.word_error_rate =
                Get(inputs[w], "word_error_rate", 600)
        BY <2>2, <3>3, DiagnosedRate
      <4> QED BY <2>1, <3>1, <3>2, <3>3, <4>1 DEF RateInv, HeldRate, JudgedRate
    <3>4. CASE x # "diagnostics"
      <4>1. writes'["diagnostics"] = writes["diagnostics"]
            /\ result_json'["diagnostics"] = result_json["diagnostics"]
        BY <1>n, <2>1, <3>4
      <4> QED BY <3>1, <3>2, <4>1 DEF RateInv, JudgedRate
    <3> QED BY <3>3, <3>4
  <2> QED BY <2>5, <2>6
<1>8. ASSUME NEW w \in Workers, HandleFailure(w) PROVE HeldRate' /\ JudgedRate'
  <2>1. UNCHANGED <<result_json, writes>>
    BY <1>8 DEF HandleFailure, ResetIfRunning, FailExhausted, rowVars
  <2>2. \A v \in Workers : fetched'[v] =>
            stage'[v] = stage[v] /\ inputs'[v] = inputs[v] /\ fetched[v]
    BY <1>8, <1>t DEF HandleFailure, LetGo, TypeOK, Shapes
  <2> QED BY <1>2, <2>1, <2>2
<1>9. ASSUME UNCHANGED vars PROVE HeldRate' /\ JudgedRate'
  <2>1. UNCHANGED <<result_json, writes, stage, inputs, fetched>>
    BY <1>9 DEF vars, rowVars, workerVars
  <2> QED BY <1>2, <2>1
<1>10. HeldRate' /\ JudgedRate'
  BY <1>3, <1>4, <1>5, <1>6, <1>7, <1>8, <1>9 DEF Next
<1> QED BY <1>1, <1>10 DEF RateInv

(* nlp_processing hands on the error rate that it got.                     *)
LEMMA RateHandedOn ==
    ASSUME FlowInv, ResultKeys, writes["nlp_processing"] > 0, writes["speech_to_text"] = 1
    PROVE  result_json["nlp_processing"].word_error_rate =
              result_json["speech_to_text"].word_error_rate
<1> DEFINE t == result_json["speech_to_text"]
<1>1. result_json["nlp_processing"] \in Recomputed("nlp_processing")
  BY Graph DEF FlowInv, ResultsFollow
<1>2. PICK merged \in Merges(Upstream("nlp_processing"), input_data) :
         result_json["nlp_processing"] \in Execute("nlp_processing", merged)
  BY <1>1 DEF Recomputed
<1>3. DOMAIN Upstream("nlp_processing") = {"speech_to_text"}
      /\ Upstream("nlp_processing")["speech_to_text"] = t
  BY Graph DEF Upstream
<1>4. "word_error_rate" \in DOMAIN t
  BY DEF ResultKeys, KeysOf
<1> HIDE DEF t
<1>5. merged = Updated(input_data, t)
  BY <1>3, MergesOfOne
<1>6. Get(merged, "word_error_rate", 600) = t["word_error_rate"]
  BY <1>4, <1>5, GetUpdated
<1>7. result_json["nlp_processing"] \in Nlp(merged)
  BY <1>2 DEF Execute
<1>8. result_json["nlp_processing"].word_error_rate = Get(merged, "word_error_rate", 600)
  BY <1>7 DEF Nlp
<1> QED BY <1>6, <1>8 DEF t

(* DiagnosisIsFed: the error rate that diagnostics judges is that of the   *)
(* transcription, whatever is retried, given up or stored late elsewhere.  *)
THEOREM DiagnosisIsFed == Spec => []DiagnosisSeesErrorRate
<1>1. Init => RateInv
  <2> SUFFICES ASSUME Init PROVE RateInv
    OBVIOUS
  <2>1. /\ \A s \in ALL_STAGES : writes[s] = 0
        /\ \A w \in Workers : ~fetched[w]
    BY DEF Init
  <2>2. FlowInv
    BY MaxRetriesAssumption
       DEF Init, FlowInv, TypeOK, Shapes, QueuedAreFed, ExecutedAreFed, InputsAreCurrent, ResultsFollow
  <2> QED BY <2>1, <2>2, Graph DEF RateInv, ResultKeys, HeldRate, JudgedRate
<1>2. RateInv => DiagnosisSeesErrorRate
  <2> SUFFICES ASSUME RateInv, writes["diagnostics"] > 0, writes["speech_to_text"] = 1,
                      writes["nlp_processing"] = 1
               PROVE  result_json["diagnostics"].metrics_snapshot.word_error_rate =
                          result_json["speech_to_text"].word_error_rate
    BY DEF DiagnosisSeesErrorRate
  <2>1. FlowInv /\ ResultKeys /\ JudgedRate /\ writes["nlp_processing"] > 0
    BY DEF RateInv
  <2> QED BY <2>1, RateHandedOn DEF JudgedRate
<1> QED
  BY <1>1, <1>2, RateKept, PTL DEF Spec

-----------------------------------------------------------------------------
(* What aggregation gets: the input of the job and the diagnosis.          *)
DiagnosisKeys ==
    {"pipeline_status", "active_alerts", "root_cause", "stage_health", "metrics_snapshot"}

ReportInputs ==
    /\ DOMAIN input_data = {"duration_ms"}
    /\ writes["diagnostics"] > 0 => DOMAIN result_json["diagnostics"] = DiagnosisKeys
    /\ \A w \in Workers : fetched[w] /\ stage[w] = "aggregation" =>
           DOMAIN inputs[w] = DiagnosisKeys \cup {"duration_ms"}

(* A report that shows nothing of the session but its diagnosis.           *)
OnlyDefaults(result) ==
    /\ result.session_report.original_transcript = NoText
    /\ result.session_report.corrected_text = NoText
    /\ result.session_report.corrections_made = 0
    /\ result.session_report.audio_quality_db = 2200
    /\ result.fluency_score = 8500 /\ result.word_error_rate = 600
    /\ result.overall_score = OverallScore(8500, 600, 0)

ReportsAreDefaults ==
    writes["aggregation"] > 0 => OnlyDefaults(result_json["aggregation"])

ReportInv == FlowInv /\ ReportInputs /\ ReportsAreDefaults

(* The keys of a diagnosis.                                                *)
LEMMA DiagnosisHasKeys ==
    ASSUME NEW input, NEW result \in Execute("diagnostics", input)
    PROVE  DOMAIN result = DiagnosisKeys
<1>1. result = Diagnose(input)
  BY DEF Execute
<1> QED BY <1>1 DEF Diagnose, DiagnosisKeys

(* From such inputs, aggregation computes such a report.                   *)
LEMMA ReportOfDiagnosis ==
    ASSUME NEW input, DOMAIN input = DiagnosisKeys \cup {"duration_ms"},
           NEW result \in Execute("aggregation", input)
    PROVE  OnlyDefaults(result)
<1>1. result \in Aggregation(input)
  BY DEF Execute
<1>2. /\ Get(input, "transcript", NoText) = NoText
      /\ Get(input, "corrected_text", NoText) = NoText
      /\ Get(input, "fluency_score", 8500) = 8500
      /\ Get(input, "word_error_rate", 600) = 600
      /\ Get(input, "corrections_made", 0) = 0
      /\ Get(input, "snr_db", 2200) = 2200
  BY DEF Get, DiagnosisKeys
<1>3. /\ result.session_report.original_transcript = Get(input, "transcript", NoText)
      /\ result.session_report.corrected_text =
            Get(input, "corrected_text", Get(input, "transcript", NoText))
      /\ result.session_report.corrections_made = Get(input, "corrections_made", 0)
      /\ result.session_report.audio_quality_db = Get(input, "snr_db", 2200)
      /\ result.fluency_score = Get(input, "fluency_score", 8500)
      /\ result.word_error_rate = Get(input, "word_error_rate", 600)
      /\ result.overall_score =
            OverallScore(Get(input, "fluency_score", 8500), Get(input, "word_error_rate", 600),
                         Get(input, "corrections_made", 0))
  BY <1>1 DEF Aggregation
<1> QED BY <1>2, <1>3 DEF OnlyDefaults

(* What aggregation fetches.                                               *)
LEMMA FetchedReportInputs ==
    ASSUME ReportInv, NEW w \in Workers, FetchInputs(w), stage[w] = "aggregation"
    PROVE  DOMAIN inputs'[w] = DiagnosisKeys \cup {"duration_ms"}
<1>1. "aggregation" # NoStage
  BY NoStageAssumption, Graph
<1>2. writes["diagnostics"] > 0
  BY <1>1, Graph DEF ReportInv, FlowInv, ExecutedAreFed, Fed
<1>3. inputs'[w] \in Merges(Upstream("aggregation"), input_data)
  BY DEF FetchInputs, ReportInv, FlowInv, Shapes
<1>4. DOMAIN Upstream("aggregation") = {"diagnostics"}
      /\ Upstream("aggregation")["diagnostics"] = result_json["diagnostics"]
  BY Graph DEF Upstream
<1>5. inputs'[w] = Updated(input_data, result_json["diagnostics"])
  BY <1>3, <1>4, MergesOfOne
<1>6. DOMAIN inputs'[w] = DOMAIN input_data \cup DOMAIN result_json["diagnostics"]
  BY <1>5 DEF Updated
<1> QED BY <1>2, <1>6 DEF ReportInv, ReportInputs

(* ReportKept: the invariant is inductive.                                 *)
LEMMA ReportKept == ReportInv /\ [Next]_vars => ReportInv'
<1> SUFFICES ASSUME ReportInv, [Next]_vars PROVE ReportInv'
  OBVIOUS
<1>t. TypeOK /\ Shapes
  BY DEF ReportInv, FlowInv
<1>1. FlowInv'
  BY FlowKept DEF ReportInv
<1>n. "diagnostics" \in ALL_STAGES /\ "aggregation" \in ALL_STAGES
  BY Graph
<1>2. ASSUME UNCHANGED <<input_data, result_json, writes>>,
             \A w \in Workers : fetched'[w] =>
                stage'[w] = stage[w] /\ inputs'[w] = inputs[w] /\ fetched[w]
      PROVE  ReportInputs' /\ ReportsAreDefaults'
  BY <1>2 DEF ReportInv, ReportInputs, ReportsAreDefaults
<1>3. ASSUME NEW s \in ALL_STAGES, Enqueue(s) PROVE ReportInputs' /\ ReportsAreDefaults'
  BY <1>2, <1>3 DEF Enqueue, workerVars
<1>4. ASSUME NEW s \in ALL_STAGES, Reap(s) PROVE ReportInputs' /\ ReportsAreDefaults'
  BY <1>2, <1>4, <1>t, GiveUpTypes DEF Reap, workerVars
<1>5. ASSUME NEW w \in Workers, NEW s \in ALL_STAGES, Claim(w, s)
      PROVE  ReportInputs' /\ ReportsAreDefaults'
  <2>1. \A v \in Workers : fetched[v] => stage'[v] = stage[v]
    BY <1>5, <1>t DEF Claim, TypeOK
  <2> QED BY <1>2, <1>5, <2>1 DEF Claim
<1>6. ASSUME NEW w \in Workers, FetchInputs(w) PROVE ReportInputs' /\ ReportsAreDefaults'
  <2>1. UNCHANGED <<input_data, result_json, writes, stage>>
    BY <1>6 DEF FetchInputs, rowVars
  <2>2. ReportsAreDefaults'
    BY <2>1 DEF ReportInv, ReportsAreDefaults
  <2>3. ASSUME NEW v \in Workers, fetched'[v], stage[v] = "aggregation"
        PROVE  DOMAIN inputs'[v] = DiagnosisKeys \cup {"duration_ms"}
    <3>1. CASE v = w
      BY <1>6, <2>3, <3>1, FetchedReportInputs
    <3>2. CASE v # w
      <4>1. fetched[v] /\ inputs'[v] = inputs[v]
        BY <1>6, <1>t, <2>3, <3>2 DEF FetchInputs, TypeOK, Shapes
      <4> QED BY <2>3, <4>1 DEF ReportInv, ReportInputs
    <3> QED BY <3>1, <3>2
  <2> QED BY <2>1, <2>2, <2>3 DEF ReportInv, ReportInputs
<1>7. ASSUME NEW w \in Workers, Complete(w) PROVE ReportInputs' /\ ReportsAreDefaults'
  <2> DEFINE x == stage[w]
  <2>1. /\ x \in ALL_STAGES /\ fetched[w] /\ input_data' = input_data
        /\ \A s \in ALL_STAGES \ {x} : result_json'[s] = result_json[s] /\ writes'[s] = writes[s]
    BY <1>7, <1>t DEF Complete, TypeOK, Shapes
  <2>2. result_json'[x] \in Execute(x, inputs[w])
    BY <1>7, <1>t, <2>1 DEF Complete, Shapes
  <2>3. \A v \in Workers : fetched'[v] =>
            v # w /\ fetched[v] /\ stage'[v] = stage[v] /\ inputs'[v] = inputs[v]
    BY <1>7, <1>t DEF Complete, LetGo, TypeOK, Shapes
  <2>4. writes'["diagnostics"] > 0 => DOMAIN result_json'["diagnostics"] = DiagnosisKeys
    BY <1>n, <2>1, <2>2, DiagnosisHasKeys DEF ReportInv, ReportInputs
  <2>5. ReportInputs'
    BY <2>1, <2>3, <2>4 DEF ReportInv, ReportInputs
  <2>6. CASE x = "aggregation"
    <3>1. OnlyDefaults(result_json'["aggregation"])
      BY <2>1, <2>2, <2>6, ReportOfDiagnosis DEF ReportInv, ReportInputs
    <3> QED BY <2>5, <3>1 DEF ReportsAreDefaults, OnlyDefaults
  <2>7. CASE x # "aggregation"
    BY <1>n, <2>1, <2>5, <2>7 DEF ReportInv, ReportsAreDefaults, OnlyDefaults
  <2> QED BY <2>6, <2>7
<1>8. ASSUME NEW w \in Workers, HandleFailure(w) PROVE ReportInputs' /\ ReportsAreDefaults'
  <2>1. UNCHANGED <<input_data, result_json, writes>>
    BY <1>8 DEF HandleFailure, ResetIfRunning, FailExhausted, rowVars
  <2>2. \A v \in Workers : fetched'[v] =>
            stage'[v] = stage[v] /\ inputs'[v] = inputs[v] /\ fetched[v]
    BY <1>8, <1>t DEF HandleFailure, LetGo, TypeOK, Shapes
  <2> QED BY <1>2, <2>1, <2>2
<1>9. ASSUME UNCHANGED vars PROVE ReportInputs' /\ ReportsAreDefaults'
  <2>1. UNCHANGED <<input_data, result_json, writes, stage, inputs, fetched>>
    BY <1>9 DEF vars, rowVars, workerVars
  <2> QED BY <1>2, <2>1
<1>10. ReportInputs' /\ ReportsAreDefaults'
  BY <1>3, <1>4, <1>5, <1>6, <1>7, <1>8, <1>9 DEF Next
<1> QED BY <1>1, <1>10 DEF ReportInv

(* EveryReportIsEmpty: no report ever shows a transcript, a corrected text *)
(* or a measurement of its session: aggregation_stage.py looks for keys of *)
(* stages on which aggregation does not depend, and scores every session   *)
(* by the defaults.                                                        *)
THEOREM EveryReportIsEmpty == Spec => []ReportsAreDefaults
<1>1. Init => ReportInv
  <2> SUFFICES ASSUME Init PROVE ReportInv
    OBVIOUS
  <2>1. /\ \A s \in ALL_STAGES : writes[s] = 0
        /\ \A w \in Workers : ~fetched[w]
        /\ DOMAIN input_data = {"duration_ms"}
    BY DEF Init
  <2>2. FlowInv
    BY MaxRetriesAssumption
       DEF Init, FlowInv, TypeOK, Shapes, QueuedAreFed, ExecutedAreFed, InputsAreCurrent, ResultsFollow
  <2> QED BY <2>1, <2>2, Graph DEF ReportInv, ReportInputs, ReportsAreDefaults
<1>2. ReportInv => ReportsAreDefaults
  BY DEF ReportInv
<1> QED
  BY <1>1, <1>2, ReportKept, PTL DEF Spec

=============================================================================
