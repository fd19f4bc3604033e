------------------------------ MODULE MCSystem ------------------------------
(***************************************************************************)
(* Small instances of System for TLC.  Stage b, where it is present,       *)
(* depends on stage a; all stages share one stream, as nlp_processing and  *)
(* grammar_correction do, and every worker serves it.                      *)
(***************************************************************************)
EXTENDS System, TLC

CONSTANTS j1, j2, a, b, w1, w2, q, s1, s2

MCDag == [x \in Stages |-> IF x = b THEN {a} \cap Stages ELSE {}]

(* One retry for the first stage, none for the second.                     *)
MCRetries == [x \in Stages |-> IF x = a THEN 1 ELSE 0]

MCStream == [x \in Stages |-> q]
MCServes == [w \in Workers |-> q]

(* Job j1 is more urgent than job j2.                                      *)
MCPriority == [j \in Jobs |-> IF j = j1 THEN 1 ELSE 2]

(* Workers and schedulers are interchangeable.                             *)
Alike == Permutations(Workers) \cup Permutations(Schedulers)
=============================================================================
