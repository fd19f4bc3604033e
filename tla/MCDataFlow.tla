----------------------------- MODULE MCDataFlow -----------------------------
(***************************************************************************)
(* An instance of DataFlow for TLC.  Three workers are enough for both     *)
(* branches of the pipeline and one worker that lost its task; their draws *)
(* lie on both sides of a threshold.                                       *)
(***************************************************************************)
EXTENDS DataFlow

CONSTANTS fine, broken, w1, w2, w3

(* Workers are interchangeable.                                            *)
Alike == Permutations(Workers)
=============================================================================
