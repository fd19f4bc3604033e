------------------------------ MODULE MCDepths ------------------------------
(* Small instances of System with the reports on its queues, for TLC. *)
EXTENDS MCSystem, QueueDepths
=============================================================================
