------------------------------- MODULE MCReads -------------------------------
(* Small instances of System with the requests that read jobs, for TLC. *)
EXTENDS MCSystem, JobReads
=============================================================================
