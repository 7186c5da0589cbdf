------------------------------ MODULE MCFacts ------------------------------
(* Bounds for the run of FactsStore: a run, and another in its directory. *)
EXTENDS FactsStore

MCMaxLocks == 2
=============================================================================
