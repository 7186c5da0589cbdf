--------------------------- MODULE MCCoordinator ---------------------------
(* Model values and symmetry for the runs of Coordinator. *)
EXTENDS Coordinator, TLC

\* Task names and callers are interchangeable; used by runs of invariants only.
Symmetry == Permutations(Tasks) \cup Permutations(Callers)
=============================================================================
