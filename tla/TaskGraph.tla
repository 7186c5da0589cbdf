----------------------------- MODULE TaskGraph -----------------------------
(* The dependency graph of a set of tasks, need[t] being what t depends on. *)

\* Kahn's algorithm never finds an empty ready set: in every non-empty part
\* of S some task needs nothing of that part.
Acyclic(S, need) ==
    \A U \in SUBSET S : U # {} => \E t \in U : need[t] \cap U = {}
=============================================================================
