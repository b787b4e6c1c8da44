--------------------------- MODULE MCTaskLifecycle ---------------------------
(* TaskLifecycle on small instances: agents and tasks are interchangeable. *)
EXTENDS TaskLifecycle, TLC

Symmetry == Permutations(Agents) \cup Permutations(Tasks)
=============================================================================
