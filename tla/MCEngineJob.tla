---- MODULE MCEngineJob ----
(***************************************************************************)
(* TLC instances of EngineJob: jobs and callers are model values, told     *)
(* apart only by name, so their permutations are a symmetry of the runs    *)
(* that check invariants only.                                             *)
(***************************************************************************)
EXTENDS EngineJobRefinement, TLC

Symmetry == Permutations(Jobs) \cup Permutations(Callers)
====
