------------------------ MODULE MCStrategyLifecycle ------------------------
(* StrategyLifecycle on small sets of strategies, jobs and sessions. *)
EXTENDS StrategyLifecycle
Symmetry == Permutations(Sessions)
=============================================================================
