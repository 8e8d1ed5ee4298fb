--------------------------- MODULE MCOrderIntake ---------------------------
(* OrderIntake on small sets of traders, requests and keys. *)
EXTENDS OrderIntake, TLC
Symmetry == Permutations(Sessions)
=============================================================================
