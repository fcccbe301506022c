------------------------- MODULE MCBudgetAuthority -------------------------
(* Bounds of the retained budget authority for TLC. *)
EXTENDS BudgetAuthority, TLC

CONSTANTS r1, r2, k1

Symmetry == Permutations(Run)
=============================================================================
