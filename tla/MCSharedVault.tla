--------------------------- MODULE MCSharedVault ---------------------------
(* Instance of SharedVault for TLC: two paths that differ in case only, and *)
(* one apart.                                                               *)
EXTENDS SharedVault, TLC

CONSTANTS p1, p2, p3

Folded == [p \in {p1, p2, p3} |-> IF p = p3 THEN "other" ELSE "same"]

Symmetric == Permutations(Procs) \cup Permutations(Rescanners) \cup Permutations({p1, p2})
============================================================================
