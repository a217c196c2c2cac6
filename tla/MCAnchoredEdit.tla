-------------------------- MODULE MCAnchoredEdit --------------------------
(* Small instances of AnchoredEdit.                                        *)
EXTENDS AnchoredEdit, TLC

Symmetry == Permutations(Agent) \cup Permutations(Val)
=============================================================================
