------------------------- MODULE MCExplanationRuns -------------------------
(* Small instances of ExplanationRuns for TLC.                             *)
EXTENDS ExplanationRuns, TLC

Symmetry == Permutations(Workers) \cup Permutations(Callers) \cup Permutations(Runs)

=============================================================================
