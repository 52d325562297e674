-------------------------- MODULE MCRequestLimits --------------------------
(* Small instances of RequestLimits for TLC.                               *)
EXTENDS RequestLimits, TLC

Symmetry == Permutations(Addresses)

=============================================================================
