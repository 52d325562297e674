------------------------------ MODULE MCRollout ------------------------------
EXTENDS Rollout, TLC

CONSTANTS app, worker, e1, e2

Symmetry == Permutations({app, worker}) \cup Permutations({e1, e2})
=============================================================================
