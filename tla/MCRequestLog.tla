----------------------------- MODULE MCRequestLog -----------------------------
EXTENDS RequestLog, TLC

CONSTANTS r1, r2, w

Symmetry == Permutations({r1, r2})
=============================================================================
