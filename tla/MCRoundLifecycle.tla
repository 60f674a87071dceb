-------------------------- MODULE MCRoundLifecycle --------------------------
EXTENDS RoundLifecycle, TLC

CONSTANTS i1, i2, i3, s1, s2

Interchangeable == Permutations(RoundRow) \cup Permutations(Session)
=============================================================================
