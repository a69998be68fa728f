---------------------------- MODULE MCLiveQuery ----------------------------
EXTENDS LiveQuery, TLC

CONSTANTS s1, s2, r1, r2

Garbage == -1   (* no rows of any version *)

MCSymmetry == Permutations(Streams) \cup Permutations(Requests)
=============================================================================
