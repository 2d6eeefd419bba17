---------------------------- MODULE MCShareClip ----------------------------
EXTENDS ShareClip, TLC
CONSTANTS c0, c1, c2, c3
MCLegacy == <<c0>>
Symmetry == Permutations(Workers)
=============================================================================
