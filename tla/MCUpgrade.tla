----------------------------- MODULE MCUpgrade -----------------------------
EXTENDS Upgrade, TLC

Symmetry == Permutations(Tasks) \union Permutations(Restarters)
=============================================================================
