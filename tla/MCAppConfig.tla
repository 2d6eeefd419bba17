---------------------------- MODULE MCAppConfig ----------------------------
EXTENDS AppConfig, TLC

Symmetry == Permutations(Workers)
=============================================================================
