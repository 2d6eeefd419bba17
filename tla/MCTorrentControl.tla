------------------------- MODULE MCTorrentControl -------------------------
EXTENDS TorrentControl, TLC
Symmetry == Permutations(Workers)
=============================================================================
