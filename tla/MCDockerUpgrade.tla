--------------------------- MODULE MCDockerUpgrade ---------------------------
EXTENDS DockerUpgrade, TLC
MCSymmetry == Permutations(Upgraders) \cup Permutations(Backups)
=============================================================================
