-------------------------- MODULE MCHttpDownloads --------------------------
EXTENDS HttpDownloads, TLC

Symmetry == Permutations(Threads) \union Permutations(Clients)
             \union Permutations(Admins)
=============================================================================
