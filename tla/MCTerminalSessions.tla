------------------------- MODULE MCTerminalSessions -------------------------
EXTENDS TerminalSessions, TLC

Symmetry == Permutations(Workers) \union Permutations(Sids)
             \union Permutations(Fds)
=============================================================================
