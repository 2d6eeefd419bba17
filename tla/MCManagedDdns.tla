--------------------------- MODULE MCManagedDdns ---------------------------
EXTENDS ManagedDdns, TLC
CONSTANTS t1, t2, d, pay
MCDonorOf == (t1 :> d) @@ (t2 :> d)
MCSenderOf == [m \in Messages |-> d]
Symmetry == Permutations(Tokens) \cup Permutations(Workers)
=============================================================================
