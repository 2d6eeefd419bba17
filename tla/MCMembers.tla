----------------------------- MODULE MCMembers -----------------------------
EXTENDS Members, TLC
CONSTANTS p1, p2, x1, X1, x2, bad
MCRaws == {x1, X1, x2, bad}
MCCleaned == (x1 :> p1) @@ (X1 :> p1) @@ (x2 :> p2) @@ (bad :> None)
=============================================================================
