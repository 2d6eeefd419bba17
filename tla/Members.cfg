SPECIFICATION Spec
CONSTANTS
    Workers = {w1, w2}
    Members = {m1, m2}
    Registered = {m1, m2}
    p1 = p1
    p2 = p2
    x1 = x1
    X1 = X1
    x2 = x2
    bad = bad
    Prefixes = {p1, p2}
    Raws <- MCRaws
    Cleaned <- MCCleaned
    None = None
    Limit = 1
    Window = 1
    TTL = 2
    MaxTime = 2
    MaxRequests = 5
INVARIANTS NamesUnique SessionsHold YearlyLimit
