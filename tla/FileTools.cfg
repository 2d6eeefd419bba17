SPECIFICATION FileSpec
CONSTANTS
    Workers = {w1, w2}
    film = film
    show = show
    ad = ad
    cn = cn
    y20 = y20
    e1 = e1
    e2 = e2
    zh = zh
    en = en
    n1 = n1
    v1 = v1
    v2 = v2
    s1 = s1
    s2 = s2
    u1 = u1
    u2 = u2
    u3 = u3
    u4 = u4
    up = up
    Dots <- MCDots
    Cjk = {cn}
    Removed = {ad}
    Years = {y20}
    Episodes = {e1, e2}
    Langs = {zh, en}
    Copies <- MCCopies
    VIDEO = VIDEO
    SUBTITLE = SUBTITLE
    Dir = Dir
    Torn = Torn
    Nothing = Nothing
    Trees <- MCTrees
    Items <- MCItems
    Speaks <- MCSpeaks
    MaxRequests = 3
    MaxFaults = 1
SYMMETRY Symmetry
INVARIANTS NothingLost NoRowGone LanguageKept
CHECK_DEADLOCK FALSE
