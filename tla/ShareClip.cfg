SPECIFICATION Spec
CONSTANTS
    Workers = {w1, w2}
    c0 = c0
    c1 = c1
    c2 = c2
    c3 = c3
    Clips = {c0, c1, c2, c3}
    HasFile = {c1, c2}
    Legacy <- MCLegacy
    Ports = {8888, 8889}
    Ids = {pub, me}
    None = None
    MAX_HISTORY = 2
    MaxRequests = 5
    MaxFaults = 1
SYMMETRY Symmetry
INVARIANTS AnswersKept AssetsExact SettingsKept
CHECK_DEADLOCK FALSE
