SPECIFICATION Spec
CONSTANTS
    Workers = {w1, w2}
    Clients = {"qbittorrent", "docker", "transmission", "rtorrent"}
    None = None
    MaxOwn = 2
    MaxRequests = 2
    MaxTroubles = 2
SYMMETRY Symmetry
INVARIANTS ServiceComesBack SettingsInForce VerifiedIsTrue
CHECK_DEADLOCK FALSE
