SPECIFICATION FairSpec
CONSTANTS
  Threads = {t1, t2}
  Admins = {a1}
  Clients = {c1, c2}
  None = None
  MaxTotal = 1
  MaxPerIp = 1
  MaxChunks = 2
  MaxTransfers = 1
  MaxCuts = 2
INVARIANTS
  TypeOK
  SlotsExact
  StreamsRegistered
  StaleStreamStops
PROPERTIES
  SlotPool
