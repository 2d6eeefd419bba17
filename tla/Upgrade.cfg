SPECIFICATION FairSpec
CONSTANTS
  Tasks = {u1, u2, u3}
  Pollers = {p1}
  Restarters = {r1, r2}
  None = None
  DiskFails = TRUE
INVARIANTS
  OneUpgrade
  OneRestart
  SuccessIsTrue
PROPERTIES
  RunningIsRepaired
