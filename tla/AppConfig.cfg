SPECIFICATION Spec
CONSTANTS
  Workers = {w1, w2}
  Lan = {lan1}
  Outside = {out1}
  Nets = {n1}
  MaxTime = 2
  MaxDuration = 1
  MaxRequests = 3
  Restarts = TRUE
SYMMETRY Symmetry
INVARIANTS
  OutsidersNeedGrant
PROPERTIES
  SoleWriterKeepsRest
