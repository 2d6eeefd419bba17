SPECIFICATION Spec
CONSTANTS
  Workers = {w1, w2}
  Sids = {s1, s2, s3}
  Fds = {f1, f2, f3}
  None = None
  MaxSessions = 2
SYMMETRY Symmetry
INVARIANTS
  TypeOK
  FdsExact
  NoOrphanShell
  IoOwnPty
  CapOvershoot
