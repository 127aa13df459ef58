SPECIFICATION Spec
CONSTANTS
  p1 = p1
  p2 = p2
  w1 = w1
  w2 = w2
  NoJob = NoJob
  Jobs = {j1, j2}
  Procs = {p1, p2}
  Workers = {w1, w2}
  Home <- HomeApart
  MaxRetries = 2
  StaleLimit = 1
  MaxCrashes = 1
  MaxDbErrors = 1
  MaxStops = 0
CHECK_DEADLOCK FALSE
SYMMETRY JobSymmetry
INVARIANTS
  ClaimableHasRetryLeft
  NeverDeadEarly
  NoSilentOrphan
