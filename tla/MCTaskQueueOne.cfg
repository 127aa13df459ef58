SPECIFICATION FairSpec
CONSTANTS
  p1 = p1
  p2 = p2
  w1 = w1
  w2 = w2
  NoJob = NoJob
  Jobs = {j1, j2}
  Procs = {p1}
  Workers = {w1, w2}
  Home <- HomeShared
  MaxRetries = 2
  StaleLimit = 2
  MaxCrashes = 1
  MaxDbErrors = 1
  MaxStops = 1
CHECK_DEADLOCK FALSE
INVARIANTS
  TypeOK
  ExclusiveProcessing
  RetriedStaysDead
PROPERTIES
  EndedIsFinal
  KeepsLifecycle
  StopTakesEffect
