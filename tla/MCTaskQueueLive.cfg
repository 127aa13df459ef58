SPECIFICATION FairSpec
CONSTANTS
  p1 = p1
  p2 = p2
  w1 = w1
  w2 = w2
  NoJob = NoJob
  Jobs = {j1}
  Procs = {p1, p2}
  Workers = {w1, w2}
  Home <- HomeApart
  MaxRetries = 3
  StaleLimit = 2
  MaxCrashes = 2
  MaxDbErrors = 0
  MaxStops = 0
CHECK_DEADLOCK FALSE
PROPERTIES SubmittedJobEnds
