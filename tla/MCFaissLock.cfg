SPECIFICATION FairSpec
CONSTANTS
    Procs = {p1, p2, p3}
    NoOne = NoOne
    Timeout = 1
    Stale = 2
    MaxHold = 2
    MaxOrphans = 1
INVARIANTS ExclusiveUntilOrphaned
PROPERTIES ImplementsWriteLock NeverLockedUp AcquireEnds
