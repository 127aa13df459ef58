SPECIFICATION FairSpec
CONSTANTS
    a = a
    b = b
    Docs <- TheDocs
    Pairs <- ThePairs
    Similar <- ThePairs
    Duplicates = {}
    Chunks <- LongAndShort
    TopK = 1
    IvfThreshold = 5
    Statuses = {Pending}
    Pending = Pending
    NoRow = NoRow
    Interval = 1
    Scanners = {s1}
    PassTime = 1
    Window = 4
    MaxAttempts = 2
    MaxOutages = 1
    MaxFaults = 1
    MaxDeaths = 1
    MaxDeletes = 0
INVARIANTS NoMatchMissed
PROPERTIES KeepsScanning AlertArrives
