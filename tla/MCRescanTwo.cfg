SPECIFICATION Spec
CONSTANTS
    a = a
    b = b
    Docs <- TheDocs
    Pairs <- ThePairs
    Similar <- ThePairs
    Duplicates = {}
    Chunks <- OneEach
    TopK = 1
    IvfThreshold = 5
    Statuses = {Pending, Confirmed}
    Pending = Pending
    NoRow = NoRow
    Interval = 1
    Scanners = {s1, s2}
    PassTime = 0
    Window = 2
    MaxAttempts = 2
    MaxOutages = 0
    MaxFaults = 1
    MaxDeaths = 1
    MaxDeletes = 1
INVARIANTS TypeOK AlertsAreNew NoAlertForgotten
PROPERTIES DecisionsStand
SYMMETRY Symmetry
VIEW WithoutUnsureAndHeard
