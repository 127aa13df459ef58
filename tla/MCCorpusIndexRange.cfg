SPECIFICATION IndexSpec
CONSTANTS
    f1 = f1  f2 = f2  s1 = s1  s2 = s2  s3 = s3  essay = essay  p1 = p1  p2 = p2
    Files = {f1, f2}
    NoFile = NoFile
    BaseName <- OneName
    Size <- OneChunk
    Clerks = {}
    MaxId = 1
    Sites = {s1, s2}
    NoSite = NoSite
    Process <- Apart
    NoIndex = NoIndex
    MaxFaults = 1
INVARIANTS ServedIsInRange
SYMMETRY Symmetry
