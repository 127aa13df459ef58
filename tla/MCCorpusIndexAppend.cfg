SPECIFICATION AppendFairSpec
CONSTANTS
    f1 = f1  f2 = f2  s1 = s1  s2 = s2  s3 = s3  essay = essay  p1 = p1  p2 = p2
    Files = {f1, f2}
    NoFile = NoFile
    BaseName <- OneName
    Size <- Sizes
    Clerks = {}
    MaxId = 2
    Sites = {s1, s2, s3}
    NoSite = NoSite
    Process <- Third
    NoIndex = NoIndex
    MaxFaults = 1
INVARIANTS ServedIsAligned IndexIsPrefix
PROPERTIES VerifiedIsAligned Settles
