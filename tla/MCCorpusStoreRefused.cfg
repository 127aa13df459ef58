SPECIFICATION Spec
CONSTANTS
    f1 = f1  f2 = f2  essay = essay  c1 = c1
    Files = {f1, f2}
    NoFile = NoFile
    BaseName <- OneName
    Size <- Sizes
    Clerks = {c1}
    MaxId = 4
INVARIANTS SoftDeleteIsPossible
