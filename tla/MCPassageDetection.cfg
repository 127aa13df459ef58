SPECIFICATION Spec
CONSTANTS
    Texts <- SomeTexts
    ChunkSizes = {2, 5}
    Overlap = 1
    MinSize = 3
    Forward = 4
    Backward = 2
    MinWords = 1
    MinTail = 2
    MaxChunks = 4
    OtherChunks <- ThreeChunks
    MaxMatches = 3
CHECK_DEADLOCK FALSE
INVARIANTS OverlapKept EachIsNew CapKept WordsKept PositionsUsable SegmentsAreSolid CoverageCounts
