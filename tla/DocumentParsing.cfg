SPECIFICATION Spec

CONSTANTS
    MaxChars = 6
    OverlapChars = 2
    Pages = {0, 1, 2}
    NoPage = NoPage
    Batches = {}
    Files <- MCFiles
    OcrThreshold = 3

INVARIANTS
    TextKept
    PagesHonest
    ChunksBounded

\* The document ends.
CHECK_DEADLOCK FALSE
