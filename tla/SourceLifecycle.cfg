SPECIFICATION FairSpec

CONSTANTS
    Requests = {d1, d2}
    MaxRetries = 1
    MaxFaults = 2

INVARIANTS
    TypeOK
    ChunksGoWithSource
    DeletedStaysDeleted
    FileGoesWithRow

PROPERTIES
    IngestEnds

\* Upload, requests and runs end.
CHECK_DEADLOCK FALSE
