SPECIFICATION FairSpec

CONSTANTS
    Workers = {w1, w2}
    Runs = {"r1", "r2"}
    Chunks <- IngestChunks
    ChunksOf <- IngestChunksOf
    Names = {"a", "b"}
    Candidates <- IngestCandidates
    Relations <- IngestRelations
    Descriptions = {"x", "y"}
    Distance <- IngestDistance
    Threshold = 1
    TopK = 1
    NoRun = NoRun
    MaxRetries = 1
    MaxErrors = 2
    MaxCrashes = 1

INVARIANTS
    TypeOK
    
    ProcessedChunksHaveRelations
    SynthesisCoversLinks
    DuplicateExplained

PROPERTIES
    EveryRunEnds

\* All runs are done at the end and the workers wait.
CHECK_DEADLOCK FALSE
