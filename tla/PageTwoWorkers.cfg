SPECIFICATION FairSpec

CONSTANTS
    Workers = {w1, w2}
    Jobs <- RewriteJobs
    Entities = {"e"}
    SourceIds = {"s1", "s2", "s3"}
    Entity <- RewriteEntity
    Sources <- RewriteSources
    Rank <- RewriteRank
    NoJob = 0
    NoWorker = NoWorker
    LockTries = 2
    MaxRetries = 1
    MaxErrors = 1
    MaxCrashes = 1

INVARIANTS
    TypeOK
    OneSynthesizer

PROPERTIES
    PublishedWithCompletion
    LossExplained
    JobEndsOrIsStuck

\* All jobs are done at the end and the workers wait.
CHECK_DEADLOCK FALSE
