SPECIFICATION FairSpec

CONSTANTS
    Workers = {w1}
    Jobs <- MixedJobs
    Kind <- MixedKind
    Target <- MixedTarget
    Sources <- MixedSources
    Origin <- MixedOrigin
    Rank <- MixedRank
    PkRank <- MixedPkRank
    Backlog <- MixedBacklog
    NoJob = 0
    NoWorker = NoWorker
    MaxRetries = 1
    MaxFails = 3
    MaxRestarts = 2

PROPERTIES
    ImplementsDurableQueue
    JobSettlesOrIsOrphaned

\* The queue is empty at the end and the workers wait.
CHECK_DEADLOCK FALSE
