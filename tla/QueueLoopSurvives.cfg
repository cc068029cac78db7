SPECIFICATION Spec

CONSTANTS
    Workers = {w1, w2}
    Jobs <- CoalesceJobs
    Kind <- CoalesceKind
    Target <- CoalesceTarget
    Sources <- CoalesceSources
    Origin <- CoalesceOrigin
    Rank <- CoalesceRank
    PkRank <- CoalescePkRank
    Backlog <- CoalesceBacklog
    NoJob = 0
    NoWorker = NoWorker
    MaxRetries = 1
    MaxFails = 3
    MaxRestarts = 0

INVARIANTS
    LoopSurvives

\* The queue is empty at the end and the workers wait.
CHECK_DEADLOCK FALSE
