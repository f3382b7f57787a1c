SPECIFICATION FairSpec
CONSTANTS
    Jobs = {j1, j2}
    Workers = {w1}
    Clients = {c1}
    NoJob = NoJob
    Ops = {"create", "cancel", "restart", "delete"}
    FailFlags = {FALSE, TRUE}
    Chunks = 1
    MaxRequests = 4
    MaxCrashes = 1
INVARIANTS
    QueuedIsWaiting
    TranscribedOnce
    ProcessingHasPipelineStage
PROPERTIES
    QueuedIsServed
CHECK_DEADLOCK FALSE
