SPECIFICATION FairSpec
CONSTANTS
    Jobs = {j1}
    Workers = {w1, w2}
    Clients = {c1}
    NoJob = NoJob
    Ops = {"create", "cancel", "pause", "resume", "delete"}
    FailFlags = {FALSE}
    Chunks = 1
    MaxRequests = 4
    MaxCrashes = 1
PROPERTIES
    ProcessingEnds
    WorkersComeBack
    CancelIsHonoured
    PauseIsHonoured
CHECK_DEADLOCK FALSE
