SPECIFICATION Spec
CONSTANTS
    Jobs = {j1}
    Workers = {w1, w2}
    Clients = {c1}
    NoJob = NoJob
    Ops = {"create", "cancel"}
    FailFlags = {FALSE}
    Chunks = 1
    MaxRequests = 5
    MaxCrashes = 0
INVARIANTS
    CancellingIsDrained
CHECK_DEADLOCK FALSE
