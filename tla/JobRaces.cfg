SPECIFICATION Spec
CONSTANTS
    Jobs = {j1}
    Workers = {w1, w2}
    Clients = {c1, c2}
    NoJob = NoJob
    Ops = {"create", "cancel", "pause", "resume", "delete"}
    FailFlags = {FALSE}
    Chunks = 2
    MaxRequests = 5
    MaxCrashes = 1
SYMMETRY Symmetry
INVARIANTS
    TypeOK
    OneWorkerPerJob
    ProcessingIsHeld
    StopWithinOneCall
    CompletedHasTranscript
CHECK_DEADLOCK FALSE
