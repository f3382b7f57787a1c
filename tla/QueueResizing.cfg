SPECIFICATION FairSpec
CONSTANTS
    Jobs = {j1, j2}
    Stop = Stop
    NoJob = NoJob
    Savers = {s1, s2}
    Sizes = {1, 2}
    Biggest = 2
    InitialSize = 2
    MaxPuts = 3
    MaxChanges = 2
INVARIANTS
    TypeOK
    OneTaskPerJob
    SlotsBalance
    WorkersAreKnown
    TaskDoneIsCovered
PROPERTIES
    AheadIsTaken
    ChangeEnds
    ImplementsWorkPool
CHECK_DEADLOCK FALSE
