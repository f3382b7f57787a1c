SPECIFICATION FairSpec
CONSTANTS
    Jobs = {j1}
    Stop = Stop
    NoJob = NoJob
    Savers = {s1, s2}
    Sizes = {1, 2}
    Biggest = 2
    InitialSize = 2
    MaxPuts = 1
    MaxChanges = 3
PROPERTIES
    EveryChangeEnds
CHECK_DEADLOCK FALSE
