SPECIFICATION MCSpec
CONSTANTS
    Durations = {1, 2}
    AsrShares = {57, 100}
    DrainTargets = {80, 95}
    NoTime = NoTime
    NoFile = NoFile
    Torn = Torn
    Whole = Whole
    Second = 2
    RunMaxTime = 2
    RunMaxOps = 3
    RunMaxCrashes = 1
    MediaJobs = {j1, j2, j3}
    MediaHandlers = {h1, h2}
    MediaNames = {a, b}
    NoRow = NoRow
    MaxMediaOps = 4
    MaxMediaDeaths = 1
    Providers = {1, 2}
    ModelNames = {1, 2}
    Diarizers = {1, 2}
    MaxEdits = 1
    MaxRuns = 2
SYMMETRY Symmetry
INVARIANTS
    JobRunTypeOK
    TranscriptIsWhole
    HeardOnce
    TimeIsWork
    MediaIsOwn
PROPERTIES
    ProgressOnlyRises
    ExplicitChoiceHonoured
    RunKeepsChoice
CHECK_DEADLOCK FALSE
