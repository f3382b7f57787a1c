SPECIFICATION MCSpec
CONSTANTS
    MaxSets = 1
    Slots = {1, 2}
    CatalogHandlers = {h1, h2}
    Absent = Absent
    MaxCatalogOps = 3
    Users = {a1, a2, u1}
    Root = a1
    Groups = {asr}
    Features = {email}
    Values = {v1, v2}
    Caps = {1, 2}
    DefaultValue = v1
    DefaultCap = 1
    SaveHandlers = {h1, h2}
    NoSettings = NoSettings
    MaxSaves = 3
    MaxAccounts = 2
    Requests = {h1, h2}
    TicksPerSecond = 2
    Timeout = 2
    SeenEvery = 1
    NoAccount = NoAccount
    MaxClock = 5
    MaxCalls = 3
    TagUsers = {a1, u1}
    TagAdmins = {a1}
    GlobalScope = GlobalScope
    MaxTags = 2
    TagNames = {x, y}
    TagHandlers = {h1, h2}
    NoTag = NoTag
    MaxTagCalls = 4
    MaxMails = 2
    Texts = {x, y}
    MailHandlers = {h1, h2}
    NoMail = NoMail
    MaxMailCalls = 4
    MaxMailDeaths = 1
    RateKeys = {k1, k2}
    SpecialKeys = {k2}
    Minute = 3
    DefaultCost = 1
    SpecialCost = 2
    MaxMoment = 4
INVARIANTS
    WeightsHaveSets
CHECK_DEADLOCK FALSE
