SPECIFICATION MCSpec
CONSTANTS
    t1 = t1
    t2 = t2
    Turns = {t1, t2}
    Slots = 1
    MaxRounds = 2
    MaxRetries = 1
    ReadLimit = 2
    MaxBatch = 3
    Items = {1, 2}
    MaxAttempts = 2
    j1 = j1
    j2 = j2
    Jobs = {j1, j2}
    Limit <- OneEach
    Week = 1
    LastDay = 1
    Max429 = 2
    k1 = k1
    k2 = k2
    Calls = {k1, k2}
    Pool = 2
    LastPeriod = 1
    MaxReconnects = 1
    MaxLogins = 2
    MaxCallsOpen = 2
    ServiceCalls = {k1, k2}
    PoolAccounts = {p1, p2}
    MaxXaiTries = 2
    NoAccount = NoAccount
    n1 = n1
    n2 = n2
    Jids = {n1, n2}
    NumChats = 2
    NoJid = NoJid
    LastRelease = 2
    Runs = {r1, r2}
    NumMembers = 2
    LastStats = 2
    Alerts = {a1, a2}
    MaxRefusals = 1
    MaxFaults = 1
    DayHours = 4
    WeekDays = 3
    MonthLengths <- ShortMonths
    Spring = 17
    Autumn = 42
    MaxTaskDays = 16
    MaxSteps = 70
    MaxTries = 20
    Rules <- SomeRules
    Starts <- SomeStarts
    Downtimes = {0, 7, 30}
    NoTime = NoTime
    Askers = {k1, k2}
    MaxLaunches = 2
    MaxPowerOffs = 1
    SlowScripts = FALSE
    Edits = {k1, k2}
    Voices = {v1, v2}
    DefaultVoice = v1
    NoVoice = NoVoice
    MaxMemory = 2
    ReviewAfter = 1
INVARIANTS
    TypeOK
    RoundsKept
    AllowancesKept
    ClientsInHand
    ScheduleKept
    MinecraftKept
PROPERTIES
    StartsInTurn
    TurnAnswers
    CallIsHonest
    NeverGivenUp
    NoticesKept
    OutboxDrains
CHECK_DEADLOCK FALSE
