SPECIFICATION MCSpec
CONSTANTS
    Workspaces = {w1, w2}
    Callers = {a, b}
    Gens = {g1, g2, g3}
    NoGen = NoGen
    Cap = 1
    IdleTTL = 1
    CmdMax = 1
    MaxShutdowns = 1
    ToolCalls = {c1, c2}
    Wiper = Wiper
    NoOwner = NoOwner
    LockTTL = 4
    TextMax = 1
    ShellMax = 1
    Quota = 2
    Batch = 2
    MaxSpill = 1
    MaxMishaps = 1
    Roots = {r1, r2}
    RootLimit = 2
    WriteRate = 1
    PollMax = 2
    ApiSizes = {2}
    MaxSize = 5
    AttIds = {i1, i2}
    Names = {1, 2, 3}
    NoName = NoName
    MaxTurns = 2
    MaxFaults = 2
    MaxDeaths = 1
    f1 = f1
    f2 = f2
    Contents = {f1, f2}
    Sound <- SpeechAndSilence
    Readers = {reader}
    Routes = {"none", "xai>cloudflare"}
    TTL = 1
    Debounce = 1
    CacheCap = 1
    NumClips = 4
    PerTurn = 2
    Workers = 2
    NoEntry = NoEntry
    VoiceChats = {v1, v2}
    MaxAudio = 3
    MaxRecent = 2
    MatchWithin = 0
    MaxAge = 0
    LastMoment = 1
    MaxLostWrites = 1
    Files = {m1, m2, m3}
    s1 = s1
    s2 = s2
    s3 = s3
    Sends = {s1, s2, s3}
    Dest <- TwoTurns
    MaxSent = 1
    Tokens = {l1, l2}
    LinkTTL = 1
    OrphanAge = 2
    MaxRequests = 1
    LastTick = 4
INVARIANTS
    TypeOK
    ContainersBounded
    TagsResolve
    AnswersDelivered
    GemixTextsKept
PROPERTIES
    ReaperSparesCommands
    FilesKept
    FilesReadTrue
CHECK_DEADLOCK FALSE
