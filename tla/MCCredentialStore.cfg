SPECIFICATION Spec
CONSTANTS
    bot = bot
    cli = cli
    Procs = {bot, cli}
    Bot = bot
    NoOne = NoOne
    Ghost = Ghost
    MaxAccounts = 2
    FirstPairs = 1
    Callers = {c1}
    MaxPairs = 3
    MaxAdmin = 1
    MaxFaults = 1
INVARIANTS
    NothingClobbered
    StoreIsCurrent
PROPERTIES
    OnlyRefusedMarked
CHECK_DEADLOCK FALSE
