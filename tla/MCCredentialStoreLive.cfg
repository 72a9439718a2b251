SPECIFICATION FairSpec
CONSTANTS
    bot = bot
    cli = cli
    Procs = {bot, cli}
    Bot = bot
    NoOne = NoOne
    Ghost = Ghost
    MaxAccounts = 1
    FirstPairs = 1
    Callers = {c1, c2}
    MaxPairs = 2
    MaxAdmin = 0
    MaxFaults = 1
INVARIANTS
    NobodyForgotten
PROPERTIES
    CallEnds
CHECK_DEADLOCK FALSE
