SPECIFICATION FairSpec
CONSTANTS
    once = once
    series = series
    wa = wa
    group = group
    Tasks = {once}
    Recurring = {}
    Dests = {wa, group}
    DestsOf <- MCDestsOf
    MaxOcc = 1
    MaxAttempts = 3
    ClaimTTL = 2
    LostAcks = TRUE
    MaxCrashes = 2
    MaxFaults = 1
INVARIANTS
    AttemptsBoundSends
PROPERTIES
    DueIsSettled
