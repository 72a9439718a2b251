SPECIFICATION Spec
CONSTANTS
    once = once
    series = series
    wa = wa
    group = group
    Tasks = {once, series}
    Recurring = {series}
    Dests = {wa, group}
    DestsOf <- MCDestsOf
    MaxOcc = 2
    MaxAttempts = 2
    ClaimTTL = 1
    LostAcks = FALSE
    MaxCrashes = 1
    MaxFaults = 1
INVARIANTS
    TypeOK
    AtMostOnce
    FailureIsHonest
PROPERTIES
    KeepsPromise
