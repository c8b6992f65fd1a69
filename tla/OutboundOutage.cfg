\* TikTok fails; an event delivered twice among events that never leave.
CONSTANTS
    x1 = x1  x2 = x2  x3 = x3  x4 = x4  x5 = x5
    e1 = e1  e2 = e2  e3 = e3  e4 = e4
    Deliveries = {x1, x2, x3, x4, x5}
    EventIds = {e1, e2, e3, e4}
    Keys = {e1, e2, e3, e4}
    EventOf <- MCEventOf5
    Unmapped = {e2}
    NoAdvertiser = {e3}
    NoValue = {e4}
    Faults = {"api"}
    Attempts = 2
    MaxStalls = 1
    MaxCrashes = 0
SPECIFICATION FairSpec
INVARIANTS SettledLogIsTruthful GivesUpOnlyWhenExhausted
PROPERTIES SentIsFinal EveryEventSettles
CHECK_DEADLOCK FALSE
