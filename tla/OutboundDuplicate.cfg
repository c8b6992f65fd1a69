\* An event that comes before its advertiser has an event set.
CONSTANTS
    x1 = x1  x2 = x2  x3 = x3  x4 = x4  x5 = x5
    e1 = e1  e2 = e2  e3 = e3  e4 = e4
    Deliveries = {x1, x2}
    EventIds = {e1}
    Keys = {e1}
    EventOf <- MCEventOf
    Unmapped = {}
    NoAdvertiser = {}
    NoValue = {}
    Faults = {}
    Attempts = 2
    MaxStalls = 1
    MaxCrashes = 0
SPECIFICATION Spec
INVARIANTS DuplicateMeansProcessed
CHECK_DEADLOCK FALSE
