\* An event delivered again after its key has expired, while BullMQ still
\* keeps the finished job of the first delivery.
CONSTANTS
    x1 = x1  x2 = x2  x3 = x3  x4 = x4  x5 = x5
    e1 = e1  e2 = e2  e3 = e3  e4 = e4
    Deliveries = {x1, x2}
    EventIds = {e1}
    Keys = {e1}
    EventOf <- MCEventOf
    Unmapped = {}
    NoAdvertiser = {}
    NoValue = {}
    Faults = {"api", "ttl"}
    Attempts = 2
    MaxStalls = 1
    MaxCrashes = 0
SPECIFICATION Spec
PROPERTIES EveryFailureIsRetried
CHECK_DEADLOCK FALSE
