\* Every kind of trouble but the UPDATEs of the log, a crash or a shutdown with
\* and without a second signal, a lead delivered twice.
CONSTANTS
    d1 = d1  d2 = d2  l1 = l1
    EventIds = {d1, d2}
    Keys = {l1}
    LeadOf <- MCLeadOf
    Unbuildable = {}
    Faults = {"api", "reply", "postgres", "redis", "resend", "ttl", "crash"}
    Attempts = 2
    MaxStalls = 1
    MaxCrashes = 1
SPECIFICATION SFairSpec
INVARIANTS ShutdownTypeOK SentMeansDelivered NoDuplicateLead AttemptsBounded UnmarkedIsNotQueued
PROPERTIES ExitSparesJobs ShutdownEnds ImplementsAtMostOnce ImplementsSettling
CHECK_DEADLOCK FALSE
