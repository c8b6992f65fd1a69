\* The destination fails and keys expire; Postgres, Redis and the process hold.
\* The second lead carries a create_time that is no date.
CONSTANTS
    d1 = d1  d2 = d2  d3 = d3  d4 = d4
    l1 = l1  l2 = l2
    EventIds = {d1, d2, d3, d4}
    Keys = {l1, l2}
    LeadOf <- MCLeadOf
    Unbuildable = {l2}
    Faults = {"api", "ttl"}
    Attempts = 3
    MaxStalls = 1
    MaxCrashes = 0
SPECIFICATION FairSpec
INVARIANTS SettledLogIsTruthful GivesUpOnlyWhenExhausted DuplicateIsBacked
PROPERTIES SentIsFinal EveryLeadSettles
CHECK_DEADLOCK FALSE
