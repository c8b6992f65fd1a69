\* Every operation against every other, with every fault of the stores.
CONSTANTS
    o1 = o1  o2 = o2  o3 = o3  s1 = s1  s2 = s2
    Ops = {o1, o2, o3}
    MaxIssued = 2
    Values <- MCValues
    None = 0
    OAuthStates = {s1, s2}
    Faults = {"api", "reply", "postgres", "redis", "ttl", "crash"}
SPECIFICATION Spec
SYMMETRY MCSymmetry
INVARIANTS TypeOK CopyWasStored CoherentUnlessDisturbed LastTokenWins UsedStateIsRefused
CHECK_DEADLOCK FALSE
