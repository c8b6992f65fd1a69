\* Every operation against every other, with every fault.
CONSTANTS
    o1 = o1  o2 = o2  o3 = o3
    s1 = s1  s2 = s2  s3 = s3
    Ops = {o1, o2}
    Values = {s1, s2, s3}
    None = None
    EnvSet = s3
    Faults = {"api", "reply", "postgres", "redis", "ttl", "crash"}
SPECIFICATION Spec
SYMMETRY MCSymmetry
INVARIANTS TypeOK CoherentUnlessDisturbed NoMoreSetsThanProvisions
PROPERTIES AnswersTheRow ProvisionKeepsTheChoice
CHECK_DEADLOCK FALSE
