\* Nothing fails: only the interleaving of a revoke with another operation.
CONSTANTS
    o1 = o1  o2 = o2  o3 = o3  s1 = s1  s2 = s2
    Ops = {o1, o2}
    MaxIssued = 3
    Values <- MCValues
    None = 0
    OAuthStates = {s1, s2}
    Faults = {"ttl"}
SPECIFICATION Spec
SYMMETRY MCSymmetry
INVARIANT RevokedMeansGone
CHECK_DEADLOCK FALSE
