\* Hours: CHECK_INTERVAL_MS, EXPIRY_BUFFER_MS; up to a day of excuses.
CONSTANTS
    Faults = {"api", "crash"}
    Interval = 23
    Buffer = 1
    Lifetimes = {2, 24}
    MaxExcused = 25
SPECIFICATION Spec
INVARIANTS TypeOK OutageBounded
CHECK_DEADLOCK FALSE
