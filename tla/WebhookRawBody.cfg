\* Every request that may arrive, one at a time.
SPECIFICATION Spec
INVARIANT GenuineIsTaken
CHECK_DEADLOCK FALSE
