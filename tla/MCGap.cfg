SPECIFICATION Spec
CONSTANTS
    k1 = k1  k2 = k2  none = none
    InKeys = {k1, k2}
    MaxHtlcs = 2
    MaxFlaps = 1
    MaxRestarts = 1
INVARIANT FailedMeansFailed
CHECK_DEADLOCK FALSE
