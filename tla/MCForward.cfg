SPECIFICATION FairSpec
CONSTANTS
    k1 = k1  k2 = k2  none = none
    InKeys = {k1, k2}
    MaxHtlcs = 2
    MaxFlaps = 2
    MaxRestarts = 1
INVARIANT ResponseRoutable
PROPERTIES ImplementsRelay FailsSafely KeystonesFresh SettlePropagates CircuitsCollected
CHECK_DEADLOCK FALSE
