SPECIFICATION CloseSpec
CONSTANTS
    PartyA = A
    PartyB = B
    NoBroadcaster = None
    Capacity = 4
    Delays <- MCDelays
    MinDelay = 2
    Commitments <- MCCommitments
    CoopSplits <- MCCoopSplits
    Released = {"r"}
    MaxCloseTime = 2
    MaxTime = 5
    FixedHash <- MCFixedHash
INVARIANT CloseAccepted
CHECK_DEADLOCK FALSE
