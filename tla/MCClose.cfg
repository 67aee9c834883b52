CONSTANTS
    alice = alice
    bob = bob
    p1 = p1
    p2 = p2
    none = none
    contract = contract
    salt = salt
    Nodes <- MCNodes
    Initiator = alice
    Payloads = {p1, p2}
    Known = {p1}
    Sha256 <- HashOf
    BatchSize = 1
    MaxUpdates = 3
    MaxDrops = 0
    PushAmount = 1
    Capacity = 3
    Cltv = 3
    Genesis = 0
    BlockTime = 1
    TimelockModulus = 65536
    BlockIntervals = {1}
    ChallengePeriod = 1
    EmergencyDelay = 100
    CloseBy = 0
    MaxHeight = 3
SPECIFICATION Synced
INVARIANTS
    SameArtifact
    BreachEvidenceAccepted
    NothingPendingMeansResolved
PROPERTY
    CloseFinalized
CHECK_DEADLOCK FALSE
