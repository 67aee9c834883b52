SPECIFICATION FairSpec
CONSTANTS
    alice = alice  bob = bob  eve = eve  s1 = s1  p1 = p1  h1 = h1  h2 = h2
    Manager = Manager
    Users = {alice, bob}
    Salts = {s1}
    Preimages = {p1}
    Sha256 <- MCSha256
    Digests <- DisputeDigests
    Fundings <- MCFundings
    InitialTokens <- MCTokens
    ChallengePeriod = 1
    MaxChallengePeriod = 3
    FullScaleDeposit = 3
    EmergencyDelay = 2
    MaxTime = 5
INVARIANTS TypeOK Conservation Solvency EveryHtlcResolvable
PROPERTIES ImplementsEscrow EventuallyPaid
CHECK_DEADLOCK FALSE
