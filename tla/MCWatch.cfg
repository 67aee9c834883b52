SPECIFICATION FairSpec
CONSTANTS
  None = None
  MaxReorg = 2
  ReorgDepth = 2
  WindowSize = 2
  FromBlock = 1
  ChallengePeriod = 3
  MaxTip = 7
  MaxNonce = 2
  MaxFaults = 2
CHECK_DEADLOCK FALSE
INVARIANTS SentMeansStored NoMissedClose NoWastedPenalize
PROPERTIES BackupCaughtUp EveryCloseScanned
