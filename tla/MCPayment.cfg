SPECIFICATION FairSpec
CONSTANTS
  None = None
  Value = 2
  MaxAttempts = 2
  MaxFaults = 1
CHECK_DEADLOCK FALSE
INVARIANTS NoDoublePay FailedIsUnpaid OutcomesAgree WholeSetSettled ResolutionsAgree
PROPERTIES PaymentEnds HtlcReleased
