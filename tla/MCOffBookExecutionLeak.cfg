SPECIFICATION ReportingSpec
CONSTANTS
  Trades = {b1, b2}
  Workers = {}
  MaxAnnounced = 1
CHECK_DEADLOCK FALSE
INVARIANT
  FailureFreesCollateral
