SPECIFICATION ReportingSpec
CONSTANTS
  Trades = {b1, b2}
  Workers = {w1, w2}
  MaxAnnounced = 2
SYMMETRY Symmetry
CHECK_DEADLOCK FALSE
INVARIANTS
  SettledIsAgreed
  ExecutedIsComplete
  PositionsFollowChain
  ReturnFreesCollateral
  AnnouncedIsDone
  AnnouncedOnce
PROPERTY
  HeldThroughSettlement
