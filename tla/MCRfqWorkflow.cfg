SPECIFICATION HistorySpec
CONSTANTS
  Tasks = {t1, t2, t3, t4}
  Quotes = {q1, q2}
  Foreign = {}
  q1 = q1
  q2 = q2
  NoQuote = NoQuote
  VersionChecked = TRUE
  MinQuotes = 0
  MaxInFlight = 3
SYMMETRY TaskSymmetry
CHECK_DEADLOCK FALSE
INVARIANTS
  ExecutedIsBacked
  TradesAreFilled
  NoHalfDoneRow
  AnnouncedIsDurable
PROPERTIES
  RetriesEndWithTheRow
  RowKeepsContract
