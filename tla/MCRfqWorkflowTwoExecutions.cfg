SPECIFICATION HistorySpec
CONSTANTS
  Tasks = {t1, t2, t3, t4}
  Quotes = {q1}
  Foreign = {}
  q1 = q1
  q2 = q2
  NoQuote = NoQuote
  VersionChecked = TRUE
  MinQuotes = 0
  MaxInFlight = 2
CHECK_DEADLOCK FALSE
INVARIANT
  SingleActiveExecution
