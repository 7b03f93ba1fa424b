SPECIFICATION FairSpec
CONSTANTS
  Orders = {o1}
  Quotes = {q1}
  Capacity = 1
  MaxReports = 2
INVARIANTS
  EntriesAreCallers
  AnswersHold
PROPERTY
  CallsEnd
