SPECIFICATION RfqSpec
CONSTANTS
  q1 = q1
  q2 = q2
  q3 = q3
  Quotes = {q1, q2, q3}
  Foreign = {q3}
  NoQuote = NoQuote
  MaxVersion = 7
CHECK_DEADLOCK FALSE
INVARIANTS
  BatchIsTheLoop
PROPERTIES
  SelectionIsFinal
  VersionCoversChange
  KeepsContract
