SPECIFICATION FairSpec
CONSTANTS
  Holders = {c1, c2, c3}
  NoHolder = NoHolder
  Quotes = {q1}
  NoQuote = NoQuote
  LockTtl = 2
  TotalTimeout = 1
INVARIANTS
  OverlapOnlyAfterTtl
PROPERTIES
  ExecutionStartsLocked
  OnlyHolderReleases
  LocksEnd
