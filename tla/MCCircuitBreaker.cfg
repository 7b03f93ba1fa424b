SPECIFICATION FairBreakerSpec
CONSTANTS
  Callers = {c1, c2, c3}
  FailureThreshold = 2
  SuccessThreshold = 2
  HalfOpenMaxRequests = 2
INVARIANT
  HalfOpenOvershoot
PROPERTY
  Recovers
