SPECIFICATION Spec
CONSTANTS
  NumLegs = 4
  MaxRollbackAttempts = 3
CHECK_DEADLOCK FALSE
INVARIANTS
  CountsAreTheBook
  ResultIsTrue
  PartialFailureIsBounded
PROPERTY
  SagaOrder
