SPECIFICATION FairSpec
CONSTANTS
  Calls = {c1, c2}
  failureThreshold = 2
  successThreshold = 2
  resetTimeout = 2
  windowMs = 2
  maxFailures = 2
INVARIANTS
  ClosedIsBelowThreshold
  NotStartedIsFinal
  LateOnce
PROPERTIES
  Recovers
