SPECIFICATION LimiterFairSpec
CONSTANTS
  Callers = {c1, c2, c3, c4}
  maxRequests = 1
  windowMs = 2
  maxWaitMs = 2
  maxQueueSize = 2
  Throwing = FALSE
  MaxTime = 6
INVARIANTS
  AtMostTwoBuckets
  NoIdleToken
PROPERTIES
  CallsAreAnswered
CHECK_DEADLOCK FALSE
