SPECIFICATION LoopSpec
CONSTANTS
  Calls = {c1, c2}
  failureThreshold = 1
  successThreshold = 0
  resetTimeout = 0
  windowMs = 0
  maxFailures = 1
  Writes = {w}
  Reads = {}
  Earlier = {e}
  maxIterations = 2
  maxRecoveryAttempts = 1
  maxConsecutiveToolFailures = 1
INVARIANTS
  StartsAreAccountedFor
  CompletedIsCertain
PROPERTIES
  LoopEnds
CHECK_DEADLOCK FALSE
