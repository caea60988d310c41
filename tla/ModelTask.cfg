SPECIFICATION Spec
CONSTANTS
  Invocations = {i1, i2}
  Externals = {e1}
  maxCalls = 3
  maxTokens = 5
  bound = 2
  MaxAttempts = 2
SYMMETRY Interchangeable
INVARIANTS
  ChargesCoverUse
  WithinBudget
  ReservationsAreReturned
PROPERTIES
  NothingAfterStop
CHECK_DEADLOCK FALSE
