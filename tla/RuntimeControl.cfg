SPECIFICATION Spec
CONSTANTS
  Calls = {c1, c2}
  Updates = {u1}
  None = None
  ReconcileWhileRunning = FALSE
  MaxRevision = 7
INVARIANTS
  ActedAtMostOnce
  AcknowledgedNeverLost
  DeliveredIsDurable
PROPERTIES
  NoRetroactiveAdmission
  PromiseKept
