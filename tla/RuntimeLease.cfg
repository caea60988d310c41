SPECIFICATION Spec
CONSTANTS
  a = a
  b = b
  c = c
  p = p
  q = q
  Claimants = {a, b, c}
  Processes = {p, q}
  ProcessOf <- MCProcessOf
  Releasers = {r}
  Drained = TRUE
  Nobody = Nobody
  Unwritten = Unwritten
  MaxRevision = 2
INVARIANTS
  ExclusiveWriter
PROPERTIES
  ConflictsNeverOverwrite
CHECK_DEADLOCK FALSE
