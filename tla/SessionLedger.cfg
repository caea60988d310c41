SPECIFICATION Spec
CONSTANTS
  Requests = {r1, r2}
  None = None
  MaxRevision = 9
INVARIANTS
  SubmittedOnce
  OneNativeInput
PROPERTIES
  ToldStaysStored
