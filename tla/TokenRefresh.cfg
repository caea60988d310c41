SPECIFICATION Spec
CONSTANTS
  Callers = {c1, c2}
  Accounts = {a1, a2}
  Unnamed = Unnamed
  Default = a1
  Asked = {a1}
  Authorized = {a1, Unnamed}
  Renamings = {r1}
  Flows = {f1, f2}
  None = None
  MaxIssued = 2
  Rotates = {TRUE, FALSE}
SYMMETRY Interchangeable
INVARIANTS
  RefusedOnlyWithoutToken
  VerifierOfItsFlow
  RenamingKeepsToken
  WaitsForARefresh
