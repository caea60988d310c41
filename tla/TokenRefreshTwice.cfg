SPECIFICATION Spec
CONSTANTS
  Callers = {c1, c2}
  Accounts = {a1, a2}
  Unnamed = Unnamed
  Default = a1
  Asked = {a1}
  Authorized = {a1, a2}
  Renamings = {r1}
  Flows = {f1, f2}
  None = None
  MaxIssued = 2
  Rotates = {TRUE}
SYMMETRY Interchangeable
INVARIANTS
  OneRefresh
