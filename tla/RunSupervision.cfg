SPECIFICATION FairSpec
CONSTANTS
  plain = plain
  defined = defined
  managed = managed
  w = w
  None = None
  Sessions = {plain, defined, managed}
  Workspaces = {w}
  WorkspaceOf <- MCWorkspaceOf
  Plain = {plain}
  Independent = {managed}
  MaxRuns = 2
INVARIANTS
  NoOverlap
  ReadyIsQuiet
  LeasesAreNotLeaked
PROPERTIES
  AbortSettles
CHECK_DEADLOCK FALSE
