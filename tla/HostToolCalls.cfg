SPECIFICATION FairSpec
CONSTANTS
  Calls = {c1, c2}
  LastRun = 2
  MaxJobs = 4
INVARIANTS
  Serialized
  FailureStopsRun
  ActsOnce
  AnswerOfItsRun
PROPERTIES
  CloseDrains
CHECK_DEADLOCK FALSE
