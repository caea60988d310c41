SPECIFICATION HubFairSpec
CONSTANTS
  Subscribers = {s1}
  MaxJournal = 3
  MaxQueue = 2
  MaxSequence = 8
  MaxPublished = 6
INVARIANTS
  NoSilentLoss
  InOrder
PROPERTIES
  EndIsSeen
CHECK_DEADLOCK FALSE
