CONSTANTS
  Client = {c1, c2}
  None = None
  c1 = c1
  c2 = c2
  Place <- TwoPlaces
  Start = 640
  Jump = 300
  Delta <- OneTurn
  Captures = 1
  QueueBound = 2
  Events = 5
  Garbage <- OneAnswer
SPECIFICATION FairSpec
CHECK_DEADLOCK FALSE
INVARIANTS
  EventsDeclared
  IoctlsAnswered
PROPERTIES
  ClicksSpec
  CatchesUp
