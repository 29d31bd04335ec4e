CONSTANTS
  Client = {c1}
  None = None
  c1 = c1
  c2 = c2
  Place <- TwoPlaces
  Start = 640
  Jump = 300
  Delta <- NoTurns
  Captures = 2
  QueueBound = 2
  Events = 6
  Garbage <- OneAnswer
SPECIFICATION Spec
CHECK_DEADLOCK FALSE
INVARIANTS
  ReleaseLetsGo
