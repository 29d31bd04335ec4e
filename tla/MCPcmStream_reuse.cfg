CONSTANTS
  c1 = c1
  c2 = c2
  None = None
  Client = {c1}
  Habits = {"reuse"}
  Period = 2
  MaxFrames = 3
  MaxSent = 2
SPECIFICATION Spec
CHECK_DEADLOCK FALSE
INVARIANTS
  NothingLost
