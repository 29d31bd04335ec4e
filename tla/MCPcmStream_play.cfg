CONSTANTS
  c1 = c1
  c2 = c2
  None = None
  Client = {c1, c2}
  Habits = {}
  Period = 1
  MaxFrames = 2
  MaxSent = 2
SPECIFICATION FairSpec
CHECK_DEADLOCK FALSE
INVARIANTS
  Accounting
  InOrder
  NothingLost
  DelayCovers
PROPERTIES
  QueryReturns
  MusicPlays
