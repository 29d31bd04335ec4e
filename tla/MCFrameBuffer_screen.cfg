CONSTANTS
  c1 = c1
  c2 = c2
  i1 = i1
  i2 = i2
  None = None
  Junk = Junk
  Torn = Torn
  Blank = Blank
  Client = {c1, c2}
  Overlap = FALSE
  Pair = {i1}
  Room = 1
  MaxMaps = 2
  MaxDraws = 1
SPECIFICATION FairSpec
CHECK_DEADLOCK FALSE
INVARIANTS
  TypeOK
  InSync
  FramesFit
  BufferHeld
PROPERTIES
  MmapReturns
  WindowCatchesUp
