CONSTANTS
  Fd = {f1, f2}
  Data = {d1, d2}
  Kinds <- MCKinds
  Slots = 2
  MaxStores = 1
  None = None
  f1 = f1
  f2 = f2
  d1 = d1
  d2 = d2
SPECIFICATION FairSpec
INVARIANTS
  TypeOK
  EventsRight
  BehindKept
PROPERTIES
  DeviceHeard
  PlainHeard
