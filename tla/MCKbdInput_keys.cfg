CONSTANTS
  a = a
  b = b
  c1 = c1
  c2 = c2
  None = None
  Client = {c1, c2}
  Key = {a, b}
  Typed = {a}
  Texts <- OneText
  ReadItems = 2
  PasteLimit = 1
  PasteTries = 1
  TypeAhead = 2
  Garbage <- OneKey
SPECIFICATION FairSpec
CHECK_DEADLOCK FALSE
INVARIANTS
  TypeOK
  KeysAgree
PROPERTIES
  Forwarded
  ReadReturns
  PasteEnds
