CONSTANTS
  a = a
  b = b
  c1 = c1
  c2 = c2
  None = None
  Client = {c1}
  Key = {a, b}
  Typed = {a, b}
  Texts <- NoTexts
  ReadItems = 2
  PasteLimit = 1
  PasteTries = 1
  TypeAhead = 4
  Garbage <- OneKey
SPECIFICATION Spec
CHECK_DEADLOCK FALSE
INVARIANTS
  NoneStuck
