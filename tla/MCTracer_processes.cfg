CONSTANTS
  Pid = {p1, p2, p3}
  Root = p1
  Fd = {f1, f2}
  Path = {dev}
  SpyPath = {}
  Obj = {o1}
  Addr = {a1}
  Val = {v0}
  InitVal = v0
  Ops = {"open", "dup", "thread"}
  Disciplined = FALSE
  None = None
  p1 = p1
  p2 = p2
  p3 = p3
  f1 = f1
  f2 = f2
  o1 = o1
  o2 = o2
  dev = dev
  v0 = v0
  a1 = a1
SPECIFICATION FairSpec
CHECK_DEADLOCK FALSE
INVARIANTS
  Aligned
  Accounting
PROPERTIES
  SpinReturns
