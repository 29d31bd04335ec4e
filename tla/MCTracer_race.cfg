CONSTANTS
  Pid = {p1, p2}
  Root = p1
  Fd = {f1}
  Path = {dev, txt}
  SpyPath = {dev}
  Obj = {o1, o2, o3, o4}
  Addr = {a1}
  Val = {v0, v1}
  InitVal = v0
  Ops = {"open", "fork"}
  Disciplined = FALSE
  None = None
  p1 = p1
  p2 = p2
  f1 = f1
  o1 = o1
  o2 = o2
  o3 = o3
  o4 = o4
  dev = dev
  txt = txt
  v0 = v0
  v1 = v1
  a1 = a1
SPECIFICATION Spec
SYMMETRY Symmetric
CHECK_DEADLOCK FALSE
INVARIANTS
  ForkInherits
