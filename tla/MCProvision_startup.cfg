CONSTANTS
  Agent = {a1, a2}
  Mortal = {a1}
  Id = {"FBUF", "KEYB"}
  Inputs = {"KEYB"}
  Needs <- MCNeeds
  Port = {p1, p2}
  MainPort = main
  Stopped = zero
  None = None
  a1 = a1
  a2 = a2
SPECIFICATION FairSpec
INVARIANTS
  TypeOK
  PortsLive
  MainSurvives
PROPERTIES
  StartedServed
  StartupEnds
