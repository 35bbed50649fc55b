SPECIFICATION FairSpec
CONSTANTS
  i1 = i1
  i2 = i2
  r1 = r1
  Requests = {r1, r2}
  Instances = {i1, i2}
  InstanceOf <- TwoInstances
  MaxRounds = 2
  Window = 4
  Shapes <- ServerTool
  Endpoints = {"closed"}
  MaxNewChats = 1
  NoCall = NoCall
INVARIANTS
  ContextComplete
PROPERTIES
  StreamsEnd
