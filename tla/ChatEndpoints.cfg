SPECIFICATION Spec
CONSTANTS
  i1 = i1
  i2 = i2
  r1 = r1
  Requests = {r1, r2}
  Instances = {i1}
  InstanceOf <- OneInstance
  MaxRounds = 1
  Window = 5
  Shapes <- Card
  Endpoints = {"closed", "deleted"}
  MaxNewChats = 0
  NoCall = NoCall
PROPERTIES
  EndpointsKeepTheirWord
