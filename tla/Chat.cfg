SPECIFICATION Spec
CONSTANTS
  i1 = i1
  i2 = i2
  r1 = r1
  Requests = {r1, r2, r3}
  Instances = {i1, i2}
  InstanceOf <- TwoInstances
  MaxRounds = 1
  Window = 4
  Shapes <- Card
  Endpoints <- NoEndpoints
  MaxNewChats = 1
  NoCall = NoCall
SYMMETRY Interchangeable
INVARIANTS
  TypeOK
  OneConversation
  AnsweredOnce
  ContextComplete
  SavedBeforeReply
PROPERTIES
  NothingAfterClose
