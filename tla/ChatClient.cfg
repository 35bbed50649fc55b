SPECIFICATION Spec
CONSTANTS
  c1 = c1
  c2 = c2
  Cards = {c1, c2}
  NoCard = NoCard
  MaxStreams = 3
  MaxResets = 2
INVARIANTS
  CardsTellTheTruth
PROPERTIES
  LoadingEnds
CHECK_DEADLOCK FALSE
