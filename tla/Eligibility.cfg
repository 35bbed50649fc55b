SPECIFICATION Spec
CONSTANTS
  Options <- Few
  Bookmarks = {"net-income"}
  Days <- TwoDays
  BadDate = BadDate
  TooBig = TooBig
  Empty = Empty
  NoDraft = NoDraft
  MaxChildren = 2
INVARIANTS
  TypeOK
  BarKeepsRoom
  DraftIsAnswer
  LeftoversDoNotCount
  OneGrundsicherung
  NoGapByIncome
PROPERTIES
  EditingKeepsTheBar
CHECK_DEADLOCK FALSE
