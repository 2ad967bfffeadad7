SPECIFICATION Spec
CONSTANTS
  Ids <- MCIds
  NodeBits = 3
  IntBits = 6
  MsgIds = {m1, m2}
  MaxKept = 1
  MaxAdds = 2
  MaxStarts = 3
  MaxFails = 1
  None = None
INVARIANTS PendingIsFresh CleanMeansSaved
PROPERTIES CleanRestartKeepsChats SavesAreWhole
CHECK_DEADLOCK FALSE
