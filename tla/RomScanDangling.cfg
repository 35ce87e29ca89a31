CONSTANTS
  Name <- MCName
  Data <- MCData
  Fold <- MCFold
  Good <- MCGood
  NoDump = {"y"}
  Text = {"txt", "da"}
  Garbage = {"jnk"}
  Start <- MCStartDup
  MaxRuns = 0
SPECIFICATION Spec
INVARIANT EntryLives
CHECK_DEADLOCK FALSE
