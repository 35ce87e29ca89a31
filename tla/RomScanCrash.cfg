CONSTANTS
  Name <- MCName
  Data <- MCData
  Fold <- MCFold
  Good <- MCGood
  NoDump = {"y"}
  Text = {"txt"}
  Garbage = {"jnk"}
  Start <- MCStart
  MaxRuns = 0
SPECIFICATION Spec
INVARIANT SavedAtAnyTime
CHECK_DEADLOCK FALSE
