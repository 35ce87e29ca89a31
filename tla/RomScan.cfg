CONSTANTS
  Name <- MCName
  Data <- MCData
  Fold <- MCFold
  Good <- MCGood
  NoDump = {"y"}
  Text = {"txt"}
  Garbage = {"jnk"}
  Start <- MCStartAll
  MaxRuns = 1
SPECIFICATION Spec
INVARIANT TypeOK
INVARIANT FilesKept
INVARIANT ReportTrue
INVARIANT KeepsContract
INVARIANT Settled
CHECK_DEADLOCK FALSE
