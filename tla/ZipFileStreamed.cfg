CONSTANTS
  NoFile = NoFile
  Entry <- MCEntry
  Sized <- MCSized
  Streamed = {"rom1"}
  Faults = {}
  ReopenModified = FALSE
  MaxRuns = 0
SPECIFICATION Spec
INVARIANT NoFalseDamage
CHECK_DEADLOCK FALSE
