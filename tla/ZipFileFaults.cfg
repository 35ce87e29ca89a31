CONSTANTS
  NoFile = NoFile
  Entry <- MCEntry
  Sized <- MCSized
  Streamed = {"rom1"}
  Faults <- AllFaults
  ReopenModified = TRUE
  MaxRuns = 1
SPECIFICATION Spec
INVARIANT TypeOK
INVARIANT Recoverable
INVARIANT NothingHalfSaved
INVARIANT CleanIsOnDisk
PROPERTY FilesReplacedWhole
CHECK_DEADLOCK FALSE
