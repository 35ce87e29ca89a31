CONSTANTS
  RGame <- MCGames
  Word = 4
  ReportStart <- MCReportStart
  CGame <- MCGames
  RomName = {1, 2}
  Crc = {0, 1}
  CSize = {0, 1, 2}
  CompareStart <- MCCompareStart
  NoFile = NoFile
  Entry <- MCEntry
  Sized <- MCSized
  Streamed = {}
  Faults <- HandledFaults
  ReopenModified = FALSE
  MaxRuns = 2
SPECIFICATION ReportsSpec
INVARIANT ListsTrue
INVARIANT Dependencies
INVARIANT NothingLeftOut
INVARIANT NoFalseDamage
PROPERTY Reported
PROPERTY SavesAtomically
PROPERTY SignalDelivered
CHECK_DEADLOCK FALSE
