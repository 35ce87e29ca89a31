CONSTANTS
  Name <- MCName
  Required <- MCRequired
  RomDir = {"rom"}
  NewDir = "rom"
  UnknownDir = "unknown"
  Data <- MCData
  Roms <- MCRoms
  Import = {"dh"}
  Start <- MCStart
  MaxRuns = 1
SPECIFICATION Spec
INVARIANT TypeOK
INVARIANT NothingLost
INVARIANT IndexComplete
INVARIANT HeldIsDisk
INVARIANT Completed
CHECK_DEADLOCK FALSE
