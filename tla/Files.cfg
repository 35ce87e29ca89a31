CONSTANTS
  Name <- MCName
  Data <- MCData
  Fold <- MCFold
  FileName <- MCFileName
  Sample = {"a", "b"}
  SampleText = {"txt"}
  SampleGarbage = {"jnk"}
  SampleStart <- MCSampleStart
  SampleRuns = 1
  DiskDir = {"d1", "d2"}
  DiskName = {"m", "k", "x"}
  Device <- MCDevice
  Hash = {"h1", "h2"}
  DiskGames <- MCDiskGames
  Wrap = 3
  DiskStart <- MCDiskStart
  DiskFaults <- AllDiskFaults
  DiskRuns = 1
  Content <- MCContent
  LoFixed = 3
  CoFixed = 4
  EoFixed = 2
  DoFixed = 3
  DoSignature = 1
  Word = 36
  ReadBuffer = 4
  ReadBuffers = 2
  DirStart <- MCDirStart
  MaxSaves = 2
  MaxEntries = 3
  NoData = NoData
SPECIFICATION FilesSpec
INVARIANT FilesTypeOK
INVARIANT SamplesKept
INVARIANT SamplesDone
INVARIANT DiskKept
INVARIANT DisksInPlace
INVARIANT SavedIsRead
INVARIANT LoadedSound
CHECK_DEADLOCK FALSE
