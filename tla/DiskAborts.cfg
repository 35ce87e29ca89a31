CONSTANTS
  Name <- MCName
  Data <- MCData
  Fold <- MCFold
  FileName <- MCFileName
  Sample = {"a", "b"}
  SampleText = {"txt"}
  SampleGarbage = {"jnk"}
  SampleStart = {}
  SampleRuns = 1
  DiskDir = {"d1", "d2"}
  DiskName = {"m", "k", "x"}
  Device <- MCDevice
  Hash = {"h1", "h2"}
  DiskGames <- MCDiskGames
  Wrap = 3
  DiskStart <- MCDiskStart
  DiskFaults <- AllDiskFaults
  DiskRuns = 1
  Content <- MCContent
  LoFixed = 3
  CoFixed = 4
  EoFixed = 2
  DoFixed = 3
  DoSignature = 1
  Word = 36
  ReadBuffer = 4
  ReadBuffers = 2
  DirStart = {}
  MaxSaves = 2
  MaxEntries = 3
  NoData = NoData
SPECIFICATION FilesSpec
CHECK_DEADLOCK FALSE
INVARIANT DamagedRenamed
