CONSTANTS
  Dir <- MCDirs
  DirFold <- MCDirFold
  Children <- MCChildren
  NoPath = NoPath
  RunStart <- MCRunStart
  XmlFiles <- MCXml
  InfoFiles <- MCInfo
  HexOf <- MCHex
  RWord = 16
  DepthMax = 5
  Game <- MCGame
  Part <- MCPart
  Start <- MCStart
SPECIFICATION InformationSpec
INVARIANT PrintOnly
CHECK_DEADLOCK FALSE
