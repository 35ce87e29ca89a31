CONSTANTS
  Word <- MCWord
  Documents <- MCDocuments
  Pieces = {1, 2, 5}
  TextBound = 3
  SentenceBound = 12
SPECIFICATION XmlSpec
INVARIANT XmlTypeOK
INVARIANT ChunksDoNotMatter
INVARIANT EventsNested
INVARIANT DeclarationsKept
PROPERTY TokensStable
CHECK_DEADLOCK FALSE
