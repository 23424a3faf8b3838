SPECIFICATION Spec
CONSTANTS
  Archives <- MCArchives
  codec <- MCCodec
  narSize <- MCNarSize
  Pieces = 2
  MaxPart = 2
  Tree <- MCTree
  Names <- MCNames
  MaxTries = 2
  MaxLinks = 5
INVARIANTS
  OwnVerdict
  BuffersFit
  ShareIsArchive
PROPERTY QueueDrains
CHECK_DEADLOCK FALSE
