SPECIFICATION FairSpec
CONSTANTS
  MaxRuns = 2
  MaxTyped = 1
  MaxOutput = 1
  MaxAside = 1
  TranscriptLimit = 4
  Status = {127}
  NoStatus = NoStatus
INVARIANTS StatusIsOwn OutputIsOwn OutputIsWhole
PROPERTIES RunEnds
CHECK_DEADLOCK FALSE
