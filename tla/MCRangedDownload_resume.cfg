CONSTANTS
  Size = 5
  Slices <- MCSlices
  MaxAttempts = 2
  MaxResumes = 2
  MinProgress = 1
  Chunk = 1
  MinChunk = 1
  MaxCalls = 2
  Missing = Missing
  Workers = 2
  MinPart = 1
SPECIFICATION RangedSpec
INVARIANTS SavedIsWhole PartialIsPrefix PartsWriteAlone
PROPERTIES CallReturns
CHECK_DEADLOCK FALSE
