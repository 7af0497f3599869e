SPECIFICATION FairSpec
CONSTANTS
  NumChunks = 8
  NumConns = 2
  Window = 2
  SplitReads = TRUE
  Hole = Hole
  Nul = Nul
  Part = Part
INVARIANTS TypeOK ChunksInPlace NeverHundred BoundedOvertaking
PROPERTY ThreadsEnd
CHECK_DEADLOCK FALSE
