SPECIFICATION FairSelectSpec
CONSTANTS
  NumChunks = 10
  NumConns = 3
  Window = 2
  SplitReads = TRUE
  Hole = Hole
  Nul = Nul
  Part = Part
INVARIANTS MissingIsUnread LostIfOvertaken CountIsWritten
PROPERTY SelectEnds
CHECK_DEADLOCK FALSE
