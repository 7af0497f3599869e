SPECIFICATION FairSpec
CONSTANTS
  Lines <- MCLines
  Programs <- MCPrograms
  Space = " "
  NumFds = 12
  PipeCap = 2
  MaxLines = 2
  MaxNest = 1
INVARIANTS TypeOK ShowsResult OverfullNeedsInterrupt CopyGoesOn LeaksPerLine
PROPERTIES KeepsTerminal LineEnds
CHECK_DEADLOCK FALSE
