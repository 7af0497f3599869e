SPECIFICATION FairSpec
CONSTANTS
  NumMessages = 6
  Message = 2
  UpCap = 3
  DownCap = 2
  Kinds = {"two", "blocking", "nonblocking"}
  Marks = {1, 2}
INVARIANT AllComesBack
PROPERTY EchoEnds
CHECK_DEADLOCK FALSE
