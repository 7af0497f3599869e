SPECIFICATION FairSpec
CONSTANTS
  NumConns = 3
  FdLimit = 2
  Identity <- BusIdentity
  Dest = {5}
  Foreign = {6}
  QueueCap = 1
  NetCap = 1
  MaxMsgs = 2
  MaxAsks <- ReturnAsks
  Senders = {1}
  Leavers = {2}
  ReplyWords = 2

PROPERTY RequestReturns
CHECK_DEADLOCK FALSE
