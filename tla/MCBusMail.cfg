SPECIFICATION Spec
CONSTANTS
  NumConns = 2
  FdLimit = 2
  Identity <- BusIdentity
  Dest = {5}
  Foreign = {6}
  QueueCap = 2
  NetCap = 1
  MaxMsgs = 3
  MaxAsks <- MailAsks
  Senders = {1}
  Leavers = {2}
  ReplyWords = 2
INVARIANTS TypeOK AnswerPerRequest KilledByDeparture
PROPERTY MailIsKept
CHECK_DEADLOCK FALSE
