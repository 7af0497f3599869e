SPECIFICATION Spec
CONSTANTS
  a = a
  b = b
  c = c
  NumUsers = 2
  Sessions = {a, b}
  Owner <- TalkOwner
  May <- TalkMay
  QueueCap = 1
  MaxMail = 2
  Unknown = 0
  Mortal = {}
  MainFails = TRUE
INVARIANTS TypeOK OnlineHasSession ServedShowsOnline
CHECK_DEADLOCK FALSE
