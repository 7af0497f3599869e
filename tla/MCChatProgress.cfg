SPECIFICATION FairSpec
CONSTANTS
  a = a
  b = b
  c = c
  NumUsers = 2
  Sessions = {a, b}
  Owner <- TalkOwner
  May <- ReadMay
  QueueCap = 4
  MaxMail = 2
  Unknown = 0
  Mortal = {a}
  MainFails = FALSE
PROPERTIES AttendedMailSettles BroadcastIsSpread RequestIsServed
CHECK_DEADLOCK FALSE
