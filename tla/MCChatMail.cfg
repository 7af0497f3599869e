SPECIFICATION Spec
CONSTANTS
  a = a
  b = b
  c = c
  NumUsers = 3
  Sessions = {a, b, c}
  Owner <- MailOwner
  May <- MailMay
  QueueCap = 2
  MaxMail = 2
  Unknown = 0
  Mortal = {b}
  MainFails = FALSE
INVARIANTS InboxOrder BlockTakesEffect
PROPERTY MailIsKept
CHECK_DEADLOCK FALSE
