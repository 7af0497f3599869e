SPECIFICATION Spec
CONSTANTS
  Handlers = {h1, h2}
  Names = {alice, bob}
  Passwords = {pw}
  NoText = NoText
  MaxUsers = 2
INVARIANTS UniqueUsernames
CHECK_DEADLOCK FALSE
