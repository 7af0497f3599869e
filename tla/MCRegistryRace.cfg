SPECIFICATION Spec
CONSTANTS
  Handlers = {h1, h2, h3}
  Names = {alice, bob, carol}
  Passwords = {pw}
  NoText = NoText
  MaxUsers = 2
SYMMETRY Symmetry
INVARIANTS TypeOK IsolatedRegistrationResolves IsolatedIdsDistinct NoBroadcastId
CHECK_DEADLOCK FALSE
