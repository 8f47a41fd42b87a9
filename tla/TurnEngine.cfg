SPECIFICATION FairSpec
CONSTANTS
  None = None
  b1 = b1
  b2 = b2
  r1 = r1
  Bots = {b1, b2}
  Rooms = {r1}
  MaxTurns = 2
  MaxQueue = 1
  MaxAsks = 1
  ConnectedApps = FALSE
  Steering = {b2}
  Stalls = {"dies"}
  LateRejects = FALSE
INVARIANTS
  Owned
PROPERTIES
  HeldMessagesRun
  RoomGoesOn
