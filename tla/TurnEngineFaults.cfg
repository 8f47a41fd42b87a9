SPECIFICATION Spec
CONSTANTS
  None = None
  b1 = b1
  r1 = r1
  Bots = {b1}
  Rooms = {r1}
  MaxTurns = 2
  MaxQueue = 1
  MaxAsks = 2
  ConnectedApps = TRUE
  Steering = {}
  Stalls = {"dies", "answers"}
  LateRejects = TRUE
INVARIANTS
  NothingStranded
