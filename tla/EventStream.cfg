SPECIFICATION StreamSpec
CONSTANTS
  None = None
  Bots = {b1}
  REPLAY_MAX = 2
  MaxWrites = 3
  MaxFrames = 4
  MaxDrops = 2
  MaxEdits = 1
  Gaps = FALSE
  LoadsFail = FALSE
  LateResponses = FALSE
INVARIANTS InSync
CHECK_DEADLOCK FALSE
PROPERTIES EndsInSync
