SPECIFICATION FairSpec
CONSTANTS
  src = src
  dst = dst
  first = first
  second = second
  None = None
  Bots = {src, dst}
  Items = {first, second}
  From <- Sender
  To <- Target
  MaxQueued = 2
  MaxRestarts = 1
  MaxTurns = 2
  Approvals = TRUE
  LateCalls = TRUE
  Silent = {dst}
INVARIANTS
  CardAndPromiseAgree
  NothingLost
  WatchFollowsTheTurn
PROPERTIES
  NoTurnTakenOver
  NoStartWithoutConsent
  QueueMoves
  RefinesHandoff
CHECK_DEADLOCK FALSE
