SPECIFICATION ClockSpec
CONSTANTS
  NoEntry = NoEntry
  q1 = q1
  q2 = q2
  Requests = {q1, q2}
  Budget = 3
  StallAfter = 2
  MaxTime = 8
INVARIANTS
  ClocksFollowTheTurn
  WaitingIsFree
PROPERTIES
  EndsAtCeiling
CHECK_DEADLOCK FALSE
