SPECIFICATION Spec
CONSTANTS
  None = None
  Messages = {m1, m2, m3}
  Processes = {p1, p2, p3}
  MaxAttempts = 2
  MaxAsks = 1
  Flaky = {"fresh"}
  Overlaps = FALSE
INVARIANTS SettledOnce StopFindsTheTurn NoZombieCard SocketIsCurrent
PROPERTIES StopEnds
CHECK_DEADLOCK FALSE
