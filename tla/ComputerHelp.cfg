SPECIFICATION Spec
CONSTANTS
  b1 = b1
  c1 = c1
  c2 = c2
  c3 = c3
  Bots = {b1}
  Calls = {c1, c2, c3}
  MaxPleas = 3
INVARIANTS
  PleaHasWaiter
PROPERTIES
  HandBackResumes
  StaleExpiryHarmless
\* Every bot deleted and every call over is a legal end.
CHECK_DEADLOCK FALSE
