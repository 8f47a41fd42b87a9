SPECIFICATION Spec
CONSTANTS
  None = None
  t1 = t1
  t2 = t2
  c1 = c1
  Threads = {t1, t2}
  Erring = {t1, t2}
  Calls = {c1}
INVARIANTS
  HandsOff
  StopsNothingInUse
  MarkFollowsTheTurn
CONSTRAINT
  SomethingToSay
