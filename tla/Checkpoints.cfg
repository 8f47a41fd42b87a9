SPECIFICATION Spec
CONSTANTS
  Absent = Absent
  a = a
  b = b
  Paths = {a, b}
  c1 = c1
  c2 = c2
  Contents = {c1, c2}
  MaxCommits = 3
SYMMETRY Swaps
INVARIANTS
  RestoreIsExact
  NoTurnMidRestore
PROPERTIES
  NothingUnsaved
  TurnCanBeUndone
