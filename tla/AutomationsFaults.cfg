SPECIFICATION Spec
CONSTANTS
  None = None
  b1 = b1
  daily = daily
  single = single
  hook = hook
  d1 = d1
  d2 = d2
  Bots = {b1}
  Routines = {single}
  Hooks = {hook}
  Deliveries = {d1, d2}
  BotOf <- SingleAndHook
  Once = {single}
  MaxPending = 1
  MaxRuns = 3
  MaxRestarts = 1
  MaxChats = 1
  SilentEnds = TRUE
  TornSaves = TRUE
PROPERTIES ReceiptsAreFinal NothingRunsForTheGone
CHECK_DEADLOCK FALSE
