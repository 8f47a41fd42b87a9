SPECIFICATION FairSpec
CONSTANTS
  None = None
  b1 = b1
  daily = daily
  single = single
  hook = hook
  d1 = d1
  Bots = {b1}
  Routines = {daily}
  Hooks = {hook}
  Deliveries = {d1}
  BotOf <- DailyAndHook
  Once = {}
  MaxPending = 2
  MaxRuns = 3
  MaxRestarts = 1
  MaxChats = 1
  SilentEnds = FALSE
  TornSaves = FALSE
INVARIANTS RunHasItsTurn OneRunPerDelivery
PROPERTIES RunsEnd
CHECK_DEADLOCK FALSE
