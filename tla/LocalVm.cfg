SPECIFICATION Spec
CONSTANTS
  None = None
  Shared = shared
  b1 = b1
  b2 = b2
  t1 = t1
  t2 = t2
  Bots <- MCBots
  Threads <- MCThreads
  BotOf <- MCBotOf
  MaxInstances = 1
  Patient <- MCPatient
  Stalling = {t1}
  Unreadable = {b1}
  Deletable = {b2}
INVARIANTS HeldIsUndisturbed WorkerHolds WithinLimit BackstopArmed
CONSTRAINTS OneAmiss TwoRequests
CHECK_DEADLOCK FALSE
