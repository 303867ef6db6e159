SPECIFICATION RuntimeSpec
CONSTANTS
  t1 = t1  t2 = t2
  Queues <- BothQueues
  Task = {t1, t2}
  ChangeBudget = 4
  m1 = m1
  c1 = c1  c2 = c2  c3 = c3
  Message <- OneMessage
  Signal = {"rum"}
  SignalOf <- OneSignal
  Copy = {c1, c2, c3}
  NoMessage = NoMessage
  MaxAttempts = 2
  DeliveryLimit = 1
  RetryLevels = 1
  QueueMax = 1
  DlqMax = 1
  CrashBudget = 1
  Prefetch = 1
  Poison = {}
INVARIANTS
  ConsumersOK
  PromptControlHolds
PROPERTIES
  DocumentTakesEffect
  EventuallySettled
  QueuesDrain
