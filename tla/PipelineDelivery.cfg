SPECIFICATION FairSpec
CONSTANTS
  m1 = m1  m2 = m2
  c1 = c1  c2 = c2  c3 = c3
  Message <- OneMessage
  Signal = {"rum"}
  SignalOf <- OneSignal
  Copy <- TwoCopies
  NoMessage = NoMessage
  MaxAttempts = 3
  DeliveryLimit = 1
  RetryLevels = 2
  QueueMax = 2
  DlqMax = 1
  CrashBudget = 2
  Prefetch = 2
  Poison = {}
CHECK_DEADLOCK FALSE
INVARIANT LimitMeansAttempts
PROPERTIES ImplementsDurableDelivery EveryRequestAnswered
