SPECIFICATION Spec
CONSTANTS
  m1 = m1  m2 = m2
  c1 = c1  c2 = c2  c3 = c3
  Message <- TwoMessages
  Signal = {"rum"}
  SignalOf <- OneSignal
  Copy <- TwoCopies
  NoMessage = NoMessage
  MaxAttempts = 2
  DeliveryLimit = 1
  RetryLevels = 1
  QueueMax = 1
  DlqMax = 1
  CrashBudget = 1
  Prefetch = 1
  Poison = {m2}
SYMMETRY CopySymmetry
INVARIANTS TypeOK DurableNeverLost AcceptedIsDurable KillSwitchStopsAdmission
CHECK_DEADLOCK FALSE
