SPECIFICATION Spec
CONSTANTS
  a = a
  b = b
  k1 = k1
  k2 = k2
  Identity <- Identities
  NoIdentity = NoIdentity
  Closer <- Closers
  MaxRuntimes = 3
SYMMETRY InterchangeableNames
CHECK_DEADLOCK FALSE
INVARIANTS
  LifecycleOK
  AwaitedEmitsOnlyWithConsent
  NoLimbo
