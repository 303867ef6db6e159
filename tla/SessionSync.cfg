SPECIFICATION FairSpec
CONSTANTS
  a = a
  Session <- OneSession
  Rejected = Rejected
  Lookback = 1
  Limit = 2
  Horizon = 3
  MaxRows = 3
INVARIANTS
  WatermarkOK
  NothingSkipped
  ReadyMeansCaughtUp
PROPERTIES
  EventuallyRecorded
