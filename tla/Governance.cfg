SPECIFICATION Spec
CONSTANTS
  a = a
  b = b
  i1 = i1
  i2 = i2
  i3 = i3
  service = service
  env = env
  rum = rum
  k1 = k1
  k2 = k2
  Own = Own
  NoMarker = NoMarker
  Absent = Absent
  Missing = Missing
  NoKey = NoKey
  Unstated = Unstated
  Order <- Starters
  Id <- Identifiers
  Batches <- ImportBatches
  EditBudget = 1
  RunBudget = 2
  Streams <- CanonicalStreams
  Manifests <- StreamManifests
  Allowed <- DistinctNames
  Canaries <- BrowserCanaries
  MaxSafe = 1
  ChangeBudget = 1
  StreamRuns = 2
  Policies <- AlertPolicies
  Values = {0, 1, 2}
  Keys = {k1, k2}
  MaxMinute = 5
  MaxNotes = 4
  FaultBudget = 1
  Crashes = 2
  Upsets = 2
CONSTRAINT CountersFollowed
SYMMETRY IdentifierSymmetry
CHECK_DEADLOCK FALSE
INVARIANTS
  StartersOK
  PassedMeansConform
  ChainSound
  ProvisioningOK
PROPERTIES
  VerifiedMeansInstalled
  CompanyWorkKept
  StreamsKept
  SecondRunSettles
  AlertingSound
  ProvedMeansDelivered
