SPECIFICATION Spec
CONSTANTS
  Places <- AllPlaces
  Writable = {"retention"}
  Additive = {"service", "env"}
  FirstTemplate = "t1"
  NoVolume = NoVolume
  FaultBudget = 2
  Sources <- MainLabs
  Company <- CompanyObjects
  Fixture <- SourceFixture
  Manifests <- StreamManifests
  Changes = 1
  MaxRuns = 2
CHECK_DEADLOCK FALSE
INVARIANTS
  AcceptedSawThisSource
  AcceptedRoundTrip
  RestoreComplete
  ProofOK
PROPERTIES
  NothingElseTouched
