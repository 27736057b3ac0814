SPECIFICATION FairSpec
CONSTANTS
  MaxRequests = 3
  AtOnce = 1
  Kinds <- AllKinds
  Inventory <- Inventory2
  Sink = "dataprepper"
  TenantHasObjects = TRUE
  DropsTelemetry = TRUE
  Troubles <- AllTroubles
  MaxTroubles = 1
CONSTRAINT Explored
INVARIANTS Whole UiIsAsAsked UninstallSweeps
PROPERTY InstallWires
CHECK_DEADLOCK FALSE
