SPECIFICATION FairSpec
CONSTANTS
  Images = {"pi4"}
  Keys = {"pi4"}
  KeyOf <- OwnKeys
  Jobs = {j1, j2, j3, j4}
  None = None
  DropWhileBusy = FALSE
  BrokerFails = FALSE
  MaxReleases = 1
  MaxSyncs = 2
  MaxCommands = 1
  MaxCrashes = 1
INVARIANTS
  TypeOK
  SyncingHasJob
  MirroredHasBlob
PROPERTY
  SyncSettles
CHECK_DEADLOCK FALSE
