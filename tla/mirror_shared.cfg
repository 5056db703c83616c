SPECIFICATION Spec
CONSTANTS
  Images = {"pi4", "pi5"}
  Keys = {"common"}
  KeyOf <- CommonKey
  Jobs = {j1, j2, j3}
  None = None
  DropWhileBusy = FALSE
  BrokerFails = FALSE
  MaxReleases = 0
  MaxSyncs = 2
  MaxCommands = 1
  MaxCrashes = 0
INVARIANT
  MirroredHasBlob
CHECK_DEADLOCK FALSE
