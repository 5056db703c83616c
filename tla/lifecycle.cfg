SPECIFICATION FairSpec
CONSTANTS
  Builds = {b1}
  Runs = {r1, r2, r3}
  Names = {n1, n2}
  None = None
  Overwrites = TRUE
  FleetWhileBusy = FALSE
  MaxFleetOps = 1
  MaxCrashes = 1
INVARIANTS
  TypeOK
  OneBakePerBuild
  SucceededIsDelivered
  ActiveRowHasRun
PROPERTIES
  ActiveSettles
  ImplementsRequests
CHECK_DEADLOCK FALSE
