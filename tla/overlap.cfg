SPECIFICATION Spec
CONSTANTS
  Builds = {b1}
  Runs = {r1, r2, r3}
  Names = {n1, n2}
  None = None
  Overwrites = FALSE
  FleetWhileBusy = TRUE
  MaxFleetOps = 1
  MaxCrashes = 1
INVARIANTS
  WorkDirAccounted
  ArtifactHasBlob
SYMMETRY Interchangeable
CHECK_DEADLOCK FALSE
