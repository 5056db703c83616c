SPECIFICATION Spec
CONSTANTS
  Builds = {b1}
  Runs = {r1, r2}
  Names = {n1}
  None = None
  Overwrites = FALSE
  FleetWhileBusy = FALSE
  MaxFleetOps = 1
  MaxCrashes = 0
INVARIANT
  ChecksumMatches
SYMMETRY Interchangeable
CHECK_DEADLOCK FALSE
