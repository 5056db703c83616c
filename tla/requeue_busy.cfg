SPECIFICATION Spec
CONSTANTS
  Builds = {b1}
  Runs = {r1, r2}
  Names = {n1}
  None = None
  Overwrites = TRUE
  FleetWhileBusy = TRUE
  MaxFleetOps = 1
  MaxCrashes = 0
INVARIANT
  GreenIsProvisioned
SYMMETRY Interchangeable
CHECK_DEADLOCK FALSE
