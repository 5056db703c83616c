SPECIFICATION Spec
CONSTANTS
  Bakes = {b1, b2}
  Processes = {p1, p2}
  Devices = {loop0, loop1}
  None = None
  MaxKills = 1
INVARIANTS
  TypeOK
  LoopHeld
  EntryMatches
  MountsInWorkDirs
  AppliedIsPublished
  SaltedIsApplied
SYMMETRY Interchangeable
CHECK_DEADLOCK FALSE
