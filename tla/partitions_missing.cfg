SPECIFICATION Spec
CONSTANTS
  Bakes = {b1}
  Processes = {p1}
  Devices = {loop0}
  None = None
  MaxKills = 0
INVARIANT
  LoopReleased
CHECK_DEADLOCK FALSE
