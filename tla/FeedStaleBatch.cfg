SPECIFICATION Spec
CONSTANTS
  MaxStep = 2
  MaxFaults = 0
  MaxDrops = 0
INVARIANT BatchesFitTheirTurn
CHECK_DEADLOCK FALSE
