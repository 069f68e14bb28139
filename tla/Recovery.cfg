SPECIFICATION Spec
CONSTANTS
  Worker = {w1, w2, w3}
  Batch = {a, b}
  Steps = 4
  Interval = 2
  Garbage = Garbage
  MaxCrashes = 2
  MaxCorrupt = 1
SYMMETRY Interchangeable
INVARIANT TypeOK
INVARIANT OneResult
INVARIANT RecoveredBoardsAgree
CHECK_DEADLOCK FALSE
