SPECIFICATION FairSpec
CONSTANTS
  Human = {0, 1}
  MaxStep = 2
  MaxCommands = 3
  Batch = 2
INVARIANT TypeOK
INVARIANT AppliedIsFirstValid
INVARIANT NothingPassedOver
INVARIANT HeardIsApplied
PROPERTY MatchEnds
CHECK_DEADLOCK FALSE
