SPECIFICATION FairSpec
CONSTANTS
  MaxStep = 2
  MaxFaults = 1
  MaxDrops = 1
INVARIANT TypeOK
INVARIANT FollowsTheMatch
INVARIANT BatchesForKnownTurns
PROPERTY NeverBack
PROPERTY HearsTheEnd
CHECK_DEADLOCK FALSE
