SPECIFICATION Spec
CONSTANTS
  Planet = {h0, h1}
  Home0 = h0
  Home1 = h1
  Comet = comet
  SpawnSteps = {1}
  CometLife = 2
  EpisodeSteps = 4
  HomeShips = 1
  MaxGarrison = 1
  Production = 1
  MaxQueue = 2
  MaxFlying = 1
  MaxBatch = 2
  MaxShips = 2
INVARIANT TypeOK
INVARIANT BatchesLaunchInFull
INVARIANT OutcomeFits
PROPERTY NoFreeShips
CHECK_DEADLOCK FALSE
