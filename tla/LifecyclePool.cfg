SPECIFICATION Spec
CONSTANTS
  r = r
  s = s
  w1 = w1
  w2 = w2
  h1 = h1
  h2 = h2
  NoMatch = NoMatch
  Match = {r, s}
  Ranked = {r}
  Simulation = {s}
  Worker = {w1, w2}
  Handler = {h1, h2}
  MaxRequests = 2
  MaxRequestFaults = 1
  MaxCrashes = 1
  MaxLostReplies = 0
  MaxStops = 1
SYMMETRY Interchangeable
INVARIANT ReplayBeforeFinish
INVARIANT SimulationHeldOnce
INVARIANT NothingStranded
CHECK_DEADLOCK FALSE
