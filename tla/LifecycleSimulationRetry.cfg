SPECIFICATION FairSpec
CONSTANTS
  r = r
  s = s
  w1 = w1
  w2 = w2
  h1 = h1
  h2 = h2
  NoMatch = NoMatch
  Match = {s}
  Ranked = {}
  Simulation = {s}
  Worker = {w1}
  Handler = {h1}
  MaxRequests = 2
  MaxRequestFaults = 1
  MaxCrashes = 0
  MaxLostReplies = 0
  MaxStops = 0
PROPERTY AcceptedSimulationEnds
CHECK_DEADLOCK FALSE
