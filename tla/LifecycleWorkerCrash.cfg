SPECIFICATION FairSpec
CONSTANTS
  r = r
  s = s
  w1 = w1
  w2 = w2
  h1 = h1
  h2 = h2
  NoMatch = NoMatch
  Match = {r}
  Ranked = {r}
  Simulation = {}
  Worker = {w1}
  Handler = {h1}
  MaxRequests = 1
  MaxRequestFaults = 0
  MaxCrashes = 1
  MaxLostReplies = 0
  MaxStops = 0
PROPERTY CrashedMatchEnds
CHECK_DEADLOCK FALSE
