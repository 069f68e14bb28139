SPECIFICATION FairSpec
CONSTANTS
  r = r
  s = s
  w1 = w1
  w2 = w2
  h1 = h1
  h2 = h2
  NoMatch = NoMatch
  Match = {r, s}
  Ranked = {r}
  Simulation = {s}
  Worker = {w1}
  Handler = {h1, h2}
  MaxRequests = 2
  MaxRequestFaults = 1
  MaxCrashes = 1
  MaxLostReplies = 1
  MaxStops = 1
INVARIANT TypeOK
INVARIANT QueuedRowsExist
PROPERTY ImplementsRecord
PROPERTY AcceptedMatchEnds
CHECK_DEADLOCK FALSE
