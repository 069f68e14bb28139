SPECIFICATION FairSpec
CONSTANTS
  ab = ab
  ba = ba
  bc = bc
  a = a
  b = b
  c = c
  s1 = s1
  s2 = s2
  s3 = s3
  Match = {ab, ba, bc}
  Fleet = {a, b, c}
  Player <- MCPlayer
  NoMatch = NoMatch
  NoSettler = NoSettler
  Settler = {s1, s2, s3}
  MaxCalls = 2
  MaxAborts = 1
INVARIANT TypeOK
INVARIANT RatingsAreChains
PROPERTY ImplementsSettlement
PROPERTY SettlementsEnd
CHECK_DEADLOCK FALSE
