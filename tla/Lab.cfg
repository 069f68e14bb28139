SPECIFICATION Spec
CONSTANTS
  Request = {q1, q2, q3, q4}
  Content = {c1, c2}
  Base = c1
  Key = {k1, k2}
  Cost = {1, 2}
  Granted = 3
  DailyLimit = 3
  None = None
SYMMETRY Interchangeable
INVARIANT TypeOK
INVARIANT PublishedWasSimulated
INVARIANT NeverOvercharged
CHECK_DEADLOCK FALSE
