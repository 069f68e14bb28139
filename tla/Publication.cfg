SPECIFICATION Spec
CONSTANTS
  Package = {p1, p2}
  NoPackage = NoPackage
  Request = {q1, q2}
  MaxFaults = 2
INVARIANT TypeOK
INVARIANT PackageKept
INVARIANT CurrentPassed
PROPERTY VerdictStands
