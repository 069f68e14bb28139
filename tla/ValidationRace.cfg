SPECIFICATION Spec
CONSTANTS
  Package = {p1}
  NoPackage = NoPackage
  Request = {q1, q2}
  MaxFaults = 0
PROPERTY VerdictAlwaysStands
