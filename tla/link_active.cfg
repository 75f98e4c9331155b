SPECIFICATION Spec
CONSTANTS
  User = {u1}
  Request = {r1, r2}
  Form = {f1}
  Token = {k1, k2}
  Validity = 2
  Period = 2
  Advertised = 48
  MaxTime = 6
  MaxCalls = 2
  MaxCrashes = 0
SYMMETRY Symmetry
INVARIANTS
  LinkActiveAsAdvertised
CHECK_DEADLOCK FALSE
