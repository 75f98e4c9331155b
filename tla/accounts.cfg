SPECIFICATION Spec
CONSTANTS
  User = {u1}
  Request = {r1, r2}
  Form = {f1, f2}
  Token = {k1, k2}
  Validity = 2
  Period = 2
  Advertised = 48
  MaxTime = 7
  MaxCalls = 4
  MaxCrashes = 1
SYMMETRY Symmetry
INVARIANTS
  TypeOK
  LinkLifetime
  ChangesKept
CHECK_DEADLOCK FALSE
