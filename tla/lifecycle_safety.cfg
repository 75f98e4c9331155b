SPECIFICATION Spec
CONSTANTS
  User = {u1}
  Task = {t1}
  Request = {r1, r2}
  Admin = {a1}
  Duration <- TwoTicks
  Deadlines = {2}
  AdminState = {"AVAILABLE"}
  StepTask = {t1}
  MaxTime = 3
  MaxCopies = 1
  MaxRequests = 3
  MaxCrashes = 1
SYMMETRY Symmetry
INVARIANTS
  TypeOK
  AcceptanceWindow
  IgnoredOncePerAvailability
  IgnoredPastDeadline
  CompletionsBounded
PROPERTIES
  ImplementsLedger
CHECK_DEADLOCK FALSE
