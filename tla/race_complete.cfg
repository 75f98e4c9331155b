SPECIFICATION Spec
CONSTANTS
  User = {u1}
  Task = {t1}
  Request = {r1, r2}
  Admin = {}
  Duration <- TwoTicks
  Deadlines <- EarlyDeadlines
  AdminState = {}
  StepTask = {}
  MaxTime = 2
  MaxCopies = 1
  MaxRequests = 2
  MaxCrashes = 0
INVARIANTS
  CompletedOnce
CHECK_DEADLOCK FALSE
