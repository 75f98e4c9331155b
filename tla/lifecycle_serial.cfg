SPECIFICATION FairSpec
CONSTANTS
  User = {u1, u2}
  Task = {t1}
  Request = {r1}
  Admin = {a1}
  Duration <- TwoTicks
  Deadlines <- EarlyDeadlines
  AdminState = {}
  StepTask = {t1}
  MaxTime = 2
  MaxCopies = 2
  MaxRequests = 2
  MaxCrashes = 1
INVARIANTS
  OneReportPerUserTask
  CompletedOnce
PROPERTIES
  ExpiredIsSettled
CHECK_DEADLOCK FALSE
