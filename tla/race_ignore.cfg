SPECIFICATION Spec
CONSTANTS
  User = {u1}
  Task = {t1}
  Request = {r1}
  Admin = {}
  Duration <- TwoTicks
  Deadlines <- EarlyDeadlines
  AdminState = {}
  StepTask = {}
  MaxTime = 3
  MaxCopies = 1
  MaxRequests = 1
  MaxCrashes = 0
PROPERTIES
  OnlyAvailableIsIgnored
CHECK_DEADLOCK FALSE
