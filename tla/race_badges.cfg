SPECIFICATION Spec
CONSTANTS
  User = {u1}
  Task = {t1}
  Action = {a1, a2, a3}
  Badge = {b1, b2}
  Type = {y1, y2}
  u1 = u1
  u2 = u2
  t1 = t1
  t2 = t2
  a1 = a1
  a2 = a2
  a3 = a3
  b1 = b1
  b2 = b2
  y1 = y1
  y2 = y2
  ActionsOf <- Actions1
  TypeOf <- Types
  GroupOf <- NoGroup
  BadgeOf <- Badges
  Request = {r1, r2}
  Form = {}
  MaxStrategies <- OneStrategy
  InitReputation = 20
  MinReputation = 0
  MaxReputation = 40
  MaxRows = 2
  MaxRequests = 2
  MaxCrashes = 0
SYMMETRY Symmetry
PROPERTIES
  BadgesKept
CHECK_DEADLOCK FALSE
