SPECIFICATION PSpec
CONSTANTS
  User = {u1}
  Task = {t1, t2}
  Action = {a1, a2, a3}
  Badge = {b1, b2}
  Type = {y1, y2}
  u1 = u1
  t1 = t1
  t2 = t2
  a1 = a1
  a2 = a2
  a3 = a3
  b1 = b1
  b2 = b2
  y1 = y1
  y2 = y2
  ActionsOf <- Actions2
  TypeOf <- Types
  GroupOf <- NoGroup
  BadgeOf <- Badges
  StrategiesOf <- Strategies
  Request = {r1}
  Form = {f1}
  MaxStrategies <- TwoStrategies
  InitReputation = 20
  MinReputation = 0
  MaxReputation = 100
  MaxRows = 2
  MaxRequests = 4
  MaxCrashes = 1
CONSTRAINT FormsApart
INVARIANTS
  OneReputationRow
  PaidOnce
  PromiseKept
PROPERTIES
  BadgesKept
CHECK_DEADLOCK FALSE
