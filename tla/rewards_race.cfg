SPECIFICATION FairSpec
CONSTANTS
  User = {u1, u2}
  Task = {t1}
  Action = {a1, a2, a3}
  Badge = {b1, b2}
  Type = {y1, y2}
  u1 = u1
  u2 = u2
  t1 = t1
  t2 = t2
  a1 = a1
  a2 = a2
  a3 = a3
  b1 = b1
  b2 = b2
  y1 = y1
  y2 = y2
  ActionsOf <- Actions1
  TypeOf <- Types
  GroupOf <- Group1
  BadgeOf <- Badges
  Request = {r1, r2}
  Form = {}
  MaxStrategies <- TwoStrategies
  InitReputation = 20
  MinReputation = 0
  MaxReputation = 40
  MaxRows = 4
  MaxRequests = 2
  MaxCrashes = 1
INVARIANTS
  TypeOK
  PaymentAccounts
  ReputationEarned
  OneRowPerWorker
  SharesBeforeOwn
PROPERTIES
  EveryCompletionIsSettled
CHECK_DEADLOCK FALSE
