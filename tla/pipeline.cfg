SPECIFICATION FairSpec
CONSTANTS
  User = {u1, u2}
  Group = {g1}
  u1 = u1
  u2 = u2
  g1 = g1
  Members <- Group1
  Steps = 3
  Request = {r1, r2}
  MaxTasks = 9
  MaxCompleted = 3
  MaxCrashes = 1
INVARIANTS
  TypeOK
  DuplicatesBounded
  FollowsAnAnswer
  OnlyEarlyIsUnpaid
PROPERTIES
  ImplementsChain
  StepsAreFollowed
CHECK_DEADLOCK FALSE
