SPECIFICATION USpec
CONSTANTS
  User = {u1, u2}
  Request = {r1, r2}
  MaxCalls = 4
  Task = {t1}
  Admin = {a1, a2}
  MaxCrashes = 1
SYMMETRY Symmetry
INVARIANTS
  UTypeOK
  RowsBounded
  OneRowUnlessCrossed
  AnswersWereTrue
  SuggestedWereFriends
  OwnerPaidPerApproval
  ApprovalsBounded
  AssignedTasksHaveStrategy
CHECK_DEADLOCK FALSE
