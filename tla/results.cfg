SPECIFICATION Spec
CONSTANTS
  r1 = r1
  r2 = r2
  Request = {r1, r2}
  Duration = 1
  Recent = 0
  Final = 1
  LookTime = 1
  Parts = 2
  MaxTime = 3
  MaxAccepts = 2
  MaxSamples = 1
  MaxUploads = 3
  MaxCrashes = 1
SYMMETRY WorkerSymmetry
CONSTRAINT UploadsApart
INVARIANTS
  TypeOK
  OnlyAccepted
  PartsStayTogether
PROPERTIES
  ShownIsRecent
CHECK_DEADLOCK FALSE
