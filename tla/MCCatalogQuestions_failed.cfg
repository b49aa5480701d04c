\* One save.
CONSTANTS
  s1 = s1  s2 = s2  s3 = s3
  Nobody = Nobody  NoRow = NoRow
  Saves = {s1}  LastSlot = 1
SPECIFICATION SaveSpec
SYMMETRY Symmetric
INVARIANTS FailedMeansNothingSaved
CHECK_DEADLOCK FALSE
