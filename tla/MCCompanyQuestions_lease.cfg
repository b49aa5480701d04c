\* Two requests to generate, of two days, and two workers that crash and stall.
CONSTANTS
  s1 = s1  s2 = s2  s3 = s3  j1 = j1  j2 = j2  w1 = w1  w2 = w2
  Nobody = Nobody  NoJob = NoJob
  Sessions = {s1, s2}  Jobs = {j1, j2}  Workers = {w1, w2}
  DailyLimit = 1  MaxMishaps = 2
SPECIFICATION Spec
SYMMETRY Symmetric
PROPERTIES ImplementsLease AppliedIsTheHolders
CHECK_DEADLOCK FALSE
