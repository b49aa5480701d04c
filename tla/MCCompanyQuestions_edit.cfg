\* An edit against one worker, without mishaps.
CONSTANTS
  s1 = s1  s2 = s2  s3 = s3  j1 = j1  j2 = j2  w1 = w1  w2 = w2
  Nobody = Nobody  NoJob = NoJob
  Sessions = {s1, s2}  Jobs = {j1}  Workers = {w1}
  DailyLimit = 1  MaxMishaps = 0
SPECIFICATION Spec
PROPERTIES NeverOverwritesAnEdit
CHECK_DEADLOCK FALSE
