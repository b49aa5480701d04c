\* A worker that crashes between the application and the end of the job.
CONSTANTS
  s1 = s1  s2 = s2  s3 = s3  j1 = j1  j2 = j2  w1 = w1  w2 = w2
  Nobody = Nobody  NoJob = NoJob
  Sessions = {s1}  Jobs = {j1}  Workers = {w1}
  DailyLimit = 1  MaxMishaps = 1
SPECIFICATION Spec
INVARIANTS AppliedFalseMeansEdited
CHECK_DEADLOCK FALSE
