\* One request and a feedback during the call.
CONSTANTS
  r1 = r1  r2 = r2  r3 = r3  w1 = w1  w2 = w2  w3 = w3
  Nobody = Nobody  NoJob = NoJob  NoPackage = NoPackage
  Requests = {r1}  Workers = {w1}
  Minimum = 1  MaxFeedbacks = 2  MaxMishaps = 0
SPECIFICATION Spec
SYMMETRY Symmetric
INVARIANTS NoNewsMeansUpToDate
CHECK_DEADLOCK FALSE
