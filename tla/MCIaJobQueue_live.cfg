\* One request, two workers, three mishaps, no symmetry.
CONSTANTS
  j1 = j1  j2 = j2  w1 = w1  w2 = w2  r1 = r1  r2 = r2  k1 = k1  k2 = k2  e1 = e1
  Jobs = {j1}
  Workers = {w1, w2}
  Requests = {r1}
  Keys = {k1}
  Enterprises = {e1}
  EnterpriseOf <- OneCompany
  Nobody = Nobody  NoJob = NoJob  NoKey = NoKey
  StepsOf <- TwoStepsEach
  OneCallKeys = {}  QuestionKeys = {}
  MaxFailures = 3  MaxThrottled = 5
  MaxMishaps = 3
SPECIFICATION FairSpec
PROPERTIES EveryJobEnds
CHECK_DEADLOCK FALSE
