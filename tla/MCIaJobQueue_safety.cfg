\* Two requests for the two keys of a company, one of two steps and one of a
\* single call; two workers, one mishap.
CONSTANTS
  j1 = j1  j2 = j2  w1 = w1  w2 = w2  r1 = r1  r2 = r2  k1 = k1  k2 = k2  e1 = e1
  Jobs = {j1, j2}
  Workers = {w1, w2}
  Requests = {r1, r2}
  Keys = {k1, k2}
  Enterprises = {e1}
  EnterpriseOf <- OneCompany
  Nobody = Nobody  NoJob = NoJob  NoKey = NoKey
  StepsOf <- TwoStepsOrOne
  OneCallKeys = {k2}  QuestionKeys = {k2}
  MaxFailures = 2  MaxThrottled = 3
  MaxMishaps = 1
SPECIFICATION Spec
SYMMETRY SafetySymmetry
INVARIANTS OneActivePerKey SingleWriter DeletedCompanyHasNoJobs
PROPERTIES ImplementsLease
CHECK_DEADLOCK FALSE
