\* Two jobs, one after the other, and three workers that crash and stall.
CONSTANTS
  r1 = r1  r2 = r2  r3 = r3  w1 = w1  w2 = w2  w3 = w3
  Nobody = Nobody  NoJob = NoJob  NoPackage = NoPackage
  Requests = {r1, r2}  Workers = {w1, w2, w3}
  Minimum = 1  MaxFeedbacks = 1  MaxMishaps = 3
SPECIFICATION Spec
SYMMETRY Symmetric
PROPERTIES ImplementsLease ResultIsTheHolders
CHECK_DEADLOCK FALSE
