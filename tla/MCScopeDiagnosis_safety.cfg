\* Three requests, two workers, a feedback that arrives at any moment.
CONSTANTS
  r1 = r1  r2 = r2  r3 = r3  w1 = w1  w2 = w2  w3 = w3
  Nobody = Nobody  NoJob = NoJob  NoPackage = NoPackage
  Requests = {r1, r2, r3}  Workers = {w1, w2}
  Minimum = 1  MaxFeedbacks = 2  MaxMishaps = 2
SPECIFICATION Spec
SYMMETRY Symmetric
INVARIANTS TextsLeaveTheJob SecondCallMeansMishap LaterDiagnosesKnowEarlierOnes
CHECK_DEADLOCK FALSE
