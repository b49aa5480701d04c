\* Two jobs, two workers, up to two reports, one mishap.
CONSTANTS
  j1 = j1  j2 = j2  j3 = j3  w1 = w1  w2 = w2  p1 = p1  p2 = p2  NoJob = NoJob
  Feedbacks = {1, 2}  MinFeedbacks = 2  MaxFailures = 2
  Jobs = {j1, j2}  Workers = {w1, w2}
  Reports = {p1, p2}
  MaxMishaps = 1
SPECIFICATION Spec
SYMMETRY Symmetric
INVARIANTS PartialsOnce CountedBatchesAreAnalyzed ReportsAreWhole
PROPERTIES GeneratedIsKept
CHECK_DEADLOCK FALSE
