\* Three jobs of one report, one worker, no mishaps.
CONSTANTS
  j1 = j1  j2 = j2  j3 = j3  w1 = w1  w2 = w2  p1 = p1  p2 = p2  NoJob = NoJob
  Feedbacks = {1, 2, 3}  MinFeedbacks = 1  MaxFailures = 2
  Jobs = {j1, j2, j3}  Workers = {w1}
  Reports = {p1}
  MaxMishaps = 0
SPECIFICATION Spec
SYMMETRY Symmetric
PROPERTIES CacheHidesNothing
CHECK_DEADLOCK FALSE
