\* Three sessions, two workers, one mishap.
CONSTANTS
  s1 = s1  s2 = s2  s3 = s3  j1 = j1  j2 = j2  w1 = w1  w2 = w2
  Nobody = Nobody  NoJob = NoJob
  Sessions = {s1, s2, s3}  Jobs = {j1, j2}  Workers = {w1, w2}
  DailyLimit = 1  MaxMishaps = 1
SPECIFICATION Spec
SYMMETRY Symmetric
INVARIANTS GenerationsAreLimited SomebodyGoesOn RingsNeedMissingQuestions
PROPERTIES AiNeverReplacesAi EditsDuringTheCallSurvive
CHECK_DEADLOCK FALSE
