\* Three requests of one device at one point, across midnight, one mishap.
CONSTANTS
  r1 = r1  r2 = r2  r3 = r3  d1 = d1  p1 = p1  p2 = p2  e1 = e1
  Nobody = Nobody  NoEmail = NoEmail  Anonymous = Anonymous
  Requests = {r1, r2, r3}  Devices = {d1}  Points = {p1}  Emails = {e1}
  HoursPerDay = 2  Midnight = 1  LastHour = 2
  MaxMishaps = 1
SPECIFICATION Spec
SYMMETRY Symmetric
INVARIANTS TwoADayMeanOverlap TwinsMeanOverlap CountFollowsFeedbacks
PROPERTIES FirstCustomerStays
CHECK_DEADLOCK FALSE
