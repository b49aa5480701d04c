\* Three callers: one that pays, one that is refused, one that waits for both.
CONSTANTS
  p1 = p1  p2 = p2  p3 = p3
  Callers = {p1, p2, p3}
  Nobody = Nobody
  RPM = 1
  RPD = 2
  MinutesPerDay = 2
  LastMinute = 3
SPECIFICATION Spec
INVARIANTS LimitsHold NoLeakedToken
PROPERTIES ImplementsBudget
