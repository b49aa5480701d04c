\* Two callers that may ask for ever, two calls a minute and three a day.
CONSTANTS
  p1 = p1  p2 = p2  p3 = p3
  Callers = {p1, p2}
  Nobody = Nobody
  RPM = 2
  RPD = 3
  MinutesPerDay = 2
  LastMinute = 3
SPECIFICATION FairSpec
PROPERTIES EveryCallAnswered ImplementsBudget
