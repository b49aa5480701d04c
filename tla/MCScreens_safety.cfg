\* Three feedbacks of two companies; the requests begin on a Saturday afternoon.
CONSTANTS
  Null = Null  Company = Company  Other = Other
  geral = geral  product = product  service = service  stray = stray
  chair = chair  haircut = haircut  far = far  d1 = d1  d2 = d2
  Points = {geral, product, service, stray}  Items = {chair, haircut, far}
  Owner <- MCOwner  ItemOf <- MCItemOf  KindOf <- MCKindOf
  Cases <- MCCases  Walks <- MCWalks  Selections <- MCSelections
  Questions = {q1, q2}  Subquestions = {s1}  ParentOf <- MCParentOf
  FirstTick = 42  LastListTick = 44  LastSelectionTick = 43  Sunday = 11  MonthStarts = {6, 12, 43}
  TIMELINE_MAX_POINTS = 3  Limit = 1
  q1 = q1  q2 = q2  s1 = s1  NoConfig = NoConfig  Texts = {"old", "new"}  Forms = {1, 2}  MaxEdits = 2
  MinFeedbacks = 2  MaxPerBatch = 2
SPECIFICATION Spec
INVARIANTS NumbersAreBracketed PendingNeverHidesAComment TimelineLosesNothing CustomersAddUp WalkShowsTheList
  MetricsCoverTheAnswers NothingPendingIsLeft
CHECK_DEADLOCK FALSE
