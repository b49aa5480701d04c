\* Three requests on the company.
CONSTANTS
  r1 = r1  r2 = r2  r3 = r3  r4 = r4  i1 = i1
  Company = Company  NoPoint = NoPoint
  Requests = {r1, r2, r3}  Items = {}
SPECIFICATION Spec
SYMMETRY Symmetric
INVARIANTS DisabledCompanyIsClosed
CHECK_DEADLOCK FALSE
