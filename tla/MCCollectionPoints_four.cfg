\* Four requests on the company and on an item.
CONSTANTS
  r1 = r1  r2 = r2  r3 = r3  r4 = r4  i1 = i1
  Company = Company  NoPoint = NoPoint
  Requests = {r1, r2, r3, r4}  Items = {i1}
SPECIFICATION Spec
SYMMETRY Symmetric
INVARIANTS TypeOK TwinPointsMeanOverlap DisabledItemIsClosed
CHECK_DEADLOCK FALSE
