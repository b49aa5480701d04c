\* Three requests for QR points, two saves of two slots, three requests on the
\* AI configuration, three confirmations of one e-mail, three visits of an account.
CONSTANTS
  r1 = r1  r2 = r2  r3 = r3  i1 = i1  Company = Company  NoPoint = NoPoint
  Requests = {r1, r2, r3}  Items = {i1}
  s1 = s1  s2 = s2  Nobody = Nobody  NoRow = NoRow  Saves = {s1, s2}  LastSlot = 2
  c1 = c1  c2 = c2  c3 = c3  k1 = k1  k2 = k2  m1 = m1  m2 = m2  Public = Public  None = None
  ConfigRequests = {c1, c2, c3}  Keys = {k1, k2}  Models = {m1, m2}
  Wishes <- MCWishes  Account <- MCAccount  Changed <- MCChanged
  MaxCached = 1  TTL = 1  MaxStale = 2  MaxEntries = 3  MaxChanges = 1  LastHour = 1
  e1 = e1  e2 = e2  e3 = e3  here = here  there = there  Nothing = Nothing
  Resends = {e1, e2, e3}  Ips = {here, there}  IpOf <- MCIpOf
  IpMax = 1  IpWindow = 2  EmailMax = 2  EmailWindow = 3  Cooldown = 1  LastSecond = 4
  v1 = v1  v2 = v2  v3 = v3  ana = ana  bia = bia  phone = phone
  Visits = {v1, v2, v3}  People = {ana, bia}  Plans <- MCPlans  Nil = Nil
  OldUser = OldUser  OldCompany = OldCompany
SPECIFICATION CompanySpec
INVARIANTS TwinPointsMeanOverlap DisabledItemIsClosed
  FirstSlotSerializes DeadlockNeedsOppositeSaves
  StoredModelWasOffered DroppedEntriesStayDropped ResendLimitsHold
  NoCompanyHasACause LeftoversMeanOverlap
PROPERTIES TermsNeverErased
CHECK_DEADLOCK FALSE
