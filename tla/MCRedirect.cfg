SPECIFICATION RedirectSpec
CONSTANTS
  o1 = o1
  o2 = o2
  i1 = i1
  i2 = i2
  good1 = good1
  s1 = s1
  v1 = v1
  v2 = v2
  p1 = p1
  NoCode = NoCode
  Unset = Unset
  NoRow = NoRow
  NoEntry = NoEntry
  never = never
  Orgs <- MCOrgs
  Ids <- MCIds
  GoodDests <- MCDests
  BadDests <- MCNone
  Statuses <- MCStatuses
  ShortCodes <- MCShort
  LongCodes <- MCNone
  UserCodes <- MCNone
  BadCodes <- MCNone
  Expiries <- MCExpiries
  Procs <- MCProcs
  Visitors <- MCVisitors
  InitTable <- MCInitTable
  MaxRetries = 1
  MaxRequests = 1
  TTL = 1
  MaxNow = 2
  MaxVisits = 3
SYMMETRY MCSymmetry
INVARIANTS
  RedirectTypeOK
  TenantIsolation
  BoundedStaleness
  ClicksAccounted
