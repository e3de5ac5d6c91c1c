SPECIFICATION LinksSpec
CONSTANTS
  o1 = o1
  o2 = o2
  i1 = i1
  i2 = i2
  i3 = i3
  i4 = i4
  good1 = good1
  good2 = good2
  bad = bad
  s1 = s1
  l1 = l1
  r1 = r1
  never = never
  p1 = p1
  p2 = p2
  NoCode = NoCode
  Unset = Unset
  NoRow = NoRow
  Orgs <- MCOrgs
  Ids <- MCIds
  GoodDests <- MCGoodDests
  BadDests <- MCBadDests
  Statuses <- MCStatuses
  ShortCodes <- MCShort
  LongCodes <- MCLong
  UserCodes <- MCUser
  BadCodes <- MCBadCodes
  Expiries <- MCExpiries
  Procs <- MCProcs
  MaxRetries = 1
  InitTable <- MCInitTable
  MaxRequests = 3
INVARIANTS
  LinksTypeOK
  UniqueCodes
PROPERTIES
  ImplementsRegistry
  RequestsEnd
