SPECIFICATION Spec
CONSTANTS
  d1 = d1
  shared = shared
  o1 = o1
  o2 = o2
  v1 = v1
  v2 = v2
  j1 = j1
  c1 = c1
  a1 = a1
  a2 = a2
  url1 = url1
  url2 = url2
  NoURL = NoURL
  NoOrg = NoOrg
  NotCached = NotCached
  NoStat = NoStat
  SharedDomain = shared
  SystemOrg = o1
  Domains <- MCDomains
  Orgs <- MCOrgs
  Visitors <- MCVisitors
  Jobs <- MCJobs
  Readers <- MCReaders
  URLs <- MCURLs
  Limits <- MCLimits
  Ranges <- MCRanges
  InitDomains <- MCInitDomains
  Clients <- MCClients
  Links <- MCLinks
  DomainTTL = 2
  DayLength = 1
  MaxLimit = 2
  DefaultLimit = 1
  MaxNow = 2
  MaxEvents = 2
  MaxClicks = 2
  MaxVisits = 2
INVARIANTS
  TypeOK
  HostStaleness
  ClosedDayIsExact
  PagesMissNothing
SYMMETRY MCSymmetry
CHECK_DEADLOCK FALSE
