SPECIFICATION Spec
CONSTANTS
  u1 = u1
  u2 = u2
  o1 = o1
  o2 = o2
  p1 = p1
  r1 = r1
  None = None
  Users <- MCUsers
  Orgs <- MCOrgs
  Roles <- MCRoles
  InitUsers <- MCInitUsers
  Procs <- MCProcs
  Requests <- MCRequests
  AccessTTL = 1
  RefreshTTL = 2
  MaxLag = 1
  MaxNow = 5
  MaxTokens = 2
  MaxEdits = 1
  MaxRequests = 1
INVARIANT HandlersFindContext
CHECK_DEADLOCK FALSE
