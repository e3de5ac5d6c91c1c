SPECIFICATION Spec
CONSTANTS
  o1 = o1
  o2 = o2
  u1 = u1
  u2 = u2
  u3 = u3
  i1 = i1
  s1 = s1
  e1 = e1
  e2 = e2
  e3 = e3
  p1 = p1
  p2 = p2
  NoRow = NoRow
  NoProc = NoProc
  NoInvite = NoInvite
  OrgIds <- MCOrgs
  UserIds <- MCUsers
  InviteIds <- MCInvites
  Slugs <- MCSlugs
  Emails <- MCEmails
  Roles <- MCRoles
  Quotas <- MCQuotas
  Lifetimes <- MCTimes
  Procs <- MCProcs
  MaxNow = 1
  MaxRequests = 5
INVARIANT MaxUsesRespected
