SPECIFICATION Spec
CONSTANTS
  o1 = o1
  o2 = o2
  h1 = h1
  h2 = h2
  p1 = p1
  p2 = p2
  p3 = p3
  NoHandle = NoHandle
  NoProc = NoProc
  Orgs <- MCOrgs
  Handles <- MCHandles
  Procs <- MCProcs
INVARIANTS
  TypeOK
  OneHandlePerOrg
  MapIsExact
  NoMapRace
PROPERTY
  CallsReturn
