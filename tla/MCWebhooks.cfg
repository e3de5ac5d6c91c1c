SPECIFICATION Spec
CONSTANTS
  w1 = w1
  click = click
  p1 = p1
  p2 = p2
  NoRow = NoRow
  Unset = Unset
  Ids <- MCIds
  Events <- MCEvents
  Statuses <- MCStatuses
  Procs <- MCProcs
  MaxDispatches = 3
  MaxRequests = 4
INVARIANTS
  TypeOK
  FailuresAccounted
  CountedHasError
PROPERTIES
  DeletedStaysDeleted
  DeliveriesEnd
