SPECIFICATION Spec
CONSTANTS
  Tools <- MCTools
  MaxFaults = 2
INVARIANTS
  TypeOK
  ReportedIsComplete
PROPERTIES
  RerunsSucceed
  ProvisionedOrFault
