SPECIFICATION Spec
CONSTANT
  Requests <- MoveRequests
INVARIANTS
  TypeOK
  ReportedIsDriven
  SuccessMeansDriven
  UpMeansConfigured
  NoPulseLeft
