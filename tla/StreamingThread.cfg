SPECIFICATION Spec
CONSTANTS
  Capacity = 2
  PatientWait = TRUE
INVARIANTS
  TypeOK
  OneSentinel
  ReportsAccounted
  SentinelFits
  FreedInFlightOnlyAfterLateSubmit
  ToldToEnd
PROPERTIES
  EndsInBoundedSteps
  StopReturns
  DeviceLossEndsThreads
  CaptureFollowsRunning
  EndsUnlessSilent
