SPECIFICATION SessionSpec
CONSTANTS
  Capacity = 2
  PatientWait = TRUE
  MaxMessages = 2
INVARIANTS
  SessionTypeOK
  PromiseKept
  StreamEndsWithSession
PROPERTIES
  DestructionEnds
