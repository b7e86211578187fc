SPECIFICATION Spec
CONSTANTS
  Devices = {d1, d2}
  MaxDaemons = 2
INVARIANTS
  TypeOK
  ForgottenOnlyThroughGaps
  NothingLeftToRepair
PROPERTIES
  ImplementsCustody
  RepairedWithoutGaps
CHECK_DEADLOCK FALSE
