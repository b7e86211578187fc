SPECIFICATION Spec
CONSTANTS
  Devices = {d1}
  MaxDaemons = 1
PROPERTY CrashIsRepaired
CHECK_DEADLOCK FALSE
