SPECIFICATION Spec
CONSTANTS
  Capacity = 2
  PatientWait = TRUE
PROPERTY ResubmitsAfterReport
