SPECIFICATION Spec
CONSTANTS
  a1 = a1
  a2 = a2
  NoAddress = NoAddress
  Address <- MCAddress
  GpioFails <- MCGpioFails
  Offset <- MCOffset
  Num = 2
  Den = 5
  Origin = 6
  Modulus = 16
  CommitFails = TRUE
INVARIANTS TypeOK ResetsMcu CalibrationKept
PROPERTIES StatusAnswers
