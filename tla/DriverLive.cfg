SPECIFICATION Spec
CONSTANTS
  a1 = a1
  a2 = a2
  NoAddress = NoAddress
  Address <- MCAddress
  GpioFails <- MCGpioFails
  Offset <- MCOneOffset
  Num = 2
  Den = 5
  Origin = 6
  Modulus = 16
  CommitFails = TRUE
PROPERTIES AddressFollows ComesUp
