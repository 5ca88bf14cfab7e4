CONSTANTS
  home = home
  near = near
  far = far
  NoPosition = NoPosition
  Home = home
  Position <- MCPosition
  InRange <- MCInRange
  Faults <- WriteFaults
  MaxOnLine = 2
SPECIFICATION FairSpec
PROPERTY MotorsRestored
