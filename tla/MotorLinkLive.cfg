CONSTANTS
  home = home
  near = near
  far = far
  NoPosition = NoPosition
  Home = home
  Position <- MCPosition
  InRange <- MCInRange
  Faults <- LiveFaults
  MaxOnLine = 3
SPECIFICATION FairSpec
PROPERTIES DeathNoticed MotorsRestored
