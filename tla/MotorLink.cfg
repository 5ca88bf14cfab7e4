CONSTANTS
  home = home
  near = near
  far = far
  NoPosition = NoPosition
  Home = home
  Position <- MCPosition
  InRange <- MCInRange
  Faults <- AllFaults
  MaxOnLine = 2
SPECIFICATION Spec
INVARIANTS TypeOK CrashKeepsPosition
PROPERTIES SavesInRange RestoresPlace
