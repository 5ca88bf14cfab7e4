SPECIFICATION MCSpec
CONSTANTS
  Window = 3
  Reading <- Readings
  MinusInfinity <- NoMaximum
  Led = 2
  Power <- Powers
  NoPower <- NoReading
  Position <- Positions
  Half = 2
  Coverage = 10
  IntModulus = 64
  Motors = motors
  Accel = accel
  Free = free
  Other = other
  Fd <- Numbers
  AttrFails <- Device
INVARIANTS TypeOK SumIsOfWindow StatisticsCurrent
INVARIANTS OpticsTypeOK StripShowsPower
INVARIANTS PortTypeOK NoLeak ReadyOwns
PROPERTIES SurveyPlaces ShowsPower SoundClosesOwn Reconnects
