CONSTANTS
  SfpInterval = 1
  RefreshInterval = 5
  McuTimeout = 20
  ResetDelay = 2
  Durations <- MCDurations
  Block = 30
  Reply = 2
  ubus = ubus
  accel = accel
  net = net
  OtherFds <- MCOtherFds
  Mortal = TRUE
  Unwritable = TRUE
  QuietMax = 176
SPECIFICATION Spec
INVARIANTS TypeOK DetectsSilence
PROPERTY AlarmsOnlyUnread
