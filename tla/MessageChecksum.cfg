SPECIFICATION Spec
CONSTANTS
  Base = 3
  CHECKSUM = 2
  TlvType <- Types
  Size <- Sizes
  Value <- Values
  MaxTlvs = 3
  Crc <- SumAndLength
  MaxWire = 10
INVARIANT ChecksumsVerified
CHECK_DEADLOCK FALSE
