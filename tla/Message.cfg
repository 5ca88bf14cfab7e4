SPECIFICATION Spec
CONSTANTS
  Base = 3
  CHECKSUM = 2
  TlvType <- Types
  Size <- Sizes
  Value <- Values
  MaxTlvs = 3
  Crc <- SumAndLength
  MaxWire = 10
INVARIANTS TypeOK StaysInside RoundTrip GetsWhatWasAdded Faithful HeapAccounted
CHECK_DEADLOCK FALSE
