SPECIFICATION CliSpec
CONSTANTS
  CommandLines <- AllLines
  U16 = 32
  WrBufMax = 8
  DateBytes = 4
INVARIANTS
  RoomForCrc
CHECK_DEADLOCK FALSE
