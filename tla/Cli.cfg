SPECIFICATION CliSpec
CONSTANTS
  CommandLines <- AllLines
  U16 = 32
  WrBufMax = 8
  DateBytes = 4
INVARIANTS
  RunHasArguments
  AskedModeRuns
PROPERTIES
  OwnValue
CHECK_DEADLOCK FALSE
