SPECIFICATION Spec
CONSTANTS
  Byte = 8
  InitTables <- Tables
  Updates <- Changes
  MaxUpdates = 3
INVARIANTS
  ShownWasHeld
  AllShown
CHECK_DEADLOCK FALSE
