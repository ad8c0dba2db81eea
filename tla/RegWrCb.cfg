SPECIFICATION Spec
CONSTANTS
  a = a
  b = b
  Client = {a, b}
  Gran = 2
  Word = 8
  Capacity = 5
  Uses <- ThreeUses
  Faults = {"lost", "unacked"}
  MaxFaults = 2
  MaxCalls = 5
  MaxItems = 4
INVARIANTS
  CountsAddUp
  ItemsWhole
  NothingSkipped
CHECK_DEADLOCK FALSE
