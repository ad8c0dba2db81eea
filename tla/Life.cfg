SPECIFICATION FairSpec
CONSTANTS
  p = p
  q = q
  Process = {p, q}
  InitLine <- WrongOrRight
  Sites <- CallSites
  MaxFaults = 2
  MaxUses = 2
  MaxKills = 1
INVARIANTS
  ReadyIsUsableOrClosed
  NothingLeft
  SetUpAlone
PROPERTIES
  EveryoneEnds
CHECK_DEADLOCK FALSE
