SPECIFICATION Spec
CONSTANTS
  p = p
  q = q
  Process = {p, q}
  Interval = 2
  MaxFiles = 2
  InitFiles <- FewFiles
  Back = {3}
  Start = 2
  MaxTime = 5
  MaxMessages = 3
SYMMETRY EitherWay
INVARIANTS
  AtMostFiles
  FileSpan
  FpIsOpen
PROPERTIES
  OldestGoes
  NewestStays
  OpenIsKept
CHECK_DEADLOCK FALSE
