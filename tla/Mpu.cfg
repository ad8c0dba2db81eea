SPECIFICATION FairSpec
CONSTANTS
  p = p
  q = q
  Process = {p, q}
  Jobs <- PairJobs
  InitMcu <- AnyMcu
  Byte = 4
  NDtc = 3
  Mask = {1, 2}
  MaxSetting = 5
  Sites <- AllSites
  Faults = {"lost", "unacked"}
  MaxFaults = 2
  MaxEvents = 1
INVARIANTS
  AckedDtcSticks
  DtcHeard
PROPERTIES
  FeedMoves
  OtherDtcUntouched
  NvmNotReplaced
  CounterKeepsMoving
CHECK_DEADLOCK FALSE
