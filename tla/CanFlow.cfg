SPECIFICATION FairSpec
CONSTANTS
  e1 = e1
  m1 = m1
  s1 = s1
  Echo = {e1}
  Monitor = {m1}
  Sender = {s1}
  Block = 2
  RxCapacity = 3
  TxCapacity = 2
  Word = 4
  Gaps <- AllGaps
  MaxMsgs = 3
  Faults = {"lost", "unacked"}
  MaxFaults = 1
INVARIANTS
  EchoExact
  EachReceivedOnce
  AscTimeDrift
PROPERTIES
  EchoSends
CHECK_DEADLOCK FALSE
