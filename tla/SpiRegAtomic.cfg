SPECIFICATION Spec
CONSTANTS
  t1 = t1
  t2 = t2
  t3 = t3
  p1 = p1
  p2 = p2
  a1 = a1
  a2 = a2
  v0 = v0
  v1 = v1
  v2 = v2
  NoThread = NoThread
  NoProc = NoProc
  NoAddr = NoAddr
  NoVal = NoVal
  NoCrc = NoCrc
  Thread <- ThreeThreads
  Proc <- TwoProcs
  ProcOf <- ThreeProcOf
  Addr = {a1, a2}
  Val = {v0, v1, v2}
  Requests <- AllRequests
  InitRegs <- Zeroed
  MaxCalls = 1
  MaxFaults = 2
  Faults <- LineFaults
PROPERTIES
  AtomicAccess
INVARIANTS
  BusExclusive
