SPECIFICATION FairSpec
CONSTANTS
  Files <- Images
  HeadSize = 3
  Particle = 3
  Capacity = 2
  MaxRetry = 1
  Leftovers <- SomeLeftovers
  Sites <- CheckedSites
  Faults <- FaultKinds
  MaxFaults = 4
INVARIANTS
  TypeOK
  SuccessMeansInstalled
  EraseOnlyMatching
  NothingSkippedOrRepeated
PROPERTIES
  BurnEnds
