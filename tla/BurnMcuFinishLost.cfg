SPECIFICATION Spec
CONSTANTS
  Files <- Images
  HeadSize = 3
  Particle = 3
  Capacity = 2
  MaxRetry = 1
  Leftovers <- NoLeftovers
  Sites <- AllSites
  Faults = {"lost"}
  MaxFaults = 1
INVARIANTS
  SuccessMeansInstalled
