SPECIFICATION HintSpec
CONSTANTS
  Uid <- Uid2
  Calls <- HintCalls
  Created <- Order2
  Topologies <- HintTopology
  Disciplined = TRUE
  MaxSteps = 6
  MaxMembers = 64
  MaxSlots = 2
  MaxDeps = 2
  Partition <- None
  Capability <- None
  Lattice <- None
  Scope <- None
  AuthCalls <- None
  RegionCalls <- HintRegions
PROPERTY HintIsNeutral
