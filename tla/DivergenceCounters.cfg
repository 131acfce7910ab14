SPECIFICATION Spec
CONSTANTS
  Uid <- Uid3
  Calls <- ChainCalls
  Created <- Order3
  Topologies <- ChainTopology
  Disciplined = TRUE
  MaxSteps = 20
  MaxMembers = 64
  MaxSlots = 4
  MaxDeps = 2
INVARIANT DepsReadExactly
