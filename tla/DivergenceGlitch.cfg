SPECIFICATION Spec
CONSTANTS
  Uid <- Uid4
  Calls <- UnevenCalls
  Created <- Order4
  Topologies <- UnevenTopology
  Disciplined = TRUE
  MaxSteps = 20
  MaxMembers = 64
  MaxSlots = 4
  MaxDeps = 3
INVARIANT Settled
