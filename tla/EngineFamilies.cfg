SPECIFICATION FamiliesSpec
CONSTANTS
  Uid <- Uid4
  Calls <- AllCalls
  Created <- Order4
  Topologies <- AllTopologies
  Disciplined = FALSE
  MaxSteps = 40
  MaxMembers = 3
  MaxSlots = 4
  MaxDeps = 3
INVARIANTS CacheCoherent ReadsUntilResolved WorkUntilQueued WavesSettle
PROPERTIES Synchronous DemandsServed LazyWaitsForDemand ClearsWholeConflicts Returns
