SPECIFICATION TiersSpec
CONSTANTS
  Uid <- Uid4
  Calls <- AllCalls
  Created <- Order4
  Topologies <- AllTopologies
  Disciplined = TRUE
  MaxSteps = 6
  MaxMembers = 64
  MaxSlots = 5
  MaxDeps = 3
  Partition <- TheParts
  Capability <- TheBits
  Lattice <- TheBits
  Scope <- TheBits
  AuthCalls <- AllAuthCalls
  RegionCalls <- AllRegionCalls
INVARIANTS TypeOK TablesTypeOK IndicesParallel NoTombstoneRead OutsidersReadExactly NothingUnauthorised RowsFollow
