SPECIFICATION Spec
CONSTANTS
  Session = {1}
  Path = {p1, p2}
  Partition = {1, 2}
  Shard = {0, 1}
  MaxSeq = 1
  MaxApplied = 2
  Depths = {0, 5000}
  Owner <- OneSession
  Distance <- Near
  Reports <- HotOrIdle
SYMMETRY AnyPathFirst
INVARIANTS TypeOK OneActivePath
PROPERTIES ActiveUntilRepeated AcknowledgedForGood PlacedOnHealthy
