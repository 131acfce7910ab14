SPECIFICATION Spec
CONSTANTS
  Session = {1}
  Path = {1, 2}
  Partition = {1, 2}
  Shard = {0, 1}
  MaxSeq = 1
  MaxApplied = 2
  Depths = {0, 5000}
  Owner <- OneSession
  Distance <- Near
  Reports <- HotOrIdle
INVARIANT CorrectShard
