SPECIFICATION FairSpec
CONSTANTS
  Shard = {1, 2}
  Reports <- Congested
  MaxDelay = 2
  Lossy = TRUE
INVARIANT TypeOK
PROPERTIES CrashedStaysBuried Converges
