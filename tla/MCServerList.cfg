CONSTANTS
  Servers = {s1, s2}
  None = None
  MaxRequests = 2
  MaxRetries = 0
  PageSize = 1
  QueryLimit = 1
  MaxRefreshes = 2
SPECIFICATION FairSpec
INVARIANTS
  ListedOnce
PROPERTY QueueDrains
