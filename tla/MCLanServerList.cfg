CONSTANTS
  Servers = {s1, s2}
  None = None
  MaxRequests = 2
  MaxRetries = 1
  PageSize = 1
SPECIFICATION Spec
PROPERTIES
  StartsLatestJoin
  WaitingJoinConnects
