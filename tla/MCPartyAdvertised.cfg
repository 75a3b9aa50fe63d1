CONSTANTS
  Servers = {s1, s2}
  None = None
  MaxRequests = 3
  MaxRetries = 2
SPECIFICATION PartySpec
INVARIANT AdvertisesCurrentServer
