CONSTANTS
  p1 = p1
  p2 = p2
  p3 = p3
  t1 = t1
  t2 = t2
  a = a
  b = b
  here = here
  there = there
  Peers <- MCPeers
  Private <- MCPrivate
  Lan <- MCLan
  Tokens <- MCTokens
  Drawer <- MCDrawer
  Advertised = {p2}
  Lasting = {p2}
  None = None
  Rendezvous = Rendezvous
  MaxJoins <- MCMaxJoins
SPECIFICATION Spec
INVARIANTS
  AtMostOneConnect
  ConnectsToInvitedHost
PROPERTY HostSessionCloses
