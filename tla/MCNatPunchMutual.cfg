CONSTANTS
  p1 = p1
  p2 = p2
  t1 = t1
  t2 = t2
  Peers <- MCPeers
  Private <- MCPrivate
  Lan <- MCPrivate
  Tokens <- MCTokens
  Drawer <- MCDrawer
  Advertised = {p2}
  None = None
  Rendezvous = Rendezvous
  Lasting = {}
  MaxJoins <- MCMaxJoins
SPECIFICATION Spec
PROPERTIES
  JoinResolves
