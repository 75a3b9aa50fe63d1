CONSTANTS
  Main = main
  Workers = {worker}
  Admins = {a}
  Nobody = Nobody
  MaxMessages = 2
  MaxRequests = 2
  m1 = m1
  m2 = m2
  missing = missing
  dm = dm
  war = war
  Maps = {m1, m2}
  DefaultMap = m1
  Lobby = lobby
  Gametypes = {dm, war}
  Rotations <- MCRotations
  MaxPending = 2
  MaxInputs = 3
  MaxInvites = 3
  Fonts = {f}
  MaxRefusals = 1
SPECIFICATION MCSpec
CHECK_DEADLOCK FALSE
INVARIANTS
  MessagesOnceInOrder
  ReplyIsOfRequest
  NoSecondCard
  InvitesInOrder
PROPERTIES
  MessageArrives
  ShutdownEnds
  LevelExitRotates
  QueuedInviteJoins
  CjkBecomesReady
