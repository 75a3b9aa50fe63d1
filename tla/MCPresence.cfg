CONSTANTS
  MaxInvites = 1
  Presences = {menu, match}
  NoPresence = NoPresence
  MaxConnections = 2
  MaxQueue = 1
SPECIFICATION MCSpec
CHECK_DEADLOCK FALSE
INVARIANTS
  NoOwnerWithoutPipe
  AcksStayInConnection
PROPERTIES
  CardSurvivesLauncher
  PresenceReachesLauncher
  IpcShutdownJoins
