CONSTANTS
  us = us
  eu = eu
  TcpSockets = {a}
  UdpSockets = {u}
  Stuns = {us, eu}
  Discoveries = {0, 20}
  Order <- MCOrder
  Budgets <- MCBudgets
SPECIFICATION FairSpec
CHECK_DEADLOCK FALSE
INVARIANTS
  AnswersAreSequential
  FirstHandshakeAgrees
PROPERTIES
  HandshakeAnswered
  DemonwareJoins
