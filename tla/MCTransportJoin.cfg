CONSTANTS
  Manager = manager
  Listener = {l1}
  Connection = {c1, c2}
  Dispatcher = dispatcher
  Nobody = Nobody
  Server <- MC_Server
  Socket <- MC_Socket
SPECIFICATION FairSpec
PROPERTIES JoinReturns
CHECK_DEADLOCK FALSE
