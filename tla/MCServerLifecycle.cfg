SPECIFICATION FairSpec
CONSTANTS
  a = a  b = b
  Clients = {a, b}
  MaxServers = 4
  MaxCalls = 1
INVARIANTS EnsureSucceeds ServingIsReachable InactivitySparesCalls OnlyKilledLeavesFile
PROPERTY ServersEnd
CHECK_DEADLOCK FALSE
