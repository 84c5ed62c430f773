SPECIFICATION FairSpec
CONSTANTS
  a = a
  b = b
  phone = phone
  tablet = tablet
  NoConn = NoConn
  Conns = {a, b}
  Devices = {phone, tablet}
  Scenarios <- MCScenarios
  HubCapacity = 1
  ListBudget = 2
INVARIANTS HostIsSound NoHole ClientIsSound
PROPERTIES ConnectionsEnd
CHECK_DEADLOCK FALSE
