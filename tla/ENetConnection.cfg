SPECIFICATION FairSpec
CONSTANTS
  MaxConnections = 2
  MaxSessions = 2
  SessionIds = 4
  MaxPackets <- OneAndTwo
VIEW State
INVARIANTS
  InOrder
  ServerFollows
PROPERTIES
  EventsPaired
  ToldBeforeDisconnect
  GoneNoticed
