SPECIFICATION RelaySpec
CONSTANTS
  Peers = {p1, p2, p3}
  c1 = c1
  c2 = c2
  Codes = {c1, c2}
  SortedCodes <- Sorted
  NoPeer = NoPeer
  NoCode = NoCode
  BadCode = BadCode
  Passwords = {NoPassword}
  NoPassword = NoPassword
  Protocols = {1, 2}
  Limits = {}
  Texts <- NoTexts
  Settings <- MigrationOnly
  MinClientId = 1
  MaxClientId = 3
  FirstRoomId = 0
  MaxRoomId = 1
  LeaveFirst = TRUE
  Targets = {0, 2, 3, 10}
  IdRange = 8
  Channels = {0, 2}
  ChannelCount = 2
  ListRequests <- Requests
  Bad = Bad
  IntMax = 100
SYMMETRY Symmetry
VIEW State
INVARIANTS
  MembershipAgrees
  NoDanglingRoom
  MembersReachable
  ProtocolUniform
  NeverHangs
  NoAbandonedRoom
  PagesCover
PROPERTIES
  ImplementsLobby
  MigrationKeepsRoom
  KickRemoves
  RelayStaysInRoom
  RelayReachesRoom
  TargetReached
  SenderNamed
  PagingSound
