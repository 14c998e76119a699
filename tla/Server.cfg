SPECIFICATION Spec
CONSTANTS
  Peers = {p1, p2}
  Codes = {c1, c2, c3}
  NoCode = NoCode
  BadCode = BadCode
  Passwords = {NoPassword}
  NoPassword = NoPassword
  Protocols = {1}
  Limits = {}
  Texts <- NoTexts
  Settings <- MigrationOnly
  MinClientId = 1
  MaxClientId = 2
  FirstRoomId = 1
  MaxRoomId = 1
  LeaveFirst = FALSE
SYMMETRY Symmetry
INVARIANTS
  TypeOK
  HostIsMember
  ClientIdsExact
  RoomIdsExact
CHECK_DEADLOCK FALSE
