SPECIFICATION Spec
CONSTANTS
  Peers = {p1, p2}
  Codes = {c1, c2}
  NoCode = NoCode
  BadCode = BadCode
  Passwords = {NoPassword}
  NoPassword = NoPassword
  Protocols = {1}
  Limits = {}
  Texts <- NoTexts
  Settings <- MigrationOnly
  MinClientId = 1
  MaxClientId = 3
  FirstRoomId = 1
  MaxRoomId = 2
  LeaveFirst = FALSE
SYMMETRY Symmetry
INVARIANTS
  DisconnectedCleanedUp
