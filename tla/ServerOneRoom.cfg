SPECIFICATION Spec
CONSTANTS
  Peers = {p1, p2, p3}
  Codes = {c1}
  NoCode = NoCode
  BadCode = BadCode
  Passwords = {NoPassword, secret}
  NoPassword = NoPassword
  Protocols = {1, 2}
  Limits = {0, 2}
  Texts <- NoTexts
  Settings <- AllSettings
  MinClientId = 1
  MaxClientId = 3
  FirstRoomId = 0
  MaxRoomId = 0
  LeaveFirst = FALSE
SYMMETRY Symmetry
VIEW State
PROPERTIES
  AdmissionControlled
  HostHandover
  DepartureTold
