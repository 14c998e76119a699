SPECIFICATION SystemSpec
CONSTANTS
  Peers = {p1, p2}
  Codes = {c1, c2}
  NoCode = NoCode
  BadCode = BadCode
  Passwords = {NoPassword}
  NoPassword = NoPassword
  Protocols = {1}
  Limits = {}
  Texts <- NoTexts
  Settings = {}
  MinClientId = 1
  MaxClientId = 2
  FirstRoomId = 0
  MaxRoomId = 1
  LeaveFirst = FALSE
  Commands <- TwoRoomsAndGuest
  Careful = {p2}
  Quitters = {p1}
  Fragile = {p2}
  p1 = p1
  p2 = p2
  c1 = c1
  c2 = c2
  MaxPending = 1
VIEW State
INVARIANT
  SendsOnPeer
