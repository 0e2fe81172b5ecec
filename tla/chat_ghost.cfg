SPECIFICATION Spec
CONSTANTS
  c1 = c1
  c2 = c2
  c3 = c3
  guest1 = guest1
  guest2 = guest2
  guest3 = guest3
  lobby = lobby
  go = go
  NoClient = NoClient
  NoKey = NoKey
  Clients = {c1}
  Names = {guest1}
  Guest <- MCGuest
  Keys = {lobby, go}
  Lobby = lobby
  Unreliable = {c1}
  MaxRooms = 2
  MaxCommands = 1
INVARIANT
  RemovedForGood
CHECK_DEADLOCK FALSE
