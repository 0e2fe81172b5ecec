SPECIFICATION DeliverySpec
CONSTANTS
  c1 = c1
  c2 = c2
  c3 = c3
  guest1 = guest1
  guest2 = guest2
  guest3 = guest3
  lobby = lobby
  go = go
  NoClient = NoClient
  NoKey = NoKey
  Clients = {c1, c2}
  Names = {guest1, guest2}
  Guest <- MCGuest
  Keys = {lobby, go}
  Lobby = lobby
  Unreliable = {c1}
  Slow = {c2}
  HistoryLimit = 1
  MaxRooms = 3
  MaxCommands = 3
INVARIANTS
  DeliveryTypeOK
  NothingMissed
  AnnouncedIsSo
CHECK_DEADLOCK FALSE
