SPECIFICATION FairSpec
CONSTANTS
  Clients = {c1, c2, c3}
  Rooms = {lobby}
  Lobby = lobby
  Nowhere = Nowhere
  Nobody = Nobody
  c1 = c1
  c2 = c2
  c3 = c3
  lobby = lobby
  Commands = {"who", "post"}
  MaxCommands = 2
PROPERTIES
  WhoIsAnswered
CHECK_DEADLOCK FALSE
