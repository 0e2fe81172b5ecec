SPECIFICATION Spec
CONSTANTS
  a1 = a1
  a2 = a2
  b1 = b1
  alice = alice
  bob = bob
  general = general
  nowhere = nowhere
  NoConn = NoConn
  Conns = {a1, b1}
  Users = {alice, bob}
  UserOf <- MCUserOf
  Rooms = {general}
  KnownRooms = {general}
  HttpUsers = {}
  Kinds = {"join_room", "leave_room", "message"}
  Targets <- RoomsOnly
  SendCap = 2
  BcastCap = 2
  Flaky = {}
  StoreFails = FALSE
  MaxRequests = 4
PROPERTIES
  ImplementsFeed
INVARIANTS
  SameOrder
  SenderOrder
  NoMissedMessage
CHECK_DEADLOCK FALSE
