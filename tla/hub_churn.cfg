SPECIFICATION Spec
CONSTANTS
  a1 = a1
  a2 = a2
  b1 = b1
  alice = alice
  bob = bob
  general = general
  nowhere = nowhere
  NoConn = NoConn
  Conns = {a1, a2}
  Users = {alice, bob}
  UserOf <- MCUserOf
  Rooms = {general}
  KnownRooms = {general}
  HttpUsers = {alice}
  Kinds = {"join_room", "bad_join", "leave_room", "message", "typing", "read"}
  Targets <- RoomOrBob
  SendCap = 1
  BcastCap = 1
  Flaky = {a1}
  StoreFails = TRUE
  MaxRequests = 2
PROPERTIES
  ImplementsFeed
INVARIANTS
  TypeOK
  NoGhostConn
  RoomsMatchConn
  PresenceView
  AtMostOnce
CHECK_DEADLOCK FALSE
