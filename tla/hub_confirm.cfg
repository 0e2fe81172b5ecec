SPECIFICATION Spec
CONSTANTS
  a1 = a1
  a2 = a2
  b1 = b1
  alice = alice
  bob = bob
  general = general
  nowhere = nowhere
  NoConn = NoConn
  Conns = {a1}
  Users = {alice, bob}
  UserOf <- MCUserOf
  Rooms = {general, nowhere}
  KnownRooms = {general}
  HttpUsers = {}
  Kinds = {"join_room"}
  Targets <- RoomsOnly
  SendCap = 2
  BcastCap = 1
  Flaky = {}
  StoreFails = FALSE
  MaxRequests = 1
INVARIANTS
  ConfirmedRoomsExist
CHECK_DEADLOCK FALSE
