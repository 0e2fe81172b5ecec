SPECIFICATION FairSpec
CONSTANTS
  a1 = a1
  a2 = a2
  b1 = b1
  alice = alice
  bob = bob
  general = general
  nowhere = nowhere
  NoConn = NoConn
  Conns = {a1, b1}
  Users = {alice, bob}
  UserOf <- MCUserOf
  Rooms = {general}
  KnownRooms = {general}
  HttpUsers = {}
  Kinds = {"message"}
  Targets <- DirectToBob
  SendCap = 1
  BcastCap = 1
  Flaky = {b1}
  StoreFails = FALSE
  MaxRequests = 2
INVARIANTS
  DirectIsPrivate
  PresenceView
PROPERTIES
  ImplementsFeed
  SendersUnblock
  DeadConnLeaves
  MessagesSettle
CHECK_DEADLOCK FALSE
