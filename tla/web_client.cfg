SPECIFICATION WebSpec
CONSTANTS
  page = page
  ann = ann
  bob = bob
  s1 = s1
  s2 = s2
  s3 = s3
  other = other
  Nobody = Nobody
  NoConn = NoConn
  Elsewhere = Elsewhere
  Browsers = {page}
  Conns = {s1, s2, s3, other}
  Users = {ann, bob}
  UserOf <- MCUserOf
  BrowserOf <- MCBrowserOf
  Rooms = {}
  Members = {bob}
  HistoryLimit = 1
  MaxLoads = 2
  MaxPosts = 2
  MaxTurns = 2
INVARIANTS
  WebTypeOK
  ThreadsAreOwn
  NothingHidden
  CopiesAreBrought
  SpeaksAsSelf
CHECK_DEADLOCK FALSE
