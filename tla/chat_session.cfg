SPECIFICATION FairSpec
CONSTANTS
  o1 = o1
  o2 = o2
  Others = {o1}
  SendCap = 1
  MaxLines = 2
  MaxSends = 2
INVARIANTS
  TypeOK
  ShutdownOnce
PROPERTIES
  ClientCutOff
  GoroutinesEnd
  IdleSessionEnds
  ImplementsSession
CHECK_DEADLOCK FALSE
