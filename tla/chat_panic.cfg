SPECIFICATION Spec
CONSTANTS
  o1 = o1
  o2 = o2
  Others = {o1}
  SendCap = 1
  MaxLines = 1
  MaxSends = 1
INVARIANT
  SendBuffersOrDrops
CHECK_DEADLOCK FALSE
