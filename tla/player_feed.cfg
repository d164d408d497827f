SPECIFICATION Spec
CONSTANTS
  s1 = s1
  Types = {"video"}
  Threads = {s1}
  Rates = {1}
  Events = {"asyncDone"}
  AppsrcCap = 1
  MaxLoop = 3
  MaxBuffers = 4
  MaxReads = 2
  MaxSegments = 2
  MaxCmds = 0
  MaxEarly = 2
INVARIANTS
  TypeOK
  InOrder
  NoGap
  OneSegment
  FeedPending
CHECK_DEADLOCK FALSE
