SPECIFICATION Spec
CONSTANTS
  s1 = s1
  Types = {"audio"}
  Threads = {s1}
  Rates = {1}
  Events = {"asyncDone"}
  AppsrcCap = 1
  MaxLoop = 3
  MaxBuffers = 0
  MaxReads = 2
  MaxSegments = 1
  MaxCmds = 0
  MaxEarly = 0
INVARIANTS
  ManagerOutlives
CHECK_DEADLOCK FALSE
