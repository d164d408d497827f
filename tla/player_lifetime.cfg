SPECIFICATION FairSpec
CONSTANTS
  s1 = s1
  s2 = s2
  Types = {"audio"}
  Threads = {s1,s2}
  Rates = {1}
  Events = {"asyncDone","error","state"}
  AppsrcCap = 1
  MaxLoop = 2
  MaxBuffers = 1
  MaxReads = 1
  MaxSegments = 1
  MaxCmds = 0
  MaxEarly = 1
INVARIANTS
  NoUseAfterDelete
PROPERTIES
  Deleted
CHECK_DEADLOCK FALSE
