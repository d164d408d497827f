SPECIFICATION Spec
CONSTANTS
  s1 = s1
  Types = {"audio"}
  Threads = {s1}
  Rates = {1}
  Events = {}
  AppsrcCap = 1
  MaxLoop = 4
  MaxBuffers = 6
  MaxReads = 3
  MaxSegments = 0
  MaxCmds = 0
  MaxEarly = 0
INVARIANTS
  EosLast
CHECK_DEADLOCK FALSE
