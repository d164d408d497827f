SPECIFICATION Spec
CONSTANTS
  s1 = s1
  Types = {"audio"}
  Threads = {s1}
  Rates = {0,1}
  Events = {"asyncDone","buffering","eos"}
  AppsrcCap = 1
  MaxLoop = 3
  MaxBuffers = 0
  MaxReads = 1
  MaxSegments = 1
  MaxCmds = 3
  MaxEarly = 0
INVARIANTS
  UnderflowMeansPaused
  FirstSeekResumes
CHECK_DEADLOCK FALSE
