SPECIFICATION Spec
CONSTANTS
  q1 = q1
  q2 = q2
  Questions = {q1, q2}
  MaxDecisions = 2
  d1 = d1
  d2 = d2
  d3 = d3
  Dialogs = {d1, d2, d3}
  h1 = h1
  Hosts = {h1}
  MaxFetches = 2
  MaxPaths = 1
  MaxCookieCalls = 2
  MaxDeletes = 1
  c1 = c1
  c2 = c2
  Checks = {c1, c2}
  MaxChanges = 4
  b1 = b1
  b2 = b2
  InputBuffers = {b1, b2}
  o1 = o1
  OutputBuffers = {o1}
  MaxFrames = 2
  MaxInput = 2
  MaxUrlEvents = 3
  MaxKeys = 3
INVARIANTS
  TypeOK
  OneAnswer
  FreedOnce
  Answerable
  OwnListing
  PolicyInForce
  Decodable
  PressedFirst
  KeysComeUp
PROPERTIES
  Settles
  CallsEnd
  BuffersReturn
  SeekArrives
CHECK_DEADLOCK FALSE
