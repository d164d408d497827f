SPECIFICATION DecisionsSpec
CONSTANTS
  r1 = r1
  r2 = r2
  n1 = n1
  w1 = w1
  Responses = {r1, r2}
  Navigations = {n1}
  Windows = {w1}
  MaxCalls = 3
INVARIANTS
  SuspendedKept
CHECK_DEADLOCK FALSE
