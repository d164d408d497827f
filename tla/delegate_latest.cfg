SPECIFICATION Spec
CONSTANTS
  Types = {"video"}
  Times = {1, 2}
  MaxSeeks = 2
  MaxReads = 0
  MaxCompletes = 0
INVARIANTS
  LatestWins
CHECK_DEADLOCK FALSE
