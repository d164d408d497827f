SPECIFICATION FairSpec
CONSTANTS
  Types = {"video"}
  Times = {1, 2}
  MaxSeeks = 2
  MaxReads = 2
  MaxCompletes = 1
INVARIANTS
  TypeOK
  OneRead
  DeletedLast
  AnswerTrue
  SerialSeeks
PROPERTIES
  SeekSettles
  DelegateDeleted
CHECK_DEADLOCK FALSE
