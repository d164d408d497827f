SPECIFICATION Spec
CONSTANTS
  r1 = r1
  r2 = r2
  n1 = n1
  w1 = w1
  Responses = {r1, r2}
  Navigations = {n1}
  Windows = {w1}
  MaxCalls = 3
  Origins = {o1, o2}
  AnyOrigin = anyOrigin
  Masks = {{"localStorage"}, {"quota"}, {"localStorage", "quota"}, {"appcache"}}
INVARIANTS
  TypeOK
  ThrottleValid
  FirstAnswerCounts
  WaitingMeansWork
  NothingAfterDelete
PROPERTIES
  OneAnswer
  Answered
  ImplementsRemoval
  EventuallyDeleted
CHECK_DEADLOCK FALSE
