CONSTANTS
  Requester = {q1}
  Runner = {r1, r2}
  Correlation = {1, 2}
  Watched = {1}
  Capacity = 2
SPECIFICATION FairSpec
INVARIANTS
  WorkIsInOnePlace
  EveryResponseIsDelivered
  ClientOutlivesRunners
PROPERTIES
  WorkReturns
  ExitCompletes
CHECK_DEADLOCK FALSE
