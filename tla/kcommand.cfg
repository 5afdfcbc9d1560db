SPECIFICATION FairSpec
CONSTANTS
  Waiters = {w1, w2, w3}
  Spawned = {w1, w2}
  Results = {ok, failed}
  NotStarted = notStarted
  Again = again
PROPERTY ImplementsOutcome
PROPERTY EveryWaitReturns
CHECK_DEADLOCK FALSE
