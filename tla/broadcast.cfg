SPECIFICATION InstanceSpec
CONSTANTS
  Pubs = {p1, p2}
  Sockets = {s1}
  Watchers = {w1}
  Nil = nil
  Cap = 2
  MaxMsgs = 3
INVARIANT TypeOK
INVARIANT OutputComplete
PROPERTY ImplementsTopic
PROPERTY PublisherReturns
PROPERTY HandlerLeaves
PROPERTY WakesUp
CHECK_DEADLOCK FALSE
