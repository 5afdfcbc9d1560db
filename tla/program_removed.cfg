SPECIFICATION Spec
CONSTANTS
  Objs = {o1, o2}
  Ops = {"start", "restart", "resize", "delete"}
  MaxNum = 1
  Retries = 0
  StartAuto = FALSE
INVARIANT RemovedStaysDown
CHECK_DEADLOCK FALSE
