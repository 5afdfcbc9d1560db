SPECIFICATION InstanceSpec
CONSTANTS
  Objs = {o1, o2}
  Ops = {"start", "stop", "restart", "resize", "delete"}
  MaxNum = 2
  Retries = 1
  StartAuto = TRUE
INVARIANT ListSound
INVARIANT Gone
PROPERTY Survivors
PROPERTY StopReturns
PROPERTY RestartsEnd
PROPERTY ExitEnds
CHECK_DEADLOCK FALSE
