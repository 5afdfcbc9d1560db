SPECIFICATION Spec
CONSTANTS
  Runs = {g1, g2, g3}
  Restarters = {r1}
  Api = api
  Nil = nil
  StartRetries = 1
  StartAuto = FALSE
  Events = {"start", "stop", "restart"}
  Elapsed = {"quick", "normal", "long"}
  MaxOverlaps = 0
INVARIANT TypeOK
INVARIANT SoleChild
INVARIANT NoNilCommand
INVARIANT DonesMatchAdds
PROPERTY ImplementsSlot
