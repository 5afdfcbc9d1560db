SPECIFICATION Spec
CONSTANTS
  Runs = {g1, g2}
  Restarters = {r1}
  Api = api
  Nil = nil
  StartRetries = 1
  StartAuto = FALSE
  Events = {"start", "stop"}
  Elapsed = {"normal"}
  MaxOverlaps = 1
INVARIANT OneChild
