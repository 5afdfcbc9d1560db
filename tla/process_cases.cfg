SPECIFICATION InstanceSpec
CONSTANTS
  Runs = {g1, g2}
  Restarters = {r1}
  Api = api
  Nil = nil
  StartRetries = 2
  StartAuto = TRUE
  Events = {"start", "stop", "restart"}
  Elapsed = {"quick", "normal"}
  MaxOverlaps = 1
PROPERTY ApiComesBack
PROPERTY ComesToRest
