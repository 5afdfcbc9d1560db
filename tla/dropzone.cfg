SPECIFICATION FairSpec
CONSTANTS
  MaxPicked = 3
  Images = {1, 2}
  Zones = {z1, z2}
  z1 = z1
  z2 = z2
  Layouts <- SampleLayouts
INVARIANT Books
INVARIANT Parallel
INVARIANT NoOrphans
PROPERTY FinalStays
PROPERTY ComesOut
CHECK_DEADLOCK FALSE
