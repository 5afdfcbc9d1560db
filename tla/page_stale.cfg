SPECIFICATION FairSpec
CONSTANTS
  MaxVersion = 2
  MaxSockets = 2
  Period = 2
  Pause = 1
  MaxFaults = 0
PROPERTY EventFollowed
