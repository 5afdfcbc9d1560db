SPECIFICATION FairSpec
CONSTANTS
  MaxVersion = 2
  MaxSockets = 2
  Period = 2
  Pause = 1
  MaxFaults = 1
INVARIANT TypeOK
PROPERTY ShownForward
PROPERTY EventShown
PROPERTY ProgramCatchesUp
PROPERTY Reconnects
PROPERTY ClosesUnanswered
