SPECIFICATION InstanceSpec
CONSTANTS
  Texts <- SampleTexts
  Newline = "nl"
  EscStart = "esc"
  EscEnd = "m"
  Hidden = {"ts"}
  Undecodable <- BadLinks
  MaxWrite = 3
  QueueCap = 1
  RingCap = 2
  MaxLines = 1
INVARIANT TypeOK
 
INVARIANT AsAWhole
PROPERTY Arrives
CHECK_DEADLOCK FALSE
