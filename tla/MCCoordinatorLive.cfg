SPECIFICATION FairSpec
CONSTANTS
  w1 = w1
  w2 = w2
  r1 = r1
  r2 = r2
  Nobody = Nobody
  Writers = {w1}
  Requests = {r1}
  MaxCalls = 2
PROPERTIES
  ReloadComesAbout
  PollSessionEnds
  StopCompletes
CHECK_DEADLOCK FALSE
